---------------------------- MODULE RobinHoodProofs ----------------------------
(***************************************************************************)
(* The hash tables, for any keys, hash functors, sizes and calls: each is  *)
(* sound, and together they implement maps.                                *)
(*                                                                         *)
(* A table is sound when the byte of every slot tells how far its node is  *)
(* from its bucket, and these distances rise by at most one from slot to   *)
(* slot.  Then from its bucket to a node no slot has a lower byte than the *)
(* node would have there (RunsCover), which is why a lookup that stops at  *)
(* the first lower byte misses nothing (FindIs), and why an insertion that *)
(* pushes the nodes behind it up (PlaceKeeps) and a removal that pulls     *)
(* them down (RemovedKeeps) can be right.  The number of nodes and the     *)
(* bytes bound how far a run goes, so that the slots behind the last       *)
(* bucket suffice (RoomAhead).                                             *)
(*                                                                         *)
(* A rehash, the rounds of an insertion and a loop that erases are         *)
(* recursive functions; what holds of them is shown by induction over      *)
(* slots, rounds and turns.                                                *)
(***************************************************************************)
EXTENDS RobinHoodTables, FiniteSetTheorems, StorageProofs

(* First is the least element of a set of numbers.                         *)
LEMMA FirstIsLeast ==
  ASSUME NEW S \in SUBSET Nat, S # {}
  PROVE  First(S) \in S /\ \A x \in S : First(S) <= x
BY LeastElement DEF First

(* First is the element below the others.                                  *)
LEMMA FirstOf ==
  ASSUME NEW S \in SUBSET Nat, NEW x \in S, \A y \in S : x <= y
  PROVE  First(S) = x
<1>1. S # {}
  OBVIOUS
<1>2. First(S) \in S /\ First(S) <= x
  BY <1>1, FirstIsLeast
<1>3. First(S) \in Nat /\ x \in Nat /\ x <= First(S)
  BY <1>2
<1> QED BY <1>2, <1>3

(***************************************************************************)
(* Powers of two.  That the recursive function satisfies its equation is   *)
(* shown by building it one exponent at a time.                            *)
(***************************************************************************)
IsPow2(g, m) == g = [j \in 0 .. m |-> IF j = 0 THEN 1 ELSE 2 * g[j - 1]]

(* There are such functions up to every exponent.                          *)
LEMMA PowersExist == \A m \in Nat : \E g : IsPow2(g, m) /\ g \in [0 .. m -> Nat]
<1> DEFINE N == {m \in Nat : \E g : IsPow2(g, m) /\ g \in [0 .. m -> Nat]}
<1>1. 0 \in N
  <2> DEFINE g == [n \in 0 .. 0 |-> 1]
  <2>1. IsPow2(g, 0) /\ g \in [0 .. 0 -> Nat]
    BY DEF IsPow2
  <2> QED BY <2>1
<1>2. ASSUME NEW m \in Nat, m \in N PROVE m + 1 \in N
  <2>1. PICK g : IsPow2(g, m) /\ g \in [0 .. m -> Nat]
    BY <1>2
  <2> DEFINE h == [n \in 0 .. m + 1 |-> IF n <= m THEN g[n] ELSE 2 * g[m]]
  <2>2. \A n \in 0 .. m : h[n] = g[n]
    OBVIOUS
  <2>3. \A n \in 0 .. m : g[n] = IF n = 0 THEN 1 ELSE 2 * g[n - 1]
    BY <2>1 DEF IsPow2
  <2>4. ASSUME NEW n \in 0 .. m + 1
        PROVE  h[n] = IF n = 0 THEN 1 ELSE 2 * h[n - 1]
    <3>1. CASE n \in 0 .. m
      BY <3>1, <2>2, <2>3
    <3>2. CASE n = m + 1
      BY <3>2, <2>2
    <3> QED BY <3>1, <3>2
  <2>5. IsPow2(h, m + 1) /\ h \in [0 .. m + 1 -> Nat]
    BY <2>4, <2>1 DEF IsPow2
  <2> QED BY <2>5
<1> HIDE DEF N
<1>3. Nat \subseteq N
  BY <1>1, <1>2, SetInduction
<1> QED BY <1>3 DEF N

(* Two solutions agree where both are defined.                             *)
LEMMA PowersAgree ==
  ASSUME NEW g, NEW h, NEW m \in Nat, NEW n \in Nat, IsPow2(g, m), IsPow2(h, n)
  PROVE  \A j \in Nat : j <= m /\ j <= n => g[j] = h[j]
<1> DEFINE N == {j \in Nat : j <= m /\ j <= n => g[j] = h[j]}
<1>0. /\ \A j \in 0 .. m : g[j] = IF j = 0 THEN 1 ELSE 2 * g[j - 1]
      /\ \A j \in 0 .. n : h[j] = IF j = 0 THEN 1 ELSE 2 * h[j - 1]
  BY DEF IsPow2
<1>1. 0 \in N
  BY <1>0
<1>2. ASSUME NEW j \in Nat, j \in N PROVE j + 1 \in N
  BY <1>0, <1>2
<1> HIDE DEF N
<1>3. Nat \subseteq N
  BY <1>1, <1>2, SetInduction
<1> QED BY <1>3 DEF N

(* The powers of two, as an equation.                                      *)
LEMMA PowersDefined ==
  /\ Pow2[0] = 1
  /\ \A j \in Nat : Pow2[j] \in Nat \ {0} /\ Pow2[j + 1] = 2 * Pow2[j]
<1> DEFINE G(m) == CHOOSE g : IsPow2(g, m) /\ g \in [0 .. m -> Nat]
           p == [j \in Nat |-> G(j)[j]]
<1>1. \A m \in Nat : IsPow2(G(m), m) /\ G(m) \in [0 .. m -> Nat]
  BY PowersExist
<1> HIDE DEF G
<1>2. \A j \in Nat : p[j] = IF j = 0 THEN 1 ELSE 2 * p[j - 1]
  <2> TAKE j \in Nat
  <2>1. G(j)[j] = IF j = 0 THEN 1 ELSE 2 * G(j)[j - 1]
    <3>1. j \in 0 .. j
      OBVIOUS
    <3> QED BY <1>1, <3>1 DEF IsPow2
  <2>2. j # 0 => G(j)[j - 1] = G(j - 1)[j - 1]
    <3> HAVE j # 0
    <3>1. j - 1 \in Nat /\ j - 1 <= j /\ j - 1 <= j - 1
      OBVIOUS
    <3>2. IsPow2(G(j), j) /\ IsPow2(G(j - 1), j - 1)
      BY <1>1, <3>1
    <3> QED BY <3>1, <3>2, PowersAgree
  <2> QED BY <2>1, <2>2
<1>3. p = [j \in Nat |-> IF j = 0 THEN 1 ELSE 2 * p[j - 1]]
  BY <1>2
<1> HIDE DEF p
<1>4. \E q : q = [j \in Nat |-> IF j = 0 THEN 1 ELSE 2 * q[j - 1]]
  BY <1>3
<1>5. Pow2 = [j \in Nat |-> IF j = 0 THEN 1 ELSE 2 * Pow2[j - 1]]
  BY <1>4 DEF Pow2
<1> HIDE DEF Pow2
<1>6. \A j \in Nat : Pow2[j] = IF j = 0 THEN 1 ELSE 2 * Pow2[j - 1]
  BY <1>5
<1> DEFINE N == {j \in Nat : Pow2[j] \in Nat \ {0}}
<1>7. 0 \in N
  BY <1>6
<1>8. ASSUME NEW j \in Nat, j \in N PROVE j + 1 \in N
  BY <1>6, <1>8
<1> HIDE DEF N
<1>9. Nat \subseteq N
  BY <1>7, <1>8, SetInduction
<1> QED BY <1>6, <1>9 DEF N

(***************************************************************************)
(* Arithmetic.                                                             *)
(***************************************************************************)
(* Division by what may be a product.                                      *)
LEMMA QuotientIs ==
  ASSUME NEW a \in Nat, NEW b \in Nat \ {0}, NEW q \in Int, NEW r \in Int,
         a = b * q + r, 0 <= r, r < b
  PROVE  a \div b = q /\ a % b = r
OBVIOUS

(* Quotients are numbers and remainders below the divisor.                 *)
LEMMA QuotientBounds ==
  ASSUME NEW a \in Nat, NEW b \in Nat \ {0}
  PROVE  /\ a \div b \in Nat
         /\ a % b \in 0 .. b - 1
OBVIOUS

(* A number below a product of b has a quotient below the other factor.    *)
LEMMA QuotientBelow ==
  ASSUME NEW a \in Nat, NEW b \in Nat \ {0}, NEW c \in Nat, a < c * b
  PROVE  a \div b < c
OBVIOUS

(* Division by twice as much is division and halving.                      *)
LEMMA HalvesTwice ==
  ASSUME NEW a \in Nat, NEW b \in Nat \ {0}
  PROVE  a \div (2 * b) = (a \div b) \div 2
OBVIOUS

(* A product does not get smaller when a factor grows.                     *)
LEMMA ProductGrows ==
  ASSUME NEW a \in Nat, NEW b \in Nat, NEW c \in Nat, b <= c
  PROVE  a * b \in Nat /\ a * b <= a * c
OBVIOUS

(* A product with a positive factor is not below the other one.            *)
LEMMA ProductPositive ==
  ASSUME NEW a \in Nat, NEW b \in Nat \ {0}
  PROVE  a * b >= a
OBVIOUS

(***************************************************************************)
(* The inductive invariant of one table: what must hold of its bytes, its  *)
(* slots and its counters for a probe to find what is there.               *)
(***************************************************************************)
Entry == [key : Keys, value : Values]

Home(t, key) == keyToIdx(t, key).idx

(* The info byte of a node with this key in slot y.                        *)
Byte(t, key, y) == keyToIdx(t, key).info + (y - Home(t, key)) * t.inc

UsesHash(t) ==
  /\ t.hash \in [0 .. Multipliers - 1 -> [Keys -> Nat]]
  /\ t.mult \in 0 .. Multipliers - 1

UsesUnit(t) ==
  /\ t.shift \in Nat /\ t.inc \in Nat
  /\ \E j \in Nat \ {0} : t.inc = Pow2[j]
  /\ t.inc * Pow2[t.shift] = InitialInfoInc

IsRecord(r) ==
  r = [hash |-> r.hash, mult |-> r.mult, num |-> r.num, mask |-> r.mask, max |-> r.max,
       inc |-> r.inc, shift |-> r.shift, info |-> r.info, node |-> r.node]

IsTable(t) ==
  /\ IsRecord(t)
  /\ UsesHash(t) /\ UsesUnit(t)
  /\ t.num \in Nat /\ t.mask \in Nat
  /\ t.max \in {0, calcMaxNumElementsAllowed(t.mask + 1)}
  /\ t.info \in [0 .. calcNumBytesInfo(End(t)) - 1 -> 0 .. MaxInfo]
  /\ t.node \in [0 .. End(t) - 1 -> Entry \cup {NoNode}]

(* Slots without a node have the byte 0, those with one say how far it is. *)
BytesTell(t) ==
  \A x \in 0 .. End(t) - 1 :
    \/ t.info[x] = 0 /\ t.node[x] = NoNode
    \/ /\ t.info[x] # 0 /\ t.node[x] \in Entry
       /\ Home(t, t.node[x].key) <= x
       /\ t.info[x] = Byte(t, t.node[x].key, x)

(* Behind the slots is the sentinel, and nothing but zeros.                *)
SentinelStands(t) ==
  \A x \in End(t) .. calcNumBytesInfo(End(t)) - 1 :
    t.info[x] = IF x = End(t) /\ t.mask # 0 THEN 1 ELSE 0

(* Distances rise by one at most from slot to slot, and start anew with a  *)
(* node in its own bucket.                                                 *)
RunsRise(t) ==
  \A x \in 0 .. End(t) :
    t.info[x] < 2 * t.inc \/ (x > 0 /\ t.info[x] <= t.info[x - 1] + t.inc)

KeysDiffer(t) ==
  \A x, y \in 0 .. End(t) - 1 :
    t.node[x] # NoNode /\ t.node[x].key = t.node[y].key => x = y

BytesHaveRoom(t) ==
  t.max # 0 => \A x \in 0 .. End(t) - 1 : t.info[x] + t.inc <= MaxInfo

CountIsRight(t) ==
  /\ t.num = Cardinality(Nodes(t))
  /\ t.num <= calcMaxNumElementsAllowed(t.mask + 1)

Sound(t) ==
  /\ IsTable(t) /\ BytesTell(t) /\ SentinelStands(t) /\ RunsRise(t)
  /\ KeysDiffer(t) /\ BytesHaveRoom(t) /\ CountIsRight(t)

(***************************************************************************)
(* Sizes, bytes and probes.                                                *)
(***************************************************************************)

(* The allowed number of elements grows with the number of buckets.        *)
LEMMA AllowedGrows ==
  ASSUME NEW n \in Nat, NEW m \in Nat, n <= m
  PROVE  /\ calcMaxNumElementsAllowed(n) \in Nat
         /\ calcMaxNumElementsAllowed(n) <= calcMaxNumElementsAllowed(m)
<1>1. MaxLoadFactor100 \in Nat
  BY TableAssumption
<1>2. n * MaxLoadFactor100 \in Nat /\ m * MaxLoadFactor100 \in Nat
  BY <1>1
<1>3. n * MaxLoadFactor100 <= m * MaxLoadFactor100
  BY <1>1, ProductGrows
<1>4. ASSUME NEW a \in Nat, NEW b \in Nat, a <= b PROVE a \div 100 \in Nat /\ a \div 100 <= b \div 100
  BY <1>4
<1> QED BY <1>2, <1>3, <1>4 DEF calcMaxNumElementsAllowed

(* A table has at least as many slots as buckets.                          *)
LEMMA BufferIs ==
  ASSUME NEW n \in Nat
  PROVE  /\ calcNumElementsWithBuffer(n) \in Nat
         /\ n <= calcNumElementsWithBuffer(n)
         /\ \/ calcNumElementsWithBuffer(n) = n + calcMaxNumElementsAllowed(n)
            \/ calcNumElementsWithBuffer(n) = n + MaxInfo
<1> DEFINE S == {calcMaxNumElementsAllowed(n), MaxInfo}
<1>1. S \in SUBSET Nat /\ S # {}
  BY AllowedGrows, TableAssumption
<1>2. First(S) \in S
  BY <1>1, FirstIsLeast
<1> QED BY <1>1, <1>2 DEF calcNumElementsWithBuffer

(* The slots, and at least three info bytes behind them.                   *)
LEMMA EndIs ==
  ASSUME NEW t, t.mask \in Nat
  PROVE  /\ End(t) \in Nat
         /\ calcNumBytesInfo(End(t)) \in Nat
         /\ End(t) + 3 <= calcNumBytesInfo(End(t))
         /\ t.mask = 0 => End(t) = 0
         /\ t.mask # 0 =>
              /\ t.mask + 1 <= End(t)
              /\ \/ End(t) = t.mask + 1 + calcMaxNumElementsAllowed(t.mask + 1)
                 \/ End(t) = t.mask + 1 + MaxInfo
<1>1. t.mask # 0 => End(t) = calcNumElementsWithBuffer(t.mask + 1)
  BY DEF End
<1>2. End(t) \in Nat
  BY <1>1, BufferIs DEF End
<1> QED BY <1>1, <1>2, BufferIs, TableAssumption DEF End, calcNumBytesInfo

(* The unit of the info bytes is even.                                     *)
LEMMA UnitIsEven ==
  ASSUME NEW t, UsesUnit(t)
  PROVE  \E c \in Nat \ {0} : t.inc = 2 * c /\ (t.inc > 2 => \E j \in Nat \ {0} : c = Pow2[j])
<1>1. PICK j \in Nat \ {0} : t.inc = Pow2[j]
  BY DEF UsesUnit
<1>2. j - 1 \in Nat /\ j - 1 + 1 = j
  OBVIOUS
<1>3. Pow2[j - 1] \in Nat \ {0} /\ Pow2[j] = 2 * Pow2[j - 1]
  BY <1>2, PowersDefined
<1>4. t.inc > 2 => j - 1 # 0
  BY <1>1, <1>3, PowersDefined
<1> QED BY <1>1, <1>2, <1>3, <1>4

(* Info bytes do not exceed MaxInfo.                                       *)
LEMMA BytesAreBytes ==
  ASSUME NEW t, IsTable(t)
  PROVE  /\ \A x \in 0 .. calcNumBytesInfo(End(t)) - 1 : t.info[x] \in Nat /\ t.info[x] <= MaxInfo
         /\ MaxInfo \in Nat
<1>1. MaxInfo \in Nat
  BY TableAssumption
<1>2. t.info \in [0 .. calcNumBytesInfo(End(t)) - 1 -> 0 .. MaxInfo]
  BY DEF IsTable
<1>3. \A x \in 0 .. calcNumBytesInfo(End(t)) - 1 : t.info[x] \in 0 .. MaxInfo
  BY <1>2
<1> QED BY <1>1, <1>3

(* Where a probe starts.                                                   *)
LEMMA ProbeStarts ==
  ASSUME NEW t, IsTable(t), NEW key \in Keys
  PROVE  /\ Home(t, key) \in Nat /\ Home(t, key) <= t.mask /\ Home(t, key) <= End(t)
         /\ keyToIdx(t, key).info \in t.inc .. 2 * t.inc - 1
         /\ t.inc \in Nat /\ t.inc >= 2 /\ t.inc <= InitialInfoInc
<1> DEFINE h == t.hash[t.mult][key]
           P == Pow2[t.shift]
<1>1. h \in Nat
  BY DEF IsTable, UsesHash
<1>2. P \in Nat \ {0} /\ t.inc \in Nat /\ t.inc * P = InitialInfoInc
  BY PowersDefined DEF IsTable, UsesUnit
<1>3. InitialInfoInc \in Nat \ {0}
  BY TableAssumption
<1> HIDE DEF h, P
<1>4. h \div InitialInfoInc \in Nat /\ h % InitialInfoInc \in 0 .. InitialInfoInc - 1
  BY <1>1, <1>3, QuotientBounds
<1>5. (h % InitialInfoInc) \div P \in 0 .. t.inc - 1
  <2>1. h % InitialInfoInc < t.inc * P
    BY <1>2, <1>3, <1>4
  <2>2. (h % InitialInfoInc) \div P < t.inc
    BY <2>1, <1>2, <1>4, QuotientBelow
  <2>3. (h % InitialInfoInc) \div P \in Nat
    BY <1>2, <1>4, QuotientBounds
  <2> QED BY <2>2, <2>3, <1>2
<1>6. t.mask \in Nat
  BY DEF IsTable
<1>7. (h \div InitialInfoInc) % (t.mask + 1) \in 0 .. t.mask
  <2>1. ASSUME NEW a \in Nat, NEW b \in Nat PROVE a % (b + 1) \in 0 .. b
    OBVIOUS
  <2> QED BY <1>4, <1>6, <2>1
<1>8. t.inc >= 2
  BY UnitIsEven DEF IsTable
<1>9. t.inc <= InitialInfoInc
  BY <1>2, ProductPositive
<1>10. keyToIdx(t, key) = [idx |-> (h \div InitialInfoInc) % (t.mask + 1),
                           info |-> t.inc + (h % InitialInfoInc) \div P]
  BY DEF keyToIdx, h, P
<1>11. t.mask <= End(t)
  BY <1>6, EndIs
<1> QED BY <1>2, <1>5, <1>6, <1>7, <1>8, <1>9, <1>10, <1>11, EndIs DEF Home

(* A probe gains one unit per slot.                                        *)
LEMMA BytesStep ==
  ASSUME NEW t, IsTable(t), NEW key \in Keys, NEW y \in Nat, Home(t, key) <= y
  PROVE  /\ Byte(t, key, y) \in Nat
         /\ Byte(t, key, y) >= t.inc
         /\ Byte(t, key, y + 1) = Byte(t, key, y) + t.inc
         /\ y > Home(t, key) <=> Byte(t, key, y) >= 2 * t.inc
         /\ Byte(t, key, y) > y - Home(t, key)
<1> DEFINE h == Home(t, key)
           b == keyToIdx(t, key).info
<1>1. /\ h \in Nat /\ b \in Nat /\ t.inc \in Nat /\ t.inc >= 2
      /\ t.inc <= b /\ b < 2 * t.inc /\ h <= y
  BY ProbeStarts
<1>2. \A z : Byte(t, key, z) = b + (z - h) * t.inc
  BY DEF Byte
<1> HIDE DEF h, b
<1>3. ((y + 1) - h) * t.inc = (y - h) * t.inc + t.inc
  BY <1>1
<1>4. (y - h) * t.inc \in Nat /\ (y - h) * t.inc >= y - h
  <2>1. y - h \in Nat /\ t.inc \in Nat \ {0}
    BY <1>1
  <2> QED BY <2>1, ProductPositive
<1>5. y > h => (y - h) * t.inc >= t.inc
  <2> HAVE y > h
  <2>1. y - h \in Nat \ {0}
    BY <1>1
  <2>2. t.inc * (y - h) >= t.inc
    BY <1>1, <2>1, ProductPositive
  <2>3. t.inc * (y - h) = (y - h) * t.inc
    BY <1>1
  <2> QED BY <2>2, <2>3
<1>6. y = h => (y - h) * t.inc = 0
  BY <1>1
<1> DEFINE m == (y - h) * t.inc
<1>7. /\ Byte(t, key, y) = b + m
      /\ Byte(t, key, y + 1) = b + (m + t.inc)
  <2>1. Byte(t, key, y + 1) = b + ((y + 1) - h) * t.inc
    BY <1>2, Zenon
  <2> QED BY <1>2, <1>3, <2>1, Zenon
<1>8. m \in Nat /\ m >= y - h /\ (y > h => m >= t.inc) /\ (y = h => m = 0)
  BY <1>4, <1>5, <1>6
<1> HIDE DEF m
<1>9. y > h \/ y = h
  BY <1>1
<1>10. /\ Byte(t, key, y) \in Nat
       /\ Byte(t, key, y) >= t.inc
       /\ Byte(t, key, y + 1) = Byte(t, key, y) + t.inc
       /\ y > h <=> Byte(t, key, y) >= 2 * t.inc
       /\ Byte(t, key, y) > y - h
  <2>1. ASSUME NEW B \in Nat, NEW C, NEW n \in Nat, B = b + n, C = b + (n + t.inc),
               n >= y - h, y > h => n >= t.inc, y = h => n = 0
        PROVE  /\ B >= t.inc /\ C = B + t.inc /\ B > y - h
               /\ y > h <=> B >= 2 * t.inc
    BY <1>1, <1>9, <2>1
  <2>2. b + m \in Nat
    BY <1>1, <1>8
  <2> QED BY <1>7, <1>8, <2>1, <2>2
<1> QED BY <1>10 DEF h

(* Where a probe is after j steps, and which byte it looks for.            *)
LEMMA ProbeAt ==
  ASSUME NEW t, IsTable(t), NEW key \in Keys, NEW j \in Nat
  PROVE  next(t, keyToIdx(t, key), j)
           = [idx |-> Home(t, key) + j, info |-> Byte(t, key, Home(t, key) + j)]
<1>1. Home(t, key) \in Nat
  BY ProbeStarts
<1>2. (Home(t, key) + j) - Home(t, key) = j
  BY <1>1
<1>3. Byte(t, key, Home(t, key) + j) = keyToIdx(t, key).info + j * t.inc
  BY <1>2, Zenon DEF Byte
<1>4. next(t, keyToIdx(t, key), j)
        = [idx |-> keyToIdx(t, key).idx + j, info |-> keyToIdx(t, key).info + j * t.inc]
  BY DEF next
<1> QED BY <1>3, <1>4 DEF Home

(* What is in the slots.                                                   *)
LEMMA NodesAre ==
  ASSUME NEW t, IsTable(t), BytesTell(t)
  PROVE  /\ End(t) \in Nat
         /\ Nodes(t) = {x \in 0 .. End(t) - 1 : t.info[x] # 0}
         /\ \A x \in Nodes(t) :
              /\ x \in Nat /\ x < End(t)
              /\ t.node[x] \in Entry /\ t.node[x].key \in Keys
              /\ Home(t, t.node[x].key) <= x
              /\ t.info[x] = Byte(t, t.node[x].key, x)
         /\ \A x : NodeAt(t, x).key \in Keys => x \in Nodes(t) /\ NodeAt(t, x) = t.node[x]
         /\ KeysOf(t) \subseteq Keys
<1>1. End(t) \in Nat
  BY EndIs DEF IsTable
<1>2. NoNode \notin Entry /\ NoNode.key \notin Keys
  BY TableAssumption DEF NoNode, Entry
<1>3. DOMAIN t.node = 0 .. End(t) - 1
  BY DEF IsTable
<1>4. Nodes(t) = {x \in 0 .. End(t) - 1 : t.info[x] # 0}
  BY <1>2, <1>3 DEF Nodes, BytesTell
<1>5. ASSUME NEW x \in Nodes(t)
      PROVE  /\ x \in Nat /\ x < End(t)
             /\ t.node[x] \in Entry /\ t.node[x].key \in Keys
             /\ Home(t, t.node[x].key) <= x
             /\ t.info[x] = Byte(t, t.node[x].key, x)
  <2>1. t.node[x] \in Entry
    BY <1>4, <1>5 DEF BytesTell
  <2>2. t.node[x].key \in Keys
    BY <2>1 DEF Entry
  <2> QED BY <1>1, <1>4, <1>5, <2>1, <2>2 DEF BytesTell
<1>6. ASSUME NEW x, NodeAt(t, x).key \in Keys PROVE x \in Nodes(t) /\ NodeAt(t, x) = t.node[x]
  BY <1>2, <1>6 DEF NodeAt, Nodes
<1> QED BY <1>1, <1>4, <1>5, <1>6 DEF KeysOf

(* From its bucket to a node, no slot has a lower byte than the node would *)
(* have there.                                                             *)
LEMMA RunsCover ==
  ASSUME NEW t, IsTable(t), BytesTell(t), RunsRise(t), NEW x \in Nodes(t)
  PROVE  \A y \in Home(t, t.node[x].key) .. x : t.info[y] >= Byte(t, t.node[x].key, y)
<1> DEFINE key == t.node[x].key
           h == Home(t, key)
           N == {d \in Nat : d <= x - h => t.info[x - d] >= Byte(t, key, x - d)}
<1>1. /\ key \in Keys /\ x \in Nat /\ x < End(t) /\ h <= x /\ End(t) \in Nat
      /\ t.info[x] = Byte(t, key, x)
  BY NodesAre
<1>2. h \in Nat /\ t.inc \in Nat /\ t.inc >= 2
  BY <1>1, ProbeStarts
<1>3. \A y \in 0 .. End(t) : t.info[y] \in Nat
  BY EndIs DEF IsTable
<1> HIDE DEF key, h
<1>4. 0 \in N
  <2>1. Byte(t, key, x) \in Nat /\ x - 0 = x
    BY <1>1, BytesStep DEF h
  <2> QED BY <1>1, <2>1
<1>5. ASSUME NEW d \in Nat, d \in N PROVE d + 1 \in N
  <2> SUFFICES ASSUME d + 1 <= x - h PROVE t.info[x - (d + 1)] >= Byte(t, key, x - (d + 1))
    OBVIOUS
  <2> DEFINE y == x - (d + 1)
  <2>1. /\ y \in Nat /\ h <= y /\ y + 1 = x - d /\ y + 1 > h /\ y + 1 \in Nat /\ h <= y + 1
        /\ y + 1 \in 0 .. End(t) /\ y \in 0 .. End(t)
    BY <1>1, <1>2
  <2>2. t.info[y + 1] >= Byte(t, key, y + 1)
    BY <1>1, <1>2, <1>5, <2>1
  <2> HIDE DEF y
  <2>3. /\ Byte(t, key, y) \in Nat /\ Byte(t, key, y + 1) = Byte(t, key, y) + t.inc
        /\ Byte(t, key, y + 1) \in Nat /\ Byte(t, key, y + 1) >= 2 * t.inc
    BY <1>1, <2>1, BytesStep DEF h
  <2>4. t.info[y + 1] <= t.info[y + 1 - 1] + t.inc /\ y + 1 - 1 = y
    BY <1>2, <1>3, <2>1, <2>2, <2>3 DEF RunsRise
  <2>5. t.info[y] \in Nat /\ t.info[y + 1] \in Nat
    BY <1>3, <2>1
  <2>6. t.info[y] >= Byte(t, key, y)
    BY <1>2, <2>2, <2>3, <2>4, <2>5
  <2> QED BY <2>6 DEF y
<1> HIDE DEF N
<1>6. Nat \subseteq N
  BY <1>4, <1>5, SetInduction
<1>7. ASSUME NEW y \in h .. x PROVE t.info[y] >= Byte(t, key, y)
  <2>1. x - y \in Nat /\ x - y <= x - h /\ x - (x - y) = y
    BY <1>1, <1>2
  <2> QED BY <1>6, <2>1 DEF N
<1> QED BY <1>7 DEF h, key

(* A probe that has reached the bytes of the slots stays at or above them. *)
LEMMA ProbeStaysAbove ==
  ASSUME NEW t, IsTable(t), RunsRise(t), NEW key \in Keys,
         NEW y \in Nat, Home(t, key) <= y, y <= End(t), t.info[y] <= Byte(t, key, y)
  PROVE  \A z \in y .. End(t) : t.info[z] <= Byte(t, key, z)
<1> DEFINE h == Home(t, key)
           N == {d \in Nat : y + d <= End(t) => t.info[y + d] <= Byte(t, key, y + d)}
<1>1. h \in Nat /\ t.inc \in Nat /\ t.inc >= 2 /\ End(t) \in Nat
  BY EndIs, ProbeStarts DEF IsTable
<1>2. \A z \in 0 .. End(t) : t.info[z] \in Nat
  <2>1. End(t) + 3 <= calcNumBytesInfo(End(t)) /\ calcNumBytesInfo(End(t)) \in Nat
    BY EndIs DEF IsTable
  <2>2. \A z \in 0 .. End(t) : z \in 0 .. calcNumBytesInfo(End(t)) - 1
    BY <1>1, <2>1
  <2> QED BY <2>2, BytesAreBytes
<1> HIDE DEF h
<1>3. 0 \in N
  OBVIOUS
<1>4. ASSUME NEW d \in Nat, d \in N PROVE d + 1 \in N
  <2> SUFFICES ASSUME y + (d + 1) <= End(t) PROVE t.info[y + (d + 1)] <= Byte(t, key, y + (d + 1))
    OBVIOUS
  <2> DEFINE z == y + d
  <2>1. /\ z \in Nat /\ h <= z /\ z + 1 = y + (d + 1) /\ z + 1 > h /\ z + 1 \in Nat /\ h <= z + 1
        /\ z + 1 \in 0 .. End(t) /\ z \in 0 .. End(t) /\ z + 1 - 1 = z
    BY <1>1 DEF h
  <2>2. t.info[z] <= Byte(t, key, z)
    BY <1>1, <1>4, <2>1
  <2> HIDE DEF z
  <2>3. /\ Byte(t, key, z) \in Nat /\ Byte(t, key, z + 1) = Byte(t, key, z) + t.inc
        /\ Byte(t, key, z + 1) >= 2 * t.inc
    BY <1>1, <2>1, BytesStep DEF h
  <2>4. t.info[z + 1] < 2 * t.inc \/ t.info[z + 1] <= t.info[z] + t.inc
    BY <2>1 DEF RunsRise
  <2>5. t.info[z] \in Nat /\ t.info[z + 1] \in Nat
    BY <1>2, <2>1
  <2>6. t.info[z + 1] <= Byte(t, key, z + 1)
    BY <1>1, <2>2, <2>3, <2>4, <2>5
  <2> QED BY <2>1, <2>6
<1> HIDE DEF N
<1>5. Nat \subseteq N
  BY <1>3, <1>4, SetInduction
<1>6. ASSUME NEW z \in y .. End(t) PROVE t.info[z] <= Byte(t, key, z)
  <2>1. z - y \in Nat /\ y + (z - y) = z /\ z <= End(t)
    BY <1>1
  <2> QED BY <1>5, <2>1 DEF N
<1> QED BY <1>6

(***************************************************************************)
(* Lookup.                                                                 *)
(***************************************************************************)
(* Behind the slots every probe stops.                                     *)
LEMMA ProbeStops ==
  ASSUME NEW t, IsTable(t), SentinelStands(t), NEW key \in Keys,
         NEW j \in Nat, Home(t, key) + j >= End(t),
         Home(t, key) + j < calcNumBytesInfo(End(t))
  PROVE  /\ j \in Ahead(t, keyToIdx(t, key))
         /\ Byte(t, key, Home(t, key) + j) > t.info[Home(t, key) + j]
<1> DEFINE y == Home(t, key) + j
<1>1. Home(t, key) \in Nat /\ t.inc \in Nat /\ t.inc >= 2 /\ End(t) \in Nat
      /\ calcNumBytesInfo(End(t)) \in Nat
  BY ProbeStarts, EndIs DEF IsTable
<1>2. y \in Nat /\ Home(t, key) <= y /\ y \in End(t) .. calcNumBytesInfo(End(t)) - 1
  BY <1>1
<1>3. t.info[y] = 0 \/ t.info[y] = 1
  BY <1>2 DEF SentinelStands
<1>4. Byte(t, key, y) \in Nat /\ Byte(t, key, y) >= t.inc
  BY <1>2, BytesStep
<1>5. j <= (calcNumBytesInfo(End(t)) - 1) - Home(t, key)
  BY <1>1, <1>2
<1>6. Ahead(t, keyToIdx(t, key)) = 0 .. ((calcNumBytesInfo(End(t)) - 1) - Home(t, key))
  BY <1>1 DEF Ahead, Home
<1>7. j \in Ahead(t, keyToIdx(t, key))
  BY <1>1, <1>5, <1>6
<1>8. Byte(t, key, y) > t.info[y]
  BY <1>1, <1>3, <1>4
<1> QED BY <1>7, <1>8

(* What a probe can meet.                                                  *)
LEMMA AheadIs ==
  ASSUME NEW t, IsTable(t), NEW key \in Keys
  PROVE  /\ Ahead(t, keyToIdx(t, key)) \subseteq Nat
         /\ \A j \in Ahead(t, keyToIdx(t, key)) :
              /\ Home(t, key) + j \in 0 .. calcNumBytesInfo(End(t)) - 1
              /\ t.info[Home(t, key) + j] \in Nat
              /\ next(t, keyToIdx(t, key), j).info = Byte(t, key, Home(t, key) + j)
              /\ t.info[keyToIdx(t, key).idx + j] = t.info[Home(t, key) + j]
<1>1. Home(t, key) \in Nat /\ calcNumBytesInfo(End(t)) \in Nat
  BY ProbeStarts, EndIs DEF IsTable
<1>2. Ahead(t, keyToIdx(t, key)) = 0 .. ((calcNumBytesInfo(End(t)) - 1) - Home(t, key))
  BY <1>1 DEF Ahead, Home
<1>3. ASSUME NEW j \in Ahead(t, keyToIdx(t, key))
      PROVE  /\ j \in Nat
             /\ Home(t, key) + j \in 0 .. calcNumBytesInfo(End(t)) - 1
  BY <1>1, <1>2, <1>3
<1>4. ASSUME NEW j \in Ahead(t, keyToIdx(t, key))
      PROVE  /\ t.info[Home(t, key) + j] \in Nat
             /\ next(t, keyToIdx(t, key), j).info = Byte(t, key, Home(t, key) + j)
  <2>1. next(t, keyToIdx(t, key), j).info = Byte(t, key, Home(t, key) + j)
    BY <1>3, ProbeAt
  <2> QED BY <1>3, <2>1, BytesAreBytes
<1>5. keyToIdx(t, key).idx = Home(t, key)
  BY DEF Home
<1> QED BY <1>3, <1>4, <1>5

(* A probe holds the key in the slot of its node only.                     *)
LEMMA HoldsAt ==
  ASSUME NEW t, Sound(t), NEW key \in Keys, NEW j \in Nat
  PROVE  /\ key \notin KeysOf(t) => ~ Holds(t, next(t, keyToIdx(t, key), j), key)
         /\ \A x \in Nodes(t) : t.node[x].key = key =>
              (Holds(t, next(t, keyToIdx(t, key), j), key) <=> Home(t, key) + j = x)
<1>1. IsTable(t) /\ BytesTell(t) /\ KeysDiffer(t)
  BY DEF Sound
<1>2. Holds(t, next(t, keyToIdx(t, key), j), key)
        <=> /\ Byte(t, key, Home(t, key) + j) = t.info[Home(t, key) + j]
            /\ NodeAt(t, Home(t, key) + j).key = key
  BY <1>1, ProbeAt DEF Holds
<1>3. ASSUME NodeAt(t, Home(t, key) + j).key = key
      PROVE  /\ Home(t, key) + j \in Nodes(t) /\ t.node[Home(t, key) + j].key = key
             /\ t.info[Home(t, key) + j] = Byte(t, key, Home(t, key) + j)
  BY <1>1, <1>3, NodesAre
<1>4. key \notin KeysOf(t) => ~ Holds(t, next(t, keyToIdx(t, key), j), key)
  BY <1>2, <1>3 DEF KeysOf
<1>5. ASSUME NEW x \in Nodes(t), t.node[x].key = key
      PROVE  Holds(t, next(t, keyToIdx(t, key), j), key) <=> Home(t, key) + j = x
  <2>1. /\ \A z \in Nodes(t) : z \in 0 .. End(t) - 1 /\ t.node[z] # NoNode
        /\ x \in DOMAIN t.node
    <3>1. Nodes(t) = {z \in 0 .. End(t) - 1 : t.info[z] # 0}
      BY <1>1, NodesAre
    <3> QED BY <3>1 DEF Nodes
  <2>2. ASSUME NodeAt(t, Home(t, key) + j).key = key PROVE Home(t, key) + j = x
    BY <1>1, <1>3, <1>5, <2>1, <2>2 DEF KeysDiffer
  <2>3. t.info[x] = Byte(t, key, x)
    BY <1>1, <1>5, NodesAre
  <2>4. NodeAt(t, x).key = key
    BY <1>5, <2>1 DEF NodeAt
  <2> QED BY <1>2, <2>2, <2>3, <2>4
<1> QED BY <1>4, <1>5

(* The search before slot `stop` counted from the bucket.                  *)
HitsBefore(t, key, stop) == {j \in 0 .. stop - 1 : Holds(t, next(t, keyToIdx(t, key), j), key)}

(* The hits of a search are the steps to the node with the key.            *)
LEMMA HitsAre ==
  ASSUME NEW t, Sound(t), NEW x \in Nodes(t), NEW stop \in Nat,
         stop > x - Home(t, t.node[x].key)
  PROVE  /\ HitsBefore(t, t.node[x].key, stop) # {}
         /\ keyToIdx(t, t.node[x].key).idx + First(HitsBefore(t, t.node[x].key, stop)) = x
<1> DEFINE key == t.node[x].key
           d == x - Home(t, key)
<1>1. x \in Nat /\ key \in Keys /\ Home(t, key) <= x /\ Home(t, key) \in Nat
  BY NodesAre, ProbeStarts DEF Sound
<1>2. d \in Nat /\ Home(t, key) + d = x /\ d \in 0 .. stop - 1
  BY <1>1
<1>3. \A j \in Nat : Home(t, key) + j = x => j = d
  BY <1>1
<1>4. \A j \in Nat : Holds(t, next(t, keyToIdx(t, key), j), key) <=> Home(t, key) + j = x
  BY <1>1, HoldsAt
<1> HIDE DEF d
<1>5. HitsBefore(t, key, stop) = {d}
  BY <1>2, <1>3, <1>4 DEF HitsBefore
<1>6. First({d}) = d
  BY <1>2, FirstOf
<1> QED BY <1>2, <1>5, <1>6 DEF Home

(* A search for a key that is absent has none.                             *)
LEMMA NoHits ==
  ASSUME NEW t, Sound(t), NEW key \in Keys \ KeysOf(t), NEW stop \in Nat
  PROVE  HitsBefore(t, key, stop) = {}
<1>1. \A j \in Nat : ~ Holds(t, next(t, keyToIdx(t, key), j), key)
  BY HoldsAt
<1>2. \A j \in 0 .. stop - 1 : j \in Nat
  OBVIOUS
<1> QED BY <1>1, <1>2 DEF HitsBefore

(* A set of stops is one of places where the probe is above the byte, and  *)
(* has one behind the slots.                                               *)
LEMMA SearchEnds ==
  ASSUME NEW t, Sound(t), NEW key \in Keys, NEW S \in SUBSET Nat, S # {},
         \A j \in S : /\ Home(t, key) + j \in 0 .. calcNumBytesInfo(End(t)) - 1
                      /\ Byte(t, key, Home(t, key) + j) > t.info[Home(t, key) + j]
  PROVE  LET hits == HitsBefore(t, key, First(S))
         IN  /\ key \notin KeysOf(t) => hits = {}
             /\ \A x \in Nodes(t) : t.node[x].key = key =>
                  hits # {} /\ keyToIdx(t, key).idx + First(hits) = x
<1>1. First(S) \in S /\ First(S) \in Nat
  BY FirstIsLeast
<1>2. key \notin KeysOf(t) => HitsBefore(t, key, First(S)) = {}
  BY <1>1, NoHits
<1>3. ASSUME NEW x \in Nodes(t), t.node[x].key = key
      PROVE  First(S) > x - Home(t, key)
  <2> DEFINE j == First(S)
             y == Home(t, key) + j
  <2>1. IsTable(t) /\ BytesTell(t) /\ RunsRise(t)
    BY DEF Sound
  <2>2. x \in Nat /\ Home(t, key) \in Nat /\ Home(t, key) <= x
    BY <1>3, <2>1, NodesAre, ProbeStarts
  <2>3. \A z \in Home(t, key) .. x : t.info[z] >= Byte(t, key, z)
    BY <1>3, <2>1, RunsCover
  <2>4. y \in 0 .. calcNumBytesInfo(End(t)) - 1 /\ Byte(t, key, y) > t.info[y]
    BY <1>1
  <2>5. y \in Nat /\ Home(t, key) <= y
    BY <1>1, <2>2
  <2>6. t.info[y] \in Nat /\ Byte(t, key, y) \in Nat
    BY <2>1, <2>4, <2>5, BytesStep, BytesAreBytes
  <2> HIDE DEF j
  <2>7. ~ (y <= x)
    BY <2>2, <2>3, <2>4, <2>5, <2>6
  <2>8. j \in Nat
    BY <1>1 DEF j
  <2>9. j > x - Home(t, key)
    BY <2>2, <2>5, <2>7, <2>8
  <2> QED BY <2>9 DEF j
<1>4. ASSUME NEW x \in Nodes(t), t.node[x].key = key
      PROVE  /\ HitsBefore(t, key, First(S)) # {}
             /\ keyToIdx(t, key).idx + First(HitsBefore(t, key, First(S))) = x
  <2>1. First(S) > x - Home(t, t.node[x].key)
    BY <1>3, <1>4
  <2> QED BY <1>1, <1>4, <2>1, HitsAre
<1> QED BY <1>2, <1>4

(* findIdx names the slot of the node with the key.                        *)
LEMMA FindIs ==
  ASSUME NEW t, Sound(t), NEW key \in Keys
  PROVE  /\ key \notin KeysOf(t) => findIdx(t, key) = End(t)
         /\ \A x \in Nodes(t) : t.node[x].key = key => findIdx(t, key) = x
<1> DEFINE p == keyToIdx(t, key)
           S == {j \in Ahead(t, p) :
                   j > 0 /\ j % 2 = 0 /\ next(t, p, j).info > t.info[p.idx + j]}
           h == Home(t, key)
<1>1. IsTable(t) /\ SentinelStands(t)
  BY DEF Sound
<1>2. /\ S \subseteq Nat
      /\ \A j \in S : /\ Home(t, key) + j \in 0 .. calcNumBytesInfo(End(t)) - 1
                      /\ Byte(t, key, Home(t, key) + j) > t.info[Home(t, key) + j]
  BY <1>1, AheadIs
<1>3. /\ h \in Nat /\ End(t) \in Nat /\ h <= End(t) /\ calcNumBytesInfo(End(t)) \in Nat
      /\ End(t) + 3 <= calcNumBytesInfo(End(t))
  BY <1>1, ProbeStarts, EndIs DEF IsTable
<1>4. \E j \in Nat : j > 0 /\ j % 2 = 0 /\ h + j >= End(t) /\ h + j < calcNumBytesInfo(End(t))
  <2> DEFINE j0 == End(t) - h
  <2>1. j0 \in Nat /\ h + j0 = End(t)
    BY <1>3
  <2> HIDE DEF j0
  <2>2. j0 = 0 => 2 % 2 = 0 /\ h + 2 >= End(t) /\ h + 2 < calcNumBytesInfo(End(t))
    BY <1>3, <2>1
  <2>3. j0 % 2 = 0 \/ (j0 + 1) % 2 = 0
    BY <2>1
  <2>4. (j0 + 1) \in Nat /\ j0 + 1 > 0 /\ h + (j0 + 1) >= End(t)
        /\ h + (j0 + 1) < calcNumBytesInfo(End(t)) /\ h + j0 < calcNumBytesInfo(End(t))
    BY <1>3, <2>1
  <2>5. CASE j0 = 0
    BY <2>2, <2>5
  <2>6. CASE j0 # 0 /\ j0 % 2 = 0
    BY <1>3, <2>1, <2>4, <2>6
  <2>7. CASE (j0 + 1) % 2 = 0
    BY <2>4, <2>7
  <2> QED BY <2>3, <2>5, <2>6, <2>7
<1>5. S # {}
  <2>1. PICK j \in Nat : j > 0 /\ j % 2 = 0 /\ h + j >= End(t) /\ h + j < calcNumBytesInfo(End(t))
    BY <1>4
  <2>2. j \in Ahead(t, p) /\ Byte(t, key, h + j) > t.info[h + j]
    BY <1>1, <2>1, ProbeStops
  <2>3. next(t, p, j).info > t.info[p.idx + j]
    BY <1>1, <2>2, AheadIs
  <2> QED BY <2>1, <2>2, <2>3
<1> DEFINE hits == HitsBefore(t, key, First(S))
<1>6. findIdx(t, key) = IF hits = {} THEN End(t) ELSE p.idx + First(hits)
  BY DEF findIdx, HitsBefore
<1> HIDE DEF S
<1>7. /\ key \notin KeysOf(t) => hits = {}
      /\ \A x \in Nodes(t) : t.node[x].key = key => hits # {} /\ p.idx + First(hits) = x
  BY <1>2, <1>5, SearchEnds
<1> QED BY <1>6, <1>7

(* eraseKey takes away the node with the key.                              *)
LEMMA EraseKeyIs ==
  ASSUME NEW t, Sound(t), NEW key \in Keys
  PROVE  /\ key \notin KeysOf(t) => eraseKey(t, key) = t
         /\ \A x \in Nodes(t) : t.node[x].key = key => eraseKey(t, key) = Removed(t, x)
<1> DEFINE p == keyToIdx(t, key)
           S == {j \in Ahead(t, p) : j > 0 /\ next(t, p, j).info > t.info[p.idx + j]}
           h == Home(t, key)
<1>1. IsTable(t) /\ SentinelStands(t)
  BY DEF Sound
<1>2. /\ S \subseteq Nat
      /\ \A j \in S : /\ Home(t, key) + j \in 0 .. calcNumBytesInfo(End(t)) - 1
                      /\ Byte(t, key, Home(t, key) + j) > t.info[Home(t, key) + j]
  BY <1>1, AheadIs
<1>3. /\ h \in Nat /\ End(t) \in Nat /\ h <= End(t) /\ calcNumBytesInfo(End(t)) \in Nat
      /\ End(t) + 3 <= calcNumBytesInfo(End(t))
  BY <1>1, ProbeStarts, EndIs DEF IsTable
<1>4. S # {}
  <2> DEFINE j == (End(t) - h) + 1
  <2>1. j \in Nat /\ j > 0 /\ h + j >= End(t) /\ h + j < calcNumBytesInfo(End(t))
    BY <1>3
  <2> HIDE DEF j
  <2>2. j \in Ahead(t, p) /\ Byte(t, key, h + j) > t.info[h + j]
    BY <1>1, <2>1, ProbeStops
  <2>3. next(t, p, j).info > t.info[p.idx + j]
    BY <1>1, <2>2, AheadIs
  <2> QED BY <2>1, <2>2, <2>3
<1> DEFINE hits == HitsBefore(t, key, First(S))
<1>5. eraseKey(t, key) = IF hits = {} THEN t ELSE Removed(t, p.idx + First(hits))
  BY DEF eraseKey, HitsBefore
<1> HIDE DEF S
<1>6. /\ key \notin KeysOf(t) => hits = {}
      /\ \A x \in Nodes(t) : t.node[x].key = key => hits # {} /\ p.idx + First(hits) = x
  BY <1>2, <1>4, SearchEnds
<1> QED BY <1>5, <1>6

(***************************************************************************)
(* The probe of an insertion.                                              *)
(***************************************************************************)

(* Steps of a probe add up.                                                *)
LEMMA ProbeGoesOn ==
  ASSUME NEW t, IsTable(t), NEW key \in Keys, NEW f \in Nat, NEW j \in Nat
  PROVE  next(t, next(t, keyToIdx(t, key), f), j) = next(t, keyToIdx(t, key), f + j)
<1> DEFINE h == keyToIdx(t, key).idx
           b == keyToIdx(t, key).info
<1>1. h \in Nat /\ b \in Nat /\ t.inc \in Nat
  BY ProbeStarts DEF Home
<1> HIDE DEF h, b
<1>2. next(t, keyToIdx(t, key), f) = [idx |-> h + f, info |-> b + f * t.inc]
  BY DEF next, h, b
<1>3. next(t, keyToIdx(t, key), f + j) = [idx |-> h + (f + j), info |-> b + (f + j) * t.inc]
  BY DEF next, h, b
<1>4. next(t, next(t, keyToIdx(t, key), f), j)
        = [idx |-> (h + f) + j, info |-> (b + f * t.inc) + j * t.inc]
  BY <1>2 DEF next
<1>5. (h + f) + j = h + (f + j) /\ (b + f * t.inc) + j * t.inc = b + (f + j) * t.inc
  BY <1>1
<1> QED BY <1>3, <1>4, <1>5

(* The slot a new node with this key goes to: the first one with a lower   *)
(* byte than it would have there.                                          *)
IsSpot(t, key, y) ==
  /\ y \in Nat /\ Home(t, key) <= y /\ y <= End(t)
  /\ t.info[y] < Byte(t, key, y)
  /\ \A z \in Home(t, key) .. y - 1 : t.info[z] >= Byte(t, key, z)

ProbeOf(t, key, y) == [idx |-> y, info |-> Byte(t, key, y)]

(* The stages of the search for a spot.                                    *)
LEMMA ProbeForStages ==
  ASSUME NEW t, Sound(t), NEW key \in Keys
  PROVE  \E f \in Nat, past \in Nat :
           LET h == Home(t, key)
               p == ProbeOf(t, key, h + f)
               hits == {j \in 0 .. past - 1 : Holds(t, next(t, keyToIdx(t, key), f + j), key)}
           IN  /\ h + f <= End(t) /\ t.info[h + f] <= Byte(t, key, h + f)
               /\ \A z \in h .. (h + f) - 1 : t.info[z] > Byte(t, key, z)
               /\ h + f + past <= End(t) /\ t.info[h + f + past] # Byte(t, key, h + f + past)
               /\ \A z \in h + f .. (h + f + past) - 1 : t.info[z] = Byte(t, key, z)
               /\ ProbeFor(t, key)
                    = [found |-> hits # {},
                       probe |-> IF hits # {} THEN ProbeOf(t, key, h + f + First(hits))
                                 ELSE ProbeOf(t, key, h + f + past)]
<1> DEFINE h == Home(t, key)
           p0 == keyToIdx(t, key)
           S1 == {j \in Ahead(t, p0) : next(t, p0, j).info >= t.info[p0.idx + j]}
           f == First(S1)
           p == nextWhileLess(t, p0)
           S2 == {j \in Ahead(t, p) : next(t, p, j).info # t.info[p.idx + j]}
           past == First(S2)
           bytes == calcNumBytesInfo(End(t))
<1>1. IsTable(t) /\ BytesTell(t) /\ SentinelStands(t) /\ RunsRise(t)
  BY DEF Sound
<1>2. /\ h \in Nat /\ End(t) \in Nat /\ h <= End(t) /\ bytes \in Nat /\ End(t) + 3 <= bytes
      /\ p0.idx = h
  BY <1>1, ProbeStarts, EndIs DEF IsTable, Home
<1>3. \A z \in Nat : z >= h => Byte(t, key, z) \in Nat
  BY <1>1, BytesStep
<1>4. \A z \in 0 .. bytes - 1 : t.info[z] \in Nat
  BY <1>1, BytesAreBytes
<1>5. \A j \in Nat : next(t, p0, j) = ProbeOf(t, key, h + j)
  BY <1>1, ProbeAt DEF ProbeOf
<1>6. Ahead(t, p0) = 0 .. (bytes - 1) - h
  BY <1>2 DEF Ahead
<1>7. End(t) - h \in S1 /\ S1 \subseteq Nat
  <2>1. End(t) - h \in Nat /\ h + (End(t) - h) = End(t) /\ h + (End(t) - h) >= End(t)
        /\ h + (End(t) - h) < bytes
    BY <1>2
  <2>2. /\ End(t) - h \in Ahead(t, p0)
        /\ Byte(t, key, h + (End(t) - h)) > t.info[h + (End(t) - h)]
    BY <1>1, <2>1, ProbeStops
  <2>3. next(t, p0, End(t) - h).info >= t.info[p0.idx + (End(t) - h)]
    BY <1>1, <1>2, <1>3, <1>4, <2>1, <2>2, AheadIs
  <2> QED BY <1>1, <2>2, <2>3, AheadIs
<1>8. /\ f \in Nat /\ f <= End(t) - h /\ f \in S1 /\ \A j \in S1 : f <= j
  BY <1>7, FirstIsLeast
<1>9. \A j \in S1 : next(t, p0, j).info >= t.info[p0.idx + j]
  OBVIOUS
<1>10. \A j \in Ahead(t, p0) : j \notin S1 => ~ (next(t, p0, j).info >= t.info[p0.idx + j])
  OBVIOUS
<1>11. p = next(t, p0, f)
  BY DEF nextWhileLess
<1> HIDE DEF S1, f, p
<1>12. p = ProbeOf(t, key, h + f) /\ p.idx = h + f
  <2>1. p = ProbeOf(t, key, h + f)
    BY <1>5, <1>8, <1>11
  <2> QED BY <2>1 DEF ProbeOf
<1>13. h + f <= End(t) /\ h + f \in Nat
  BY <1>2, <1>8
<1>14. t.info[h + f] <= Byte(t, key, h + f)
  <2>1. next(t, p0, f).info = Byte(t, key, h + f)
    BY <1>5, <1>8 DEF ProbeOf
  <2>2. Byte(t, key, h + f) >= t.info[h + f]
    BY <1>2, <1>8, <1>9, <2>1
  <2>3. Byte(t, key, h + f) \in Nat /\ t.info[h + f] \in Nat
    BY <1>2, <1>3, <1>4, <1>8, <1>13
  <2> QED BY <2>2, <2>3
<1>15. ASSUME NEW z \in h .. (h + f) - 1 PROVE t.info[z] > Byte(t, key, z)
  <2>1. z - h \in Nat /\ z - h < f /\ h + (z - h) = z /\ z - h \in 0 .. (bytes - 1) - h
        /\ z \in 0 .. bytes - 1 /\ z >= h /\ z \in Nat
    BY <1>2, <1>8, <1>13
  <2>2. z - h \notin S1
    BY <1>8, <2>1
  <2>3. ~ (next(t, p0, z - h).info >= t.info[p0.idx + (z - h)])
    BY <1>6, <1>10, <2>1, <2>2
  <2>4. next(t, p0, z - h).info = Byte(t, key, z)
    BY <1>5, <2>1 DEF ProbeOf
  <2>5. Byte(t, key, z) \in Nat /\ t.info[z] \in Nat
    BY <1>3, <1>4, <2>1
  <2> QED BY <1>2, <2>1, <2>3, <2>4, <2>5
<1>16. \A j \in Nat : next(t, p, j) = ProbeOf(t, key, h + f + j)
  <2> TAKE j \in Nat
  <2>1. f + j \in Nat /\ h + (f + j) = h + f + j
    BY <1>2, <1>8
  <2>2. next(t, p, j) = next(t, p0, f + j)
    BY <1>1, <1>8, <1>11, ProbeGoesOn
  <2> QED BY <1>5, <2>1, <2>2
<1>17. Ahead(t, p) = 0 .. (bytes - 1) - (h + f)
  BY <1>12 DEF Ahead
<1>18. ASSUME NEW j \in Ahead(t, p)
       PROVE  /\ j \in Nat /\ h + f + j \in 0 .. bytes - 1
              /\ j \in S2 <=> t.info[h + f + j] # Byte(t, key, h + f + j)
  <2>1. j \in Nat /\ h + f + j \in 0 .. bytes - 1
    BY <1>2, <1>13, <1>17
  <2>2. next(t, p, j).info = Byte(t, key, h + f + j)
    BY <1>16, <2>1 DEF ProbeOf
  <2>3. t.info[p.idx + j] = t.info[h + f + j]
    BY <1>12
  <2> QED BY <2>1, <2>2, <2>3
<1>19. End(t) - (h + f) \in S2 /\ S2 \subseteq Nat
  <2> DEFINE j == End(t) - (h + f)
  <2>0. j \in Nat /\ j <= (bytes - 1) - (h + f) /\ h + f + j = End(t)
    BY <1>2, <1>8, <1>13
  <2>1. /\ j \in Nat /\ j \in Ahead(t, p) /\ h + f + j = End(t)
        /\ h + (f + j) = End(t) /\ f + j \in Nat
    <3> HIDE DEF j, bytes
    <3> QED BY <1>2, <1>8, <1>13, <1>17, <2>0
  <2> HIDE DEF j
  <2>2. Byte(t, key, End(t)) > t.info[End(t)]
    <3>1. h + (f + j) >= End(t) /\ h + (f + j) < bytes
      BY <1>2, <2>1
    <3>2. Byte(t, key, h + (f + j)) > t.info[h + (f + j)]
      BY <1>1, <2>1, <3>1, ProbeStops
    <3> QED BY <2>1, <3>2
  <2>3. Byte(t, key, End(t)) \in Nat /\ t.info[End(t)] \in Nat
    BY <1>2, <1>3, <1>4
  <2>4. j \in S2
    BY <1>18, <2>1, <2>2, <2>3
  <2> QED BY <1>18, <2>4 DEF j
<1>20. past \in Nat /\ past \in S2 /\ past <= End(t) - (h + f) /\ \A j \in S2 : past <= j
  BY <1>19, FirstIsLeast
<1>21. past \in Ahead(t, p)
  BY <1>20
<1> DEFINE hits == {j \in 0 .. past - 1 : Holds(t, next(t, p0, f + j), key)}
<1>22. ProbeFor(t, key)
         = [found |-> hits # {},
            probe |-> next(t, p, IF hits # {} THEN First(hits) ELSE past)]
  <2>1. \A j \in 0 .. past - 1 : next(t, p, j) = next(t, p0, f + j)
    <3> TAKE j \in 0 .. past - 1
    <3>1. j \in Nat
      BY <1>20
    <3> QED BY <1>1, <1>8, <1>11, <3>1, ProbeGoesOn
  <2>2. {j \in 0 .. past - 1 : Holds(t, next(t, p, j), key)} = hits
    BY <2>1
  <2>3. ProbeFor(t, key)
          = [found |-> {j \in 0 .. past - 1 : Holds(t, next(t, p, j), key)} # {},
             probe |-> next(t, p, IF {j \in 0 .. past - 1 : Holds(t, next(t, p, j), key)} # {}
                                  THEN First({j \in 0 .. past - 1 : Holds(t, next(t, p, j), key)})
                                  ELSE past)]
    BY DEF ProbeFor, p
  <2> QED BY <2>2, <2>3
<1> HIDE DEF S2, past
<1>23. h + f + past <= End(t) /\ t.info[h + f + past] # Byte(t, key, h + f + past)
  BY <1>2, <1>13, <1>18, <1>20, <1>21
<1>24. ASSUME NEW z \in h + f .. (h + f + past) - 1 PROVE t.info[z] = Byte(t, key, z)
  <2> DEFINE j == z - (h + f)
  <2>1. j \in Nat /\ j < past /\ h + f + j = z /\ j \in Ahead(t, p)
    BY <1>2, <1>13, <1>17, <1>20, <1>23
  <2>2. j \notin S2
    BY <1>20, <2>1
  <2> QED BY <1>18, <2>1, <2>2
<1>25. hits # {} => First(hits) \in Nat
  <2>1. hits \subseteq Nat
    BY <1>20
  <2> QED BY <2>1, FirstIsLeast
<1>26. ProbeFor(t, key)
         = [found |-> hits # {},
            probe |-> IF hits # {} THEN ProbeOf(t, key, h + f + First(hits))
                      ELSE ProbeOf(t, key, h + f + past)]
  BY <1>16, <1>20, <1>22, <1>25
<1> f \in Nat /\ past \in Nat
  BY <1>8, <1>20
<1> WITNESS f \in Nat, past \in Nat
<1> QED BY <1>13, <1>14, <1>15, <1>23, <1>24, <1>26, Zenon

(* The search before an insertion finds the node with the key, or the spot *)
(* for a new one.                                                          *)
LEMMA ProbeForIs ==
  ASSUME NEW t, Sound(t), NEW key \in Keys
  PROVE  /\ key \notin KeysOf(t) =>
              \E y : /\ IsSpot(t, key, y)
                     /\ ProbeFor(t, key) = [found |-> FALSE, probe |-> ProbeOf(t, key, y)]
         /\ \A x \in Nodes(t) : t.node[x].key = key =>
              ProbeFor(t, key) = [found |-> TRUE, probe |-> ProbeOf(t, key, x)]
<1> DEFINE h == Home(t, key)
<1>1. PICK f \in Nat, past \in Nat :
         LET p == ProbeOf(t, key, h + f)
             hits == {j \in 0 .. past - 1 : Holds(t, next(t, keyToIdx(t, key), f + j), key)}
         IN  /\ h + f <= End(t) /\ t.info[h + f] <= Byte(t, key, h + f)
             /\ \A z \in h .. (h + f) - 1 : t.info[z] > Byte(t, key, z)
             /\ h + f + past <= End(t) /\ t.info[h + f + past] # Byte(t, key, h + f + past)
             /\ \A z \in h + f .. (h + f + past) - 1 : t.info[z] = Byte(t, key, z)
             /\ ProbeFor(t, key)
                  = [found |-> hits # {},
                     probe |-> IF hits # {} THEN ProbeOf(t, key, h + f + First(hits))
                               ELSE ProbeOf(t, key, h + f + past)]
  BY ProbeForStages
<1> DEFINE hits == {j \in 0 .. past - 1 : Holds(t, next(t, keyToIdx(t, key), f + j), key)}
           y == h + f + past
<1>2. IsTable(t) /\ BytesTell(t) /\ RunsRise(t)
  BY DEF Sound
<1>3. h \in Nat /\ End(t) \in Nat /\ y \in Nat /\ h <= y /\ h + f <= y
  <2>1. h \in Nat /\ End(t) \in Nat
    BY <1>2, ProbeStarts, EndIs DEF IsTable
  <2> HIDE DEF h
  <2> QED BY <2>1
<1>4. \A z \in Nat : z >= h => Byte(t, key, z) \in Nat
  BY <1>2, BytesStep
<1>5. \A z \in 0 .. End(t) : t.info[z] \in Nat
  <2>1. End(t) + 3 <= calcNumBytesInfo(End(t)) /\ calcNumBytesInfo(End(t)) \in Nat
    BY <1>2, EndIs DEF IsTable
  <2>2. \A z \in 0 .. End(t) : z \in 0 .. calcNumBytesInfo(End(t)) - 1
    BY <1>3, <2>1
  <2> QED BY <1>2, <2>2, BytesAreBytes
<1>6. ProbeFor(t, key)
        = [found |-> hits # {},
           probe |-> IF hits # {} THEN ProbeOf(t, key, h + f + First(hits)) ELSE ProbeOf(t, key, y)]
  BY <1>1
<1>7. \A z \in h + f .. End(t) : t.info[z] <= Byte(t, key, z)
  <2>1. h + f \in Nat /\ h <= h + f
    BY <1>3
  <2> QED BY <1>1, <1>2, <2>1, ProbeStaysAbove
<1>8. ASSUME key \notin KeysOf(t)
      PROVE  IsSpot(t, key, y) /\ hits = {}
  <2>1. \A j \in Nat : ~ Holds(t, next(t, keyToIdx(t, key), j), key)
    BY <1>8, HoldsAt
  <2>2. \A j \in 0 .. past - 1 : f + j \in Nat
    OBVIOUS
  <2>3. hits = {}
    BY <2>1, <2>2
  <2>4. y <= End(t) /\ t.info[y] # Byte(t, key, y)
    BY <1>1
  <2>5. t.info[y] \in Nat /\ Byte(t, key, y) \in Nat /\ y \in h + f .. End(t)
    BY <1>3, <1>4, <1>5, <2>4
  <2>6. t.info[y] < Byte(t, key, y)
    BY <1>7, <2>4, <2>5
  <2>7. ASSUME NEW z \in h .. y - 1 PROVE t.info[z] >= Byte(t, key, z)
    <3>1. z \in Nat /\ z >= h /\ z \in 0 .. End(t)
      BY <1>3, <2>4
    <3>2. t.info[z] \in Nat /\ Byte(t, key, z) \in Nat
      BY <1>4, <1>5, <3>1
    <3>3. CASE z <= (h + f) - 1
      BY <1>1, <1>3, <3>1, <3>2, <3>3
    <3>4. CASE z >= h + f
      <4>1. z \in h + f .. (h + f + past) - 1
        BY <1>3, <3>4
      <4> QED BY <1>1, <3>2, <4>1
    <3> QED BY <1>3, <3>1, <3>3, <3>4
  <2> HIDE DEF y
  <2> QED BY <1>3, <2>3, <2>4, <2>6, <2>7 DEF IsSpot
<1>9. ASSUME NEW x \in Nodes(t), t.node[x].key = key
      PROVE  hits # {} /\ h + f + First(hits) = x
  <2>1. x \in Nat /\ x < End(t) /\ h <= x /\ t.info[x] = Byte(t, key, x)
    BY <1>2, <1>9, NodesAre
  <2>2. \A z \in h .. x : t.info[z] >= Byte(t, key, z)
    BY <1>2, <1>9, RunsCover
  <2>3. h + f <= x
    <3> SUFFICES ASSUME ~ (h + f <= x) PROVE FALSE
      OBVIOUS
    <3>1. x \in h .. (h + f) - 1
      BY <1>3, <2>1
    <3>2. t.info[x] > Byte(t, key, x) /\ Byte(t, key, x) \in Nat
      BY <1>1, <1>4, <2>1, <3>1
    <3> QED BY <2>1, <3>2
  <2>4. x < y
    <3> SUFFICES ASSUME ~ (x < y) PROVE FALSE
      OBVIOUS
    <3>1. y \in h .. x /\ y \in h + f .. End(t) /\ y \in 0 .. End(t)
      BY <1>1, <1>3, <2>1
    <3>2. t.info[y] \in Nat /\ Byte(t, key, y) \in Nat /\ t.info[y] # Byte(t, key, y)
      BY <1>1, <1>3, <1>4, <1>5, <3>1
    <3>3. t.info[y] >= Byte(t, key, y) /\ t.info[y] <= Byte(t, key, y)
      BY <1>7, <2>2, <3>1
    <3> QED BY <3>2, <3>3
  <2> DEFINE d == x - (h + f)
  <2>5. d \in Nat /\ h + (f + d) = x /\ h + f + d = x /\ d \in 0 .. past - 1
    BY <1>3, <2>1, <2>3, <2>4
  <2>6. \A j \in Nat : h + (f + j) = x => j = d
    BY <1>3, <2>1
  <2> HIDE DEF d
  <2>7. ASSUME NEW j \in 0 .. past - 1
        PROVE  Holds(t, next(t, keyToIdx(t, key), f + j), key) <=> j = d
    <3>1. f + j \in Nat /\ j \in Nat
      OBVIOUS
    <3>2. Holds(t, next(t, keyToIdx(t, key), f + j), key) <=> h + (f + j) = x
      BY <1>9, <3>1, HoldsAt
    <3> QED BY <2>5, <2>6, <3>1, <3>2
  <2>8. hits = {d}
    BY <2>5, <2>7
  <2>9. First({d}) = d
    BY <2>5, FirstOf
  <2> QED BY <2>5, <2>8, <2>9
<1> HIDE DEF y, hits
<1>10. key \notin KeysOf(t) =>
         \E z : /\ IsSpot(t, key, z)
                /\ ProbeFor(t, key) = [found |-> FALSE, probe |-> ProbeOf(t, key, z)]
  BY <1>6, <1>8
<1>11. \A x \in Nodes(t) : t.node[x].key = key =>
         ProbeFor(t, key) = [found |-> TRUE, probe |-> ProbeOf(t, key, x)]
  BY <1>6, <1>9
<1> QED BY <1>10, <1>11

(***************************************************************************)
(* Room for one more.                                                      *)
(***************************************************************************)

(* A table has finitely many nodes.                                        *)
LEMMA NodesAreFinite ==
  ASSUME NEW t, IsTable(t)
  PROVE  IsFiniteSet(Nodes(t)) /\ Cardinality(Nodes(t)) \in Nat
<1>1. End(t) \in Nat
  BY EndIs DEF IsTable
<1>2. IsFiniteSet(0 .. End(t) - 1)
  BY <1>1, FS_Interval
<1>3. Nodes(t) \subseteq 0 .. End(t) - 1
  BY DEF Nodes, IsTable
<1> QED BY <1>2, <1>3, FS_Subset, FS_CardinalityType

(* A run that starts in a bucket ends before the slots do: either there    *)
(* would be too many nodes in it, or the last node would be too far away.  *)
LEMMA RoomAhead ==
  ASSUME NEW t, Sound(t), t.num < calcMaxNumElementsAllowed(t.mask + 1),
         NEW h \in 0 .. t.mask
  PROVE  /\ t.mask # 0 
         /\ \E x \in h .. End(t) - 1 : t.info[x] = 0
<1>1. IsTable(t) /\ BytesTell(t) /\ CountIsRight(t)
  BY DEF Sound
<1>2. t.num \in Nat /\ t.mask \in Nat /\ t.num = Cardinality(Nodes(t)) /\ End(t) \in Nat
  BY <1>1, EndIs DEF IsTable, CountIsRight
<1>3. t.mask # 0
  <2> SUFFICES ASSUME t.mask = 0 PROVE FALSE
    OBVIOUS
  <2>1. calcMaxNumElementsAllowed(0 + 1) = 0
    <3>1. \A l \in 11 .. 99 : (1 * l) \div 100 = 0
      OBVIOUS
    <3> QED BY <3>1, TableAssumption DEF calcMaxNumElementsAllowed
  <2> QED BY <1>2, <2>1
<1>4. SUFFICES ASSUME \A x \in h .. End(t) - 1 : t.info[x] # 0 PROVE FALSE
  BY <1>3
<1> DEFINE allowed == calcMaxNumElementsAllowed(t.mask + 1)
<1>5. /\ t.mask + 1 <= End(t)
      /\ End(t) = t.mask + 1 + allowed \/ End(t) = t.mask + 1 + MaxInfo
  BY <1>2, <1>3, EndIs
<1>6. allowed \in Nat /\ MaxInfo \in Nat
  BY <1>2, AllowedGrows, TableAssumption
<1>7. Nodes(t) = {x \in 0 .. End(t) - 1 : t.info[x] # 0}
  BY <1>1, NodesAre
<1>8. h .. End(t) - 1 \subseteq Nodes(t)
  BY <1>2, <1>4, <1>7
<1>9. CASE End(t) = t.mask + 1 + allowed
  <2>1. Cardinality(h .. End(t) - 1) = End(t) - h
    <3>1. Cardinality(h .. End(t) - 1) = IF h > End(t) - 1 THEN 0 ELSE ((End(t) - 1) - h) + 1
      <4>1. h \in Int /\ End(t) - 1 \in Int
        BY <1>2
      <4> QED BY <4>1, FS_Interval
    <3> QED BY <1>2, <1>5, <3>1
  <2>2. Cardinality(h .. End(t) - 1) <= Cardinality(Nodes(t))
    BY <1>1, <1>8, NodesAreFinite, FS_Subset
  <2> HIDE DEF allowed
  <2> QED BY <1>2, <1>6, <1>9, <2>1, <2>2 DEF allowed
<1>10. CASE End(t) = t.mask + 1 + MaxInfo
  <2> DEFINE x == End(t) - 1
  <2>1. x \in Nodes(t) /\ x \in Nat
    BY <1>2, <1>5, <1>8
  <2>2. /\ t.node[x].key \in Keys /\ Home(t, t.node[x].key) <= x
        /\ t.info[x] = Byte(t, t.node[x].key, x)
    BY <1>1, <2>1, NodesAre
  <2>3. Home(t, t.node[x].key) \in Nat /\ Home(t, t.node[x].key) <= t.mask
    BY <1>1, <2>2, ProbeStarts
  <2>4. Byte(t, t.node[x].key, x) > x - Home(t, t.node[x].key)
    BY <1>1, <2>1, <2>2, BytesStep
  <2>5. t.info[x] \in Nat /\ t.info[x] <= MaxInfo
    <3>1. x \in 0 .. calcNumBytesInfo(End(t)) - 1
      BY <1>2, <2>1, EndIs
    <3> QED BY <1>1, <3>1, BytesAreBytes
  <2> QED BY <1>2, <1>6, <1>10, <2>1, <2>2, <2>3, <2>4, <2>5
<1> QED BY <1>5, <1>9, <1>10

(* The slot that an insertion at the spot fills.                           *)
GapFor(t, y) == First({x \in DOMAIN t.info : x >= y /\ t.info[x] = 0})

(* The first empty slot behind a spot, and the full ones on the way.       *)
LEMMA GapIs ==
  ASSUME NEW t, Sound(t), t.num < calcMaxNumElementsAllowed(t.mask + 1),
         NEW key \in Keys, NEW y, IsSpot(t, key, y)
  PROVE  /\ t.mask # 0
         /\ y \in Nat /\ GapFor(t, y) \in Nat /\ y <= GapFor(t, y) /\ GapFor(t, y) < End(t)
         /\ t.info[GapFor(t, y)] = 0
         /\ \A x \in y .. GapFor(t, y) - 1 : t.info[x] # 0
<1> DEFINE h == Home(t, key)
           S == {x \in DOMAIN t.info : x >= y /\ t.info[x] = 0}
<1>1. IsTable(t)
  BY DEF Sound
<1>2. h \in 0 .. t.mask /\ End(t) \in Nat /\ t.inc \in Nat /\ t.inc >= 2
  BY <1>1, ProbeStarts, EndIs, SMTT(30) DEF IsTable
<1>3. t.mask # 0 /\ \E x \in h .. End(t) - 1 : t.info[x] = 0
  BY <1>2, RoomAhead
<1>4. PICK x \in h .. End(t) - 1 : t.info[x] = 0
  BY <1>3
<1>5. y \in Nat /\ h <= y /\ \A z \in h .. y - 1 : t.info[z] >= Byte(t, key, z)
  BY DEF IsSpot
<1>6. x \in Nat /\ h <= x /\ h \in Nat
  BY <1>2
<1>7. x >= y
  <2> SUFFICES ASSUME x < y PROVE FALSE
    BY <1>5, <1>6
  <2>1. Byte(t, key, x) \in Nat /\ Byte(t, key, x) >= t.inc
    BY <1>1, <1>6, BytesStep
  <2>2. x \in h .. y - 1
    BY <1>5, <1>6
  <2> QED BY <1>2, <1>4, <1>5, <2>1, <2>2
<1>8. DOMAIN t.info = 0 .. calcNumBytesInfo(End(t)) - 1 /\ calcNumBytesInfo(End(t)) \in Nat
      /\ End(t) + 3 <= calcNumBytesInfo(End(t))
  BY <1>1, EndIs DEF IsTable
<1>9. x \in S /\ S \subseteq Nat
  BY <1>2, <1>4, <1>6, <1>7, <1>8
<1>10. First(S) \in S /\ \A z \in S : First(S) <= z
  BY <1>9, FirstIsLeast
<1> DEFINE e == First(S)
<1>11. e \in Nat /\ e >= y /\ t.info[e] = 0 /\ e <= x
  BY <1>9, <1>10
<1>12. \A z \in S : e <= z
  BY <1>10
<1>13. ASSUME NEW z \in y .. e - 1, t.info[z] = 0 PROVE FALSE
  <2> HIDE DEF e
  <2>1. z \in Nat /\ z >= y /\ z < e /\ z \in DOMAIN t.info
    BY <1>2, <1>5, <1>8, <1>11
  <2>2. z \in S
    BY <1>13, <2>1
  <2> QED BY <1>11, <1>12, <2>1, <2>2
<1>14. e < End(t)
  BY <1>2, <1>6, <1>11
<1>15. GapFor(t, y) = e
  BY DEF GapFor
<1> HIDE DEF e
<1> QED BY <1>3, <1>5, <1>11, <1>13, <1>14, <1>15

(***************************************************************************)
(* An insertion puts its node in place.                                    *)
(***************************************************************************)
(* What an insertion leaves: the bytes and the slots.                      *)
PlacedByte(t, key, y, x) ==
  IF x = y THEN Byte(t, key, y)
  ELSE IF x \in y + 1 .. GapFor(t, y) THEN t.info[x - 1] + t.inc ELSE t.info[x]

PlacedNode(t, node, y, x) ==
  IF x = y THEN node ELSE IF x \in y + 1 .. GapFor(t, y) THEN t.node[x - 1] ELSE t.node[x]

(* Parts of a table replaced by others.                                    *)
SameSize(u, r) ==
  /\ u.hash = r.hash /\ u.mult = r.mult /\ u.mask = r.mask
  /\ u.inc = r.inc /\ u.shift = r.shift

(* A table with another bound is otherwise the same.                       *)
LEMMA MaxReplaced ==
  ASSUME NEW r, IsRecord(r), NEW u, NEW m, u = [r EXCEPT !.max = m]
  PROVE  /\ IsRecord(u) /\ SameSize(u, r)
         /\ u.num = r.num /\ u.max = m /\ u.info = r.info /\ u.node = r.node
BY DEF IsRecord, SameSize

BytesMoved(t, y) ==
  [x \in DOMAIN t.info |->
     IF x \in y + 1 .. GapFor(t, y) THEN (t.info[x - 1] + t.inc) % (MaxInfo + 1) ELSE t.info[x]]

NodesMoved(t, y) ==
  [x \in DOMAIN t.node \cup {GapFor(t, y)} |->
     NodeAt(t, IF x \in y + 1 .. GapFor(t, y) THEN x - 1 ELSE x)]

(* The fields after an insertion at y, as Place computes them.             *)
PlacedFields(u, t, key, node, y) ==
  /\ IsRecord(u) /\ SameSize(u, t)
  /\ u.num = t.num + 1
  /\ u.max = 0 \/ u.max = t.max
  /\ u.max # 0 =>
       /\ ~ (Byte(t, key, y) + t.inc > MaxInfo)
       /\ \A x \in y + 1 .. GapFor(t, y) : ~ (BytesMoved(t, y)[x] + t.inc > MaxInfo)
  /\ u.info = [BytesMoved(t, y) EXCEPT ![y] = Byte(t, key, y) % (MaxInfo + 1)]
  /\ u.node = [NodesMoved(t, y) EXCEPT ![y] = node]

(* What Place does to each member, moving the nodes y .. e-1 up.           *)
LEMMA PlaceFields ==
  ASSUME NEW t, IsRecord(t), NEW key, NEW node, NEW y, NEW u,
         u = Place(t, ProbeOf(t, key, y), node)
  PROVE  PlacedFields(u, t, key, node, y)
<1> DEFINE b == Byte(t, key, y)
           p == ProbeOf(t, key, y)
           e == GapFor(t, y)
           full == IF p.info + t.inc > MaxInfo THEN [t EXCEPT !.max = 0] ELSE t
           I == BytesMoved(t, y)
           N == NodesMoved(t, y)
           moved == MovedUp(full, y, e)
           room == shiftUp(full, y, e)
<1>1. p.idx = y /\ p.info = b
  BY DEF ProbeOf
<1>2. e = First({x \in DOMAIN t.info : x >= p.idx /\ t.info[x] = 0})
  BY <1>1 DEF GapFor
<1>3. u = [room EXCEPT !.info[y] = b % (MaxInfo + 1), !.node[y] = node, !.num = @ + 1]
  BY <1>1, <1>2 DEF Place
<1>4. /\ IsRecord(full) /\ SameSize(full, t)
      /\ full.num = t.num /\ full.info = t.info /\ full.node = t.node
      /\ full.max = 0 \/ full.max = t.max
      /\ full.max # 0 => ~ (b + t.inc > MaxInfo)
  <2>1. CASE b + t.inc > MaxInfo
    <3>1. full = [t EXCEPT !.max = 0]
      BY <1>1, <2>1
    <3> HIDE DEF full
    <3> QED BY <3>1, MaxReplaced
  <2>2. CASE ~ (b + t.inc > MaxInfo)
    <3>1. full = t
      BY <1>1, <2>2
    <3> HIDE DEF full
    <3> QED BY <2>2, <3>1 DEF SameSize
  <2> QED BY <2>1, <2>2
<1> HIDE DEF full
<1>5. /\ IsRecord(moved) /\ SameSize(moved, t)
      /\ moved.num = t.num /\ moved.max = full.max /\ moved.info = I /\ moved.node = N
  <2> DEFINE I1 == [x \in DOMAIN full.info |->
                      IF x \in y + 1 .. e THEN (full.info[x - 1] + full.inc) % (MaxInfo + 1)
                      ELSE full.info[x]]
             N1 == [x \in DOMAIN full.node \cup {e} |->
                      NodeAt(full, IF x \in y + 1 .. e THEN x - 1 ELSE x)]
  <2>1. moved = [full EXCEPT !.info = I1, !.node = N1]
    BY DEF MovedUp
  <2>2. full.inc = t.inc /\ \A x : NodeAt(full, x) = NodeAt(t, x)
    BY <1>4 DEF NodeAt, SameSize
  <2>3. I1 = I
    BY <1>4, <2>2 DEF BytesMoved
  <2>4. N1 = N
    BY <1>4, <2>2 DEF NodesMoved
  <2> HIDE DEF moved, I1, N1
  <2>5. /\ IsRecord(moved) /\ SameSize(moved, full)
        /\ moved.num = full.num /\ moved.max = full.max /\ moved.info = I1 /\ moved.node = N1
    BY <1>4, <2>1 DEF IsRecord, SameSize
  <2> QED BY <1>4, <2>3, <2>4, <2>5 DEF SameSize
<1> DEFINE over == \E x \in y + 1 .. e : moved.info[x] + full.inc > MaxInfo
<1>6. room = IF over THEN [moved EXCEPT !.max = 0] ELSE moved
  BY DEF shiftUp
<1>7. full.inc = t.inc
  BY <1>4 DEF SameSize
<1> HIDE DEF room, moved
<1>8. /\ IsRecord(room) /\ SameSize(room, t)
      /\ room.num = t.num /\ room.info = I /\ room.node = N
      /\ room.max = 0 \/ room.max = full.max
      /\ room.max # 0 => \A x \in y + 1 .. e : ~ (I[x] + t.inc > MaxInfo)
  <2>1. CASE over
    <3>1. room = [moved EXCEPT !.max = 0]
      BY <1>6, <2>1
    <3> QED BY <1>5, <3>1, MaxReplaced DEF SameSize
  <2>2. CASE ~ over
    <3>1. room = moved
      BY <1>6, <2>2
    <3> QED BY <1>5, <1>7, <2>2, <3>1
  <2> QED BY <2>1, <2>2
<1>9. /\ IsRecord(u) /\ SameSize(u, room)
      /\ u.num = room.num + 1 /\ u.max = room.max
      /\ u.info = [room.info EXCEPT ![y] = b % (MaxInfo + 1)]
      /\ u.node = [room.node EXCEPT ![y] = node]
  <2>1. u = [room EXCEPT !.info[y] = b % (MaxInfo + 1), !.node[y] = node, !.num = room.num + 1]
    BY <1>3
  <2> DEFINE c == room.num + 1
             v == b % (MaxInfo + 1)
  <2>2. u = [room EXCEPT !.info[y] = v, !.node[y] = node, !.num = c]
    BY <2>1
  <2> HIDE DEF c, v
  <2>3. /\ IsRecord(u) /\ SameSize(u, room)
        /\ u.num = c /\ u.max = room.max
        /\ u.info = [room.info EXCEPT ![y] = v] /\ u.node = [room.node EXCEPT ![y] = node]
    BY <1>8, <2>2 DEF IsRecord, SameSize
  <2> QED BY <2>3 DEF c, v
<1>10. IsRecord(u) /\ SameSize(u, t) /\ u.num = t.num + 1
  BY <1>8, <1>9 DEF SameSize
<1>11. (u.max = 0 \/ u.max = t.max) /\ (u.max # 0 => ~ (b + t.inc > MaxInfo))
  BY <1>4, <1>8, <1>9
<1>12. u.max # 0 => \A x \in y + 1 .. e : ~ (I[x] + t.inc > MaxInfo)
  BY <1>8, <1>9
<1>13. u.info = [I EXCEPT ![y] = b % (MaxInfo + 1)] /\ u.node = [N EXCEPT ![y] = node]
  BY <1>8, <1>9
<1> QED BY <1>10, <1>11, <1>12, <1>13 DEF PlacedFields

Entries(t) == {t.node[x] : x \in Nodes(t)}

(* u is t with the nodes of y .. e - 1 moved up by one, and a new one in y. *)
PlacedAt(u, t, node, y, e) ==
  /\ IsRecord(u) /\ SameSize(u, t) /\ u.num = t.num + 1
  /\ u.max = 0 \/ u.max = t.max
  /\ u.info = [x \in DOMAIN t.info |-> u.info[x]]
  /\ u.node = [x \in DOMAIN t.node |-> u.node[x]]
  /\ u.info[y] = Byte(t, node.key, y) /\ u.node[y] = node
  /\ \A x \in y + 1 .. e : u.info[x] = t.info[x - 1] + t.inc /\ u.node[x] = t.node[x - 1]
  /\ \A x \in DOMAIN t.info : x < y \/ x > e => u.info[x] = t.info[x]
  /\ \A x \in DOMAIN t.node : x < y \/ x > e => u.node[x] = t.node[x]
  /\ u.max # 0 => \A x \in y .. e : u.info[x] + t.inc <= MaxInfo

(* The new byte fits.                                                      *)
LEMMA SpotFits ==
  ASSUME NEW t, Sound(t), t.max # 0, NEW key \in Keys, NEW y, IsSpot(t, key, y)
  PROVE  Byte(t, key, y) \in Nat /\ Byte(t, key, y) <= MaxInfo
<1> DEFINE h == Home(t, key)
<1>1. IsTable(t) /\ BytesHaveRoom(t)
  BY DEF Sound
<1>2. y \in Nat /\ h \in Nat /\ h <= y /\ y <= End(t) /\ End(t) \in Nat
  BY <1>1, ProbeStarts, EndIs DEF IsSpot, IsTable
<1>3. t.inc \in Nat /\ t.inc >= 2 /\ t.inc <= InitialInfoInc
  BY <1>1, ProbeStarts
<1>4. InitialInfoInc \in Nat /\ MaxInfo \in Nat /\ MaxInfo >= 2 * InitialInfoInc - 1
  BY TableAssumption
<1>5. Byte(t, key, y) \in Nat /\ (y > h <=> Byte(t, key, y) >= 2 * t.inc)
  BY <1>1, <1>2, BytesStep
<1>6. CASE y = h
  BY <1>2, <1>3, <1>4, <1>5, <1>6
<1>7. CASE y > h
  <2> DEFINE z == y - 1
  <2>1. z \in Nat /\ h <= z /\ z + 1 = y /\ z \in h .. y - 1 /\ z \in 0 .. End(t) - 1
    BY <1>2, <1>7
  <2> HIDE DEF z
  <2>2. Byte(t, key, y) = Byte(t, key, z) + t.inc /\ Byte(t, key, z) \in Nat
    BY <1>1, <2>1, BytesStep
  <2>3. t.info[z] >= Byte(t, key, z)
    BY <2>1 DEF IsSpot
  <2>4. t.info[z] + t.inc <= MaxInfo
    BY <1>1, <2>1 DEF BytesHaveRoom
  <2>5. t.info[z] \in Nat
    <3>1. z \in 0 .. calcNumBytesInfo(End(t)) - 1
      BY <1>1, <1>2, <2>1, EndIs DEF IsTable
    <3> QED BY <1>1, <3>1, BytesAreBytes
  <2> QED BY <1>3, <1>4, <1>5, <2>2, <2>3, <2>4, <2>5
<1> QED BY <1>2, <1>6, <1>7

(* Place at a spot: the entries get one more, and no byte is narrowed.     *)
LEMMA PlaceIs ==
  ASSUME NEW t, Sound(t), t.num < t.max, NEW node \in Entry, NEW y, IsSpot(t, node.key, y),
         NEW u, u = Place(t, ProbeOf(t, node.key, y), node)
  PROVE  PlacedAt(u, t, node, y, GapFor(t, y))
<1> DEFINE key == node.key
           e == GapFor(t, y)
           b == Byte(t, key, y)
<1>1. IsTable(t) /\ IsRecord(t) /\ BytesHaveRoom(t) /\ key \in Keys
  BY DEF Sound, IsTable, Entry
<1>2. /\ t.max # 0 /\ t.num < calcMaxNumElementsAllowed(t.mask + 1)
      /\ End(t) \in Nat /\ calcNumBytesInfo(End(t)) \in Nat
      /\ End(t) + 3 <= calcNumBytesInfo(End(t))
  <2>1. t.num \in Nat /\ t.max \in {0, calcMaxNumElementsAllowed(t.mask + 1)} /\ t.mask \in Nat
    BY <1>1 DEF IsTable
  <2>2. t.max # 0
    BY <2>1
  <2> QED BY <2>1, <2>2, EndIs
<1>3. /\ y \in Nat /\ e \in Nat /\ y <= e /\ e < End(t) /\ t.info[e] = 0
  BY <1>1, <1>2, GapIs
<1>4. b \in Nat /\ b <= MaxInfo /\ MaxInfo \in Nat
  BY <1>1, <1>2, SpotFits, TableAssumption
<1>5. t.inc \in Nat
  BY <1>1 DEF IsTable, UsesUnit
<1>6. /\ IsRecord(u) /\ SameSize(u, t)
      /\ u.num = t.num + 1
      /\ u.max = 0 \/ u.max = t.max
      /\ u.max # 0 =>
           /\ ~ (b + t.inc > MaxInfo)
           /\ \A x \in y + 1 .. e : ~ (BytesMoved(t, y)[x] + t.inc > MaxInfo)
      /\ u.info = [BytesMoved(t, y) EXCEPT ![y] = b % (MaxInfo + 1)]
      /\ u.node = [NodesMoved(t, y) EXCEPT ![y] = node]
  <2>1. IsRecord(t)
    BY <1>1
  <2>2. PlacedFields(u, t, key, node, y)
    BY <2>1, PlaceFields
  <2> QED BY <2>2 DEF PlacedFields
<1>7. DOMAIN t.info = 0 .. calcNumBytesInfo(End(t)) - 1 /\ DOMAIN t.node = 0 .. End(t) - 1
  BY <1>1 DEF IsTable
<1>8. y \in DOMAIN t.info /\ y \in DOMAIN t.node /\ DOMAIN t.node \cup {e} = DOMAIN t.node
      /\ \A x \in y + 1 .. e : /\ x \in DOMAIN t.info /\ x \in DOMAIN t.node /\ x # y
                               /\ x - 1 \in DOMAIN t.info /\ x - 1 \in DOMAIN t.node
                               /\ x - 1 \in 0 .. End(t) - 1 /\ x - 1 # x
  BY <1>2, <1>3, <1>7
<1> HIDE DEF e, b, key
<1>9. ASSUME NEW a \in Nat, a <= MaxInfo PROVE a % (MaxInfo + 1) = a
  BY <1>4, <1>9
<1>10. ASSUME NEW x \in y + 1 .. e
       PROVE  /\ BytesMoved(t, y)[x] = t.info[x - 1] + t.inc
              /\ t.info[x - 1] + t.inc \in Nat
  <2>1. t.info[x - 1] \in Nat /\ t.info[x - 1] + t.inc <= MaxInfo
    <3>1. t.info[x - 1] \in Nat
      BY <1>1, <1>7, <1>8, BytesAreBytes
    <3>2. t.info[x - 1] + t.inc <= MaxInfo
      BY <1>1, <1>2, <1>8 DEF BytesHaveRoom
    <3> QED BY <3>1, <3>2
  <2>2. BytesMoved(t, y)[x] = (t.info[x - 1] + t.inc) % (MaxInfo + 1)
    BY <1>8 DEF BytesMoved, e
  <2>3. t.info[x - 1] + t.inc \in Nat
    BY <1>5, <2>1
  <2> QED BY <1>9, <2>1, <2>2, <2>3
<1>11. /\ DOMAIN BytesMoved(t, y) = DOMAIN t.info
       /\ DOMAIN NodesMoved(t, y) = DOMAIN t.node
  BY <1>8 DEF BytesMoved, NodesMoved, e
<1>12. \A x \in DOMAIN t.info : x \notin y + 1 .. e => BytesMoved(t, y)[x] = t.info[x]
  BY DEF BytesMoved, e
<1>13. \A x \in DOMAIN t.node :
         NodesMoved(t, y)[x] = IF x \in y + 1 .. e THEN t.node[x - 1] ELSE t.node[x]
  BY <1>8 DEF NodesMoved, NodeAt, e
<1>14. /\ DOMAIN u.info = DOMAIN t.info /\ DOMAIN u.node = DOMAIN t.node
       /\ u.info[y] = b /\ u.node[y] = node
       /\ \A x \in DOMAIN t.info : x # y => u.info[x] = BytesMoved(t, y)[x]
       /\ \A x \in DOMAIN t.node : x # y => u.node[x] = NodesMoved(t, y)[x]
  BY <1>4, <1>6, <1>8, <1>9, <1>11
<1>15. \A x \in y + 1 .. e : u.info[x] = t.info[x - 1] + t.inc /\ u.node[x] = t.node[x - 1]
  BY <1>8, <1>10, <1>13, <1>14
<1>16. ASSUME NEW x \in Nat, x < y \/ x > e PROVE x # y /\ x \notin y + 1 .. e
  BY <1>3, <1>16
<1>17. \A x \in DOMAIN t.info : x < y \/ x > e => u.info[x] = t.info[x]
  BY <1>2, <1>7, <1>12, <1>14, <1>16
<1>18. \A x \in DOMAIN t.node : x < y \/ x > e => u.node[x] = t.node[x]
  BY <1>2, <1>7, <1>13, <1>14, <1>16
<1>19. ASSUME u.max # 0, NEW x \in y .. e PROVE u.info[x] + t.inc <= MaxInfo
  <2>1. CASE x = y
    BY <1>4, <1>5, <1>6, <1>14, <1>19, <2>1
  <2>2. CASE x # y
    <3>1. x \in y + 1 .. e
      BY <1>3, <2>2
    <3>2. ~ (BytesMoved(t, y)[x] + t.inc > MaxInfo)
      BY <1>6, <1>19, <3>1
    <3>3. u.info[x] = BytesMoved(t, y)[x] /\ BytesMoved(t, y)[x] \in Nat
      BY <1>8, <1>10, <1>14, <3>1
    <3> QED BY <1>4, <1>5, <3>2, <3>3
  <2> QED BY <2>1, <2>2
<1>20. u.info = [x \in DOMAIN t.info |-> u.info[x]]
  <2>1. u.info = [BytesMoved(t, y) EXCEPT ![y] = b % (MaxInfo + 1)]
    BY <1>6
  <2>2. u.info = [x \in DOMAIN BytesMoved(t, y) |-> u.info[x]]
    BY <2>1
  <2> QED BY <1>11, <2>2
<1>21. u.node = [x \in DOMAIN t.node |-> u.node[x]]
  <2>1. u.node = [NodesMoved(t, y) EXCEPT ![y] = node]
    BY <1>6
  <2>2. u.node = [x \in DOMAIN NodesMoved(t, y) |-> u.node[x]]
    BY <2>1
  <2> QED BY <1>11, <2>2
<1> QED BY <1>6, <1>14, <1>15, <1>17, <1>18, <1>19, <1>20, <1>21 DEF PlacedAt, b, e, key

(* Tables of the same size and hash probe alike.                           *)
LEMMA SameProbes ==
  ASSUME NEW t, NEW u, SameSize(u, t)
  PROVE  /\ End(u) = End(t)
         /\ \A key : Home(u, key) = Home(t, key)
         /\ \A key, x : Byte(u, key, x) = Byte(t, key, x)
<1>1. End(u) = End(t)
  BY DEF SameSize, End
<1>2. \A key : keyToIdx(u, key) = keyToIdx(t, key)
  BY DEF SameSize, keyToIdx
<1>3. u.inc = t.inc
  BY DEF SameSize
<1>4. \A key : Home(u, key) = Home(t, key)
  BY <1>2 DEF Home
<1> QED BY <1>1, <1>2, <1>3, <1>4 DEF Byte

(* What is known where a node is placed.                                   *)
MayPlace(t, node, y, e) ==
  /\ Sound(t) /\ t.max # 0
  /\ node \in Entry /\ node.key \notin KeysOf(t)
  /\ IsSpot(t, node.key, y)
  /\ y \in Nat /\ e \in Nat /\ y <= e /\ e < End(t)
  /\ t.info[e] = 0 /\ \A x \in y .. e - 1 : t.info[x] # 0

(* The table is well formed after an insertion.                            *)
LEMMA PlacedIsTable ==
  ASSUME NEW t, NEW node, NEW y, NEW e, MayPlace(t, node, y, e),
         NEW u, PlacedAt(u, t, node, y, e)
  PROVE  /\ IsTable(u) /\ BytesHaveRoom(u) /\ SentinelStands(u)
         /\ End(u) = End(t)
         /\ \A x \in 0 .. End(t) - 1 :
              \/ x = y /\ u.info[x] = Byte(t, node.key, y) /\ u.node[x] = node
              \/ /\ x \in y + 1 .. e /\ x - 1 \in y .. e - 1 /\ x - 1 \in 0 .. End(t) - 1
                 /\ u.info[x] = t.info[x - 1] + t.inc /\ u.node[x] = t.node[x - 1]
              \/ (x < y \/ x > e) /\ u.info[x] = t.info[x] /\ u.node[x] = t.node[x]
<1>1. IsTable(t) /\ BytesHaveRoom(t) /\ SentinelStands(t) /\ t.max # 0 /\ node \in Entry
      /\ node.key \in Keys
  BY DEF MayPlace, Sound, Entry
<1>2. /\ End(t) \in Nat /\ calcNumBytesInfo(End(t)) \in Nat
      /\ End(t) + 3 <= calcNumBytesInfo(End(t)) /\ t.inc \in Nat /\ MaxInfo \in Nat
  BY <1>1, EndIs, TableAssumption DEF IsTable, UsesUnit
<1>3. /\ y \in Nat /\ e \in Nat /\ y <= e /\ e < End(t)
  BY DEF MayPlace
<1>4. /\ IsRecord(u) /\ SameSize(u, t) /\ u.num = t.num + 1
      /\ u.max = 0 \/ u.max = t.max
      /\ u.info = [x \in DOMAIN t.info |-> u.info[x]]
      /\ u.node = [x \in DOMAIN t.node |-> u.node[x]]
      /\ u.info[y] = Byte(t, node.key, y) /\ u.node[y] = node
      /\ \A x \in y + 1 .. e : u.info[x] = t.info[x - 1] + t.inc /\ u.node[x] = t.node[x - 1]
      /\ \A x \in DOMAIN t.info : x < y \/ x > e => u.info[x] = t.info[x]
      /\ \A x \in DOMAIN t.node : x < y \/ x > e => u.node[x] = t.node[x]
      /\ u.max # 0 => \A x \in y .. e : u.info[x] + t.inc <= MaxInfo
  BY DEF PlacedAt
<1>5. DOMAIN t.info = 0 .. calcNumBytesInfo(End(t)) - 1 /\ DOMAIN t.node = 0 .. End(t) - 1
  BY <1>1 DEF IsTable
<1>6. /\ End(u) = End(t) /\ u.inc = t.inc /\ u.shift = t.shift /\ u.mask = t.mask
      /\ u.hash = t.hash /\ u.mult = t.mult
  BY <1>4, SameProbes DEF SameSize
<1>7. ASSUME NEW x \in Nat
      PROVE  \/ x = y
             \/ x \in y + 1 .. e /\ x - 1 \in y .. e - 1 /\ x - 1 \in 0 .. End(t) - 1
             \/ x < y \/ x > e
  BY <1>2, <1>3
<1>8. ASSUME NEW x \in 0 .. End(t) - 1
      PROVE  \/ x = y /\ u.info[x] = Byte(t, node.key, y) /\ u.node[x] = node
             \/ /\ x \in y + 1 .. e /\ x - 1 \in y .. e - 1 /\ x - 1 \in 0 .. End(t) - 1
                /\ u.info[x] = t.info[x - 1] + t.inc /\ u.node[x] = t.node[x - 1]
             \/ (x < y \/ x > e) /\ u.info[x] = t.info[x] /\ u.node[x] = t.node[x]
  <2>1. x \in Nat /\ x \in DOMAIN t.info /\ x \in DOMAIN t.node
    BY <1>2, <1>5
  <2> QED BY <1>4, <1>7, <2>1
<1>9. Byte(t, node.key, y) \in 0 .. MaxInfo
  <2>1. Byte(t, node.key, y) \in Nat /\ Byte(t, node.key, y) <= MaxInfo
    BY <1>1, SpotFits DEF MayPlace
  <2> QED BY <1>2, <2>1
<1>10. \A x \in 0 .. End(t) - 1 : t.info[x] \in Nat /\ t.info[x] + t.inc <= MaxInfo
  <2>1. \A x \in 0 .. End(t) - 1 : x \in 0 .. calcNumBytesInfo(End(t)) - 1
    BY <1>2
  <2> QED BY <1>1, <2>1, BytesAreBytes DEF BytesHaveRoom
<1>11. ASSUME NEW x \in DOMAIN t.info, x \notin 0 .. End(t) - 1
       PROVE  u.info[x] = t.info[x]
  <2>1. x \in Nat /\ x > e
    BY <1>2, <1>3, <1>5, <1>11
  <2> QED BY <1>4, <2>1
<1>12. \A x \in DOMAIN t.info : u.info[x] \in 0 .. MaxInfo
  <2> TAKE x \in DOMAIN t.info
  <2>1. t.info[x] \in 0 .. MaxInfo
    BY <1>1, <1>2, <1>5, BytesAreBytes
  <2>2. CASE x \in 0 .. End(t) - 1
    BY <1>2, <1>8, <1>9, <1>10, <2>1, <2>2
  <2> QED BY <1>11, <2>1, <2>2
<1>13. \A x \in DOMAIN t.node : u.node[x] \in Entry \cup {NoNode}
  <2>1. \A x \in 0 .. End(t) - 1 : t.node[x] \in Entry \cup {NoNode}
    BY <1>1 DEF IsTable
  <2>2. node \in Entry \cup {NoNode}
    BY <1>1
  <2> QED BY <1>5, <1>8, <2>1, <2>2
<1>14. u.info \in [0 .. calcNumBytesInfo(End(t)) - 1 -> 0 .. MaxInfo]
  BY <1>4, <1>5, <1>12
<1>15. u.node \in [0 .. End(t) - 1 -> Entry \cup {NoNode}]
  BY <1>4, <1>5, <1>13
<1>16. IsTable(u)
  <2>1. UsesHash(u) /\ UsesUnit(u)
    BY <1>1, <1>6 DEF IsTable, UsesHash, UsesUnit
  <2>2. t.num \in Nat /\ t.mask \in Nat /\ t.max \in {0, calcMaxNumElementsAllowed(t.mask + 1)}
    BY <1>1 DEF IsTable
  <2>3. u.num \in Nat /\ u.mask \in Nat /\ u.max \in {0, calcMaxNumElementsAllowed(u.mask + 1)}
    BY <1>4, <1>6, <2>2
  <2> QED BY <1>4, <1>6, <1>14, <1>15, <2>1, <2>3 DEF IsTable
<1>17. BytesHaveRoom(u)
  <2> SUFFICES ASSUME u.max # 0, NEW x \in 0 .. End(t) - 1 PROVE u.info[x] + t.inc <= MaxInfo
    BY <1>6 DEF BytesHaveRoom
  <2>1. CASE x \in y .. e
    BY <1>4, <2>1
  <2>2. CASE x < y \/ x > e
    <3>1. x \in DOMAIN t.info
      BY <1>2, <1>5
    <3>2. u.info[x] = t.info[x]
      BY <1>4, <2>2, <3>1
    <3> QED BY <1>10, <3>2
  <2> QED BY <1>2, <1>3, <2>1, <2>2
<1>18. SentinelStands(u)
  <2>1. ASSUME NEW x \in End(t) .. calcNumBytesInfo(End(t)) - 1
        PROVE  u.info[x] = t.info[x]
    <3>1. x \in DOMAIN t.info /\ x \notin 0 .. End(t) - 1
      BY <1>2, <1>5
    <3> QED BY <1>11, <3>1
  <2> QED BY <1>1, <1>6, <2>1 DEF SentinelStands
<1> QED BY <1>6, <1>8, <1>16, <1>17, <1>18

(* The bytes still tell distances.                                         *)
LEMMA PlacedTells ==
  ASSUME NEW t, NEW node, NEW y, NEW e, MayPlace(t, node, y, e),
         NEW u, PlacedAt(u, t, node, y, e)
  PROVE  /\ BytesTell(u)
         /\ Nodes(u) = Nodes(t) \cup {e}
         /\ e \notin Nodes(t)
<1> DEFINE key == node.key
<1>1. IsTable(t) /\ BytesTell(t) /\ t.max # 0 /\ node \in Entry /\ key \in Keys
  BY DEF MayPlace, Sound, Entry
<1>2. /\ IsTable(u) /\ End(u) = End(t) /\ End(t) \in Nat
      /\ \A x \in 0 .. End(t) - 1 :
           \/ x = y /\ u.info[x] = Byte(t, key, y) /\ u.node[x] = node
           \/ /\ x \in y + 1 .. e /\ x - 1 \in y .. e - 1 /\ x - 1 \in 0 .. End(t) - 1
              /\ u.info[x] = t.info[x - 1] + t.inc /\ u.node[x] = t.node[x - 1]
           \/ (x < y \/ x > e) /\ u.info[x] = t.info[x] /\ u.node[x] = t.node[x]
  BY <1>1, PlacedIsTable, EndIs DEF IsTable
<1>3. /\ \A k : Home(u, k) = Home(t, k)
      /\ \A k, x : Byte(u, k, x) = Byte(t, k, x)
  BY SameProbes DEF PlacedAt
<1>4. /\ y \in Nat /\ e \in Nat /\ y <= e /\ e < End(t) /\ Home(t, key) <= y
      /\ t.info[e] = 0 /\ \A x \in y .. e - 1 : t.info[x] # 0
  BY DEF MayPlace, IsSpot
<1>5. /\ Byte(t, key, y) \in Nat /\ Byte(t, key, y) >= t.inc /\ t.inc \in Nat /\ t.inc >= 2
  BY <1>1, <1>4, ProbeStarts, BytesStep
<1>6. NoNode \notin Entry
  BY TableAssumption DEF NoNode, Entry
<1>7. Nodes(t) = {x \in 0 .. End(t) - 1 : t.info[x] # 0}
  BY <1>1, NodesAre
<1>8. ASSUME NEW x \in 0 .. End(t) - 1, t.info[x] # 0
      PROVE  /\ t.node[x] \in Entry /\ t.node[x].key \in Keys
             /\ Home(t, t.node[x].key) <= x /\ Home(t, t.node[x].key) \in Nat
             /\ t.info[x] = Byte(t, t.node[x].key, x)
  <2>1. x \in Nodes(t)
    BY <1>7, <1>8
  <2> QED BY <1>1, <2>1, NodesAre, ProbeStarts
<1> HIDE DEF key
<1>9. ASSUME NEW x \in 0 .. End(t) - 1
      PROVE  /\ \/ u.info[x] = 0 /\ u.node[x] = NoNode
                \/ /\ u.info[x] # 0 /\ u.node[x] \in Entry
                   /\ Home(u, u.node[x].key) <= x
                   /\ u.info[x] = Byte(u, u.node[x].key, x)
             /\ u.info[x] # 0 <=> x = e \/ t.info[x] # 0
  <2>1. CASE x = y /\ u.info[x] = Byte(t, key, y) /\ u.node[x] = node
    <3>1. u.info[x] # 0
      BY <1>5, <2>1
    <3>2. x = e \/ t.info[x] # 0
      BY <1>4, <2>1
    <3> QED BY <1>1, <1>3, <1>4, <2>1, <3>1, <3>2 DEF key
  <2>2. CASE /\ x \in y + 1 .. e /\ x - 1 \in y .. e - 1 /\ x - 1 \in 0 .. End(t) - 1
             /\ u.info[x] = t.info[x - 1] + t.inc /\ u.node[x] = t.node[x - 1]
    <3> DEFINE z == x - 1
               k == t.node[z].key
    <3>1. /\ z \in Nat /\ z + 1 = x /\ t.info[z] # 0 /\ z \in 0 .. End(t) - 1
          /\ u.info[x] = t.info[z] + t.inc /\ u.node[x] = t.node[z]
      BY <1>4, <2>2
    <3>2. x = e \/ t.info[x] # 0
      BY <1>4, <2>2
    <3> HIDE DEF z
    <3>3. /\ t.node[z] \in Entry /\ k \in Keys /\ Home(t, k) <= z /\ Home(t, k) \in Nat
          /\ t.info[z] = Byte(t, k, z)
      BY <1>8, <3>1
    <3>4. Byte(t, k, z) \in Nat /\ Byte(t, k, z + 1) = Byte(t, k, z) + t.inc
      BY <1>1, <3>1, <3>3, BytesStep
    <3>5. u.info[x] = Byte(t, k, x) /\ u.info[x] # 0 /\ Home(t, k) <= x
      BY <1>5, <3>1, <3>3, <3>4
    <3> QED BY <1>3, <3>1, <3>2, <3>3, <3>5
  <2>3. CASE (x < y \/ x > e) /\ u.info[x] = t.info[x] /\ u.node[x] = t.node[x]
    <3>1. x # e
      BY <1>4, <2>3
    <3>2. \/ t.info[x] = 0 /\ t.node[x] = NoNode
          \/ t.info[x] # 0
      BY <1>1 DEF BytesTell
    <3> QED BY <1>3, <1>8, <2>3, <3>1, <3>2
  <2> QED BY <1>2, <2>1, <2>2, <2>3
<1>10. BytesTell(u)
  BY <1>2, <1>9 DEF BytesTell
<1>11. Nodes(u) = {x \in 0 .. End(t) - 1 : u.info[x] # 0}
  BY <1>2, <1>10, NodesAre
<1>12. e \in 0 .. End(t) - 1
  BY <1>2, <1>4
<1> QED BY <1>4, <1>7, <1>9, <1>10, <1>11, <1>12

(* Runs still rise by one at most.                                         *)
LEMMA PlacedRises ==
  ASSUME NEW t, NEW node, NEW y, NEW e, MayPlace(t, node, y, e),
         NEW u, PlacedAt(u, t, node, y, e)
  PROVE  RunsRise(u)
<1> DEFINE key == node.key
<1>1. IsTable(t) /\ BytesTell(t) /\ RunsRise(t) /\ key \in Keys
  BY DEF MayPlace, Sound, Entry
<1>2. /\ IsTable(u) /\ End(u) = End(t) /\ End(t) \in Nat
      /\ calcNumBytesInfo(End(t)) \in Nat /\ End(t) + 3 <= calcNumBytesInfo(End(t))
  BY <1>1, PlacedIsTable, EndIs DEF IsTable
<1>3. /\ y \in Nat /\ e \in Nat /\ y <= e /\ e < End(t) /\ Home(t, key) <= y /\ Home(t, key) \in Nat
      /\ t.info[e] = 0 /\ \A x \in y .. e - 1 : t.info[x] # 0
      /\ t.info[y] < Byte(t, key, y)
      /\ \A z \in Home(t, key) .. y - 1 : t.info[z] >= Byte(t, key, z)
  BY <1>1, ProbeStarts DEF MayPlace, IsSpot
<1>4. /\ Byte(t, key, y) \in Nat /\ Byte(t, key, y) >= t.inc /\ t.inc \in Nat /\ t.inc >= 2
      /\ y > Home(t, key) <=> Byte(t, key, y) >= 2 * t.inc
  BY <1>1, <1>3, ProbeStarts, BytesStep
<1>5. /\ DOMAIN t.info = 0 .. calcNumBytesInfo(End(t)) - 1
      /\ \A x \in DOMAIN t.info : t.info[x] \in Nat
  BY <1>1, BytesAreBytes DEF IsTable
<1>6. /\ u.inc = t.inc
      /\ u.info[y] = Byte(t, key, y)
      /\ \A x \in y + 1 .. e : u.info[x] = t.info[x - 1] + t.inc
      /\ \A x \in DOMAIN t.info : x < y \/ x > e => u.info[x] = t.info[x]
  BY DEF PlacedAt, SameSize
<1>7. \A x \in y .. e - 1 : t.info[x] >= t.inc
  <2> TAKE x \in y .. e - 1
  <2>1. x \in 0 .. End(t) - 1 /\ t.info[x] # 0 /\ x \in Nat
    BY <1>2, <1>3
  <2>2. x \in Nodes(t)
    BY <1>1, <2>1, NodesAre
  <2>3. t.info[x] = Byte(t, t.node[x].key, x) /\ t.node[x].key \in Keys /\ Home(t, t.node[x].key) <= x
    BY <1>1, <2>2, NodesAre
  <2> QED BY <1>1, <2>1, <2>3, BytesStep
<1> HIDE DEF key
<1> SUFFICES ASSUME NEW x \in 0 .. End(t)
             PROVE  u.info[x] < 2 * t.inc \/ (x > 0 /\ u.info[x] <= u.info[x - 1] + t.inc)
  BY <1>2, <1>6 DEF RunsRise
<1>8. x \in Nat /\ x \in DOMAIN t.info
  BY <1>2, <1>5
<1>9. t.info[x] < 2 * t.inc \/ (x > 0 /\ t.info[x] <= t.info[x - 1] + t.inc)
  BY <1>1 DEF RunsRise
<1>10. CASE x < y
  <2>1. u.info[x] = t.info[x]
    BY <1>6, <1>8, <1>10
  <2>2. x > 0 => u.info[x - 1] = t.info[x - 1]
    <3> HAVE x > 0
    <3>1. x - 1 \in DOMAIN t.info /\ x - 1 < y
      BY <1>2, <1>3, <1>5, <1>8, <1>10
    <3> QED BY <1>6, <3>1
  <2> QED BY <1>9, <2>1, <2>2
<1>11. CASE x = y
  <2>1. CASE y = Home(t, key)
    BY <1>3, <1>4, <1>6, <1>11, <2>1
  <2>2. CASE y > Home(t, key)
    <3> DEFINE z == y - 1
    <3>1. z \in Nat /\ z + 1 = y /\ z \in Home(t, key) .. y - 1 /\ z < y /\ Home(t, key) <= z
          /\ z \in DOMAIN t.info
      BY <1>2, <1>3, <1>5, <2>2
    <3> HIDE DEF z
    <3>2. Byte(t, key, y) = Byte(t, key, z) + t.inc /\ Byte(t, key, z) \in Nat
      BY <1>1, <3>1, BytesStep
    <3>3. t.info[z] >= Byte(t, key, z) /\ u.info[z] = t.info[z] /\ t.info[z] \in Nat
      BY <1>3, <1>5, <1>6, <3>1
    <3>4. x > 0 /\ x - 1 = z
      BY <1>11, <3>1
    <3> QED BY <1>4, <1>6, <1>11, <3>2, <3>3, <3>4
  <2> QED BY <1>3, <2>1, <2>2
<1>12. CASE x = y + 1 /\ x <= e
  <2>1. x \in y + 1 .. e /\ x - 1 = y /\ x > 0
    BY <1>3, <1>12
  <2>2. u.info[x] = t.info[y] + t.inc /\ t.info[y] \in Nat
    <3>1. y \in DOMAIN t.info
      BY <1>2, <1>3, <1>5
    <3> QED BY <1>5, <1>6, <2>1, <3>1
  <2> QED BY <1>3, <1>4, <1>6, <2>1, <2>2
<1>13. CASE x > y + 1 /\ x <= e
  <2> DEFINE z == x - 1
  <2>1. /\ z \in Nat /\ z > 0 /\ z - 1 \in Nat /\ z \in y + 1 .. e /\ x \in y + 1 .. e
        /\ z \in 0 .. End(t) /\ z \in DOMAIN t.info /\ z - 1 \in DOMAIN t.info
        /\ z - 1 \in y .. e - 1 /\ x > 0
    BY <1>2, <1>3, <1>5, <1>8, <1>13, SMTT(30)
  <2>2. /\ u.info[x] = t.info[z] + t.inc /\ u.info[z] = t.info[z - 1] + t.inc
        /\ t.info[z] \in Nat /\ t.info[z - 1] \in Nat
    BY <1>5, <1>6, <2>1
  <2>3. t.info[z] < 2 * t.inc \/ t.info[z] <= t.info[z - 1] + t.inc
    BY <1>1, <2>1 DEF RunsRise
  <2>4. t.info[z - 1] >= t.inc
    BY <1>7, <2>1
  <2>5. u.info[x] <= u.info[z] + t.inc
    <3> HIDE DEF z
    <3> QED BY <1>4, <2>2, <2>3, <2>4
  <2> QED BY <2>1, <2>5
<1>14. CASE x = e + 1
  <2>1. x > e /\ u.info[x] = t.info[x] /\ x - 1 = e /\ t.info[x] \in Nat
    BY <1>3, <1>5, <1>6, <1>8, <1>14
  <2>2. t.info[x] < 2 * t.inc
    BY <1>3, <1>4, <1>9, <2>1
  <2> QED BY <2>1, <2>2
<1>15. CASE x > e + 1
  <2>1. /\ x > e /\ x - 1 > e /\ x - 1 \in DOMAIN t.info
    BY <1>2, <1>3, <1>5, <1>8, <1>15
  <2>2. u.info[x] = t.info[x] /\ u.info[x - 1] = t.info[x - 1]
    BY <1>6, <1>8, <2>1
  <2> QED BY <1>9, <2>2
<1> QED BY <1>3, <1>8, <1>10, <1>11, <1>12, <1>13, <1>14, <1>15

(* No key is stored twice when the new one was absent.                     *)
LEMMA PlacedKeysDiffer ==
  ASSUME NEW t, NEW node, NEW y, NEW e, MayPlace(t, node, y, e),
         NEW u, PlacedAt(u, t, node, y, e)
  PROVE  KeysDiffer(u) /\ Entries(u) = Entries(t) \cup {node}
<1> DEFINE old(x) == IF x \in y + 1 .. e THEN x - 1 ELSE x
           S == 0 .. End(t) - 1
<1>1. /\ IsTable(t) /\ BytesTell(t) /\ KeysDiffer(t) /\ node \in Entry /\ node.key \in Keys
      /\ node.key \notin KeysOf(t) /\ End(t) \in Nat
  BY EndIs DEF MayPlace, Sound, Entry, IsTable
<1>2. /\ IsTable(u) /\ End(u) = End(t) /\ BytesTell(u)
      /\ \A x \in S :
           \/ x = y /\ u.info[x] = Byte(t, node.key, y) /\ u.node[x] = node
           \/ /\ x \in y + 1 .. e /\ x - 1 \in y .. e - 1 /\ x - 1 \in 0 .. End(t) - 1
              /\ u.info[x] = t.info[x - 1] + t.inc /\ u.node[x] = t.node[x - 1]
           \/ (x < y \/ x > e) /\ u.info[x] = t.info[x] /\ u.node[x] = t.node[x]
  BY PlacedIsTable, PlacedTells
<1>3. /\ y \in Nat /\ e \in Nat /\ y <= e /\ e < End(t)
      /\ t.info[e] = 0 /\ \A x \in y .. e - 1 : t.info[x] # 0
      /\ u.node[y] = node
  BY DEF MayPlace, PlacedAt
<1>4. /\ NoNode \notin Entry /\ NoNode.key \notin Keys
      /\ t.node[e] = NoNode
      /\ \A x \in S : t.node[x] # NoNode => x \in Nodes(t) /\ t.node[x].key # node.key
                                            /\ t.node[x] \in Entry
      /\ \A x \in Nodes(t) : x \in S /\ t.node[x] # NoNode
  <2>1. NoNode \notin Entry /\ NoNode.key \notin Keys
    BY TableAssumption DEF NoNode, Entry
  <2>2. Nodes(t) = {x \in S : t.node[x] # NoNode}
    BY <1>1 DEF Nodes, IsTable
  <2>3. e \in S
    BY <1>1, <1>3
  <2>4. t.node[e] = NoNode
    BY <1>1, <1>3, <2>3 DEF BytesTell
  <2> QED BY <1>1, <2>1, <2>2, <2>4, NodesAre DEF KeysOf
<1>5. \A x \in S : x # y => /\ old(x) \in S /\ u.node[x] = t.node[old(x)] /\ old(x) # e
  <2> TAKE x \in S
  <2> HAVE x # y
  <2>1. CASE x \in y + 1 .. e
    BY <1>2, <1>3, <2>1
  <2>2. CASE x \notin y + 1 .. e
    BY <1>1, <1>2, <1>3, <2>2
  <2> QED BY <2>1, <2>2
<1>6. \A x, z \in S : x # y /\ z # y /\ old(x) = old(z) => x = z
  BY <1>1, <1>3
<1>7. \A w \in S : w # e => \E x \in S : x # y /\ old(x) = w
  <2> TAKE w \in S
  <2> HAVE w # e
  <2>1. CASE w \in y .. e - 1
    <3>1. w + 1 \in S /\ w + 1 # y /\ old(w + 1) = w
      BY <1>1, <1>3, <2>1
    <3> QED BY <3>1
  <2>2. CASE w \notin y .. e - 1
    <3>1. w # y /\ old(w) = w
      BY <1>1, <1>3, <2>2
    <3> QED BY <3>1
  <2> QED BY <2>1, <2>2
<1>8. y \in S
  BY <1>1, <1>3
<1>9. Nodes(u) = {x \in S : u.node[x] # NoNode}
  BY <1>2 DEF Nodes, IsTable
<1> HIDE DEF old, S
<1>10. KeysDiffer(u)
  <2> SUFFICES ASSUME NEW x \in S, NEW z \in S, u.node[x] # NoNode, u.node[x].key = u.node[z].key
               PROVE  x = z
    BY <1>2 DEF KeysDiffer, S
  <2>1. u.node[z] # NoNode
    <3>0. u.node[x] \in Entry
      BY <1>1, <1>3, <1>4, <1>5
    <3>1. u.node[x].key \in Keys
      BY <3>0 DEF Entry
    <3> QED BY <1>4, <3>1
  <2>2. CASE x = y
    BY <1>3, <1>4, <1>5, <2>1, <2>2
  <2>3. CASE x # y /\ z = y
    BY <1>3, <1>4, <1>5, <2>3
  <2>4. CASE x # y /\ z # y
    <3>1. old(x) = old(z)
      BY <1>1, <1>5, <2>1, <2>4 DEF KeysDiffer, S
    <3> QED BY <1>6, <2>4, <3>1
  <2> QED BY <2>2, <2>3, <2>4
<1>11. ASSUME NEW n \in Entries(u) PROVE n \in Entries(t) \cup {node}
  <2>1. PICK x \in S : u.node[x] # NoNode /\ n = u.node[x]
    BY <1>9, <1>11 DEF Entries
  <2>2. CASE x = y
    BY <1>3, <2>1, <2>2
  <2>3. CASE x # y
    BY <1>4, <1>5, <2>1, <2>3 DEF Entries
  <2> QED BY <2>2, <2>3
<1>12. ASSUME NEW n \in Entries(t) PROVE n \in Entries(u)
  <2>1. PICK w \in Nodes(t) : n = t.node[w]
    BY <1>12 DEF Entries
  <2>2. w \in S /\ w # e /\ t.node[w] # NoNode
    BY <1>4, <2>1
  <2>3. PICK x \in S : x # y /\ old(x) = w
    BY <1>7, <2>2
  <2>4. u.node[x] = n /\ u.node[x] # NoNode
    BY <1>5, <2>1, <2>2, <2>3
  <2> QED BY <1>9, <2>4 DEF Entries
<1>13. node \in Entries(u)
  BY <1>1, <1>3, <1>4, <1>8, <1>9 DEF Entries
<1> QED BY <1>10, <1>11, <1>12, <1>13

(* An insertion at the spot of an absent key keeps a table sound.          *)
LEMMA PlaceKeeps ==
  ASSUME NEW t, Sound(t), t.num < t.max,
         NEW node \in Entry, node.key \notin KeysOf(t), NEW y, IsSpot(t, node.key, y),
         NEW u, u = Place(t, ProbeOf(t, node.key, y), node)
  PROVE  /\ Sound(u) /\ SameSize(u, t)
         /\ u.num = t.num + 1 /\ (u.max = 0 \/ u.max = t.max)
         /\ Entries(u) = Entries(t) \cup {node}
<1> DEFINE e == GapFor(t, y)
<1>1. IsTable(t) /\ CountIsRight(t) /\ node.key \in Keys
  BY DEF Sound, Entry
<1>2. /\ t.max # 0 /\ t.num < calcMaxNumElementsAllowed(t.mask + 1) /\ t.num \in Nat
      /\ calcMaxNumElementsAllowed(t.mask + 1) \in Nat
  <2>1. t.num \in Nat /\ t.max \in {0, calcMaxNumElementsAllowed(t.mask + 1)} /\ t.mask \in Nat
    BY <1>1 DEF IsTable
  <2>2. calcMaxNumElementsAllowed(t.mask + 1) \in Nat
    BY <2>1, AllowedGrows
  <2> QED BY <2>1, <2>2
<1>3. PlacedAt(u, t, node, y, e)
  BY PlaceIs
<1>4. MayPlace(t, node, y, e)
  BY <1>1, <1>2, GapIs DEF MayPlace
<1> HIDE DEF e
<1>5. /\ IsTable(u) /\ BytesHaveRoom(u) /\ SentinelStands(u) /\ BytesTell(u) /\ RunsRise(u)
      /\ KeysDiffer(u) /\ Entries(u) = Entries(t) \cup {node}
      /\ Nodes(u) = Nodes(t) \cup {e} /\ e \notin Nodes(t)
  BY <1>3, <1>4, PlacedIsTable, PlacedTells, PlacedRises, PlacedKeysDiffer
<1>6. SameSize(u, t) /\ u.num = t.num + 1 /\ (u.max = 0 \/ u.max = t.max)
  BY <1>3 DEF PlacedAt
<1>7. CountIsRight(u)
  <2>1. Cardinality(Nodes(u)) = Cardinality(Nodes(t)) + 1
    BY <1>1, <1>5, NodesAreFinite, FS_AddElement
  <2>2. u.mask = t.mask /\ t.num = Cardinality(Nodes(t))
    BY <1>1, <1>6 DEF SameSize, CountIsRight
  <2> QED BY <1>2, <1>6, <2>1, <2>2 DEF CountIsRight
<1> QED BY <1>5, <1>6, <1>7 DEF Sound

(***************************************************************************)
(* try_increase_info.                                                      *)
(***************************************************************************)
(* Halving the unit halves the bytes that nodes would have.                *)
LEMMA HalvedByte ==
  ASSUME NEW t, IsTable(t), NEW u, NEW c \in Nat \ {0}, t.inc = 2 * c,
         u.inc = c, u.shift = t.shift + 1, u.hash = t.hash, u.mult = t.mult, u.mask = t.mask,
         NEW key \in Keys, NEW x \in Nat, Home(t, key) <= x
  PROVE  Home(u, key) = Home(t, key) /\ Byte(u, key, x) = Byte(t, key, x) \div 2
<1> DEFINE g == t.hash[t.mult][key]
           P == Pow2[t.shift]
           low == (g % InitialInfoInc) \div P
           h == Home(t, key)
           m == (x - h) * c
<1>1. g \in Nat /\ t.shift \in Nat /\ InitialInfoInc \in Nat \ {0}
  BY TableAssumption DEF IsTable, UsesHash, UsesUnit
<1>2. P \in Nat \ {0} /\ Pow2[t.shift + 1] = 2 * P
  BY <1>1, PowersDefined
<1>3. g % InitialInfoInc \in Nat
  <2> HIDE DEF g
  <2>1. g % InitialInfoInc \in 0 .. InitialInfoInc - 1
    BY <1>1, QuotientBounds
  <2> QED BY <1>1, <2>1
<1>4. low \in Nat /\ (g % InitialInfoInc) \div (2 * P) = low \div 2
  <2> HIDE DEF g, P
  <2> QED BY <1>2, <1>3, QuotientBounds, HalvesTwice
<1>5. h \in Nat /\ h <= x
  BY ProbeStarts
<1>6. Home(u, key) = h
  BY DEF Home, keyToIdx
<1>7. /\ keyToIdx(t, key).info = 2 * c + low
      /\ keyToIdx(u, key).info = c + (g % InitialInfoInc) \div (2 * P)
  BY <1>2 DEF keyToIdx
<1> HIDE DEF g, P, low, h
<1>8. Byte(t, key, x) = (2 * c + low) + (x - h) * (2 * c)
  BY <1>7 DEF Byte, h
<1>9. Byte(u, key, x) = (c + low \div 2) + m
  BY <1>4, <1>6, <1>7 DEF Byte
<1>10. (x - h) * (2 * c) = 2 * m /\ m \in Nat
  <2>1. x - h \in Nat
    BY <1>5
  <2>2. \A a \in Nat : a * (2 * c) = 2 * (a * c) /\ a * c \in Nat
    OBVIOUS
  <2> QED BY <2>1, <2>2
<1> HIDE DEF m
<1>11. ((2 * c + low) + 2 * m) \div 2 = (c + low \div 2) + m
  BY <1>4, <1>10
<1> QED BY <1>6, <1>8, <1>9, <1>10, <1>11 DEF h

(* What try_increase_info does to each member.                             *)
LEMMA IncreaseFields ==
  ASSUME NEW t, IsRecord(t), NEW u, u = try_increase_info(t)
  PROVE  /\ IsRecord(u)
         /\ u.hash = t.hash /\ u.mult = t.mult /\ u.num = t.num /\ u.mask = t.mask
         /\ u.node = t.node /\ u.inc = t.inc \div 2 /\ u.shift = t.shift + 1
         /\ u.max = calcMaxNumElementsAllowed(t.mask + 1)
         /\ u.info = [x \in DOMAIN t.info |-> IF x = End(t) THEN 1 ELSE t.info[x] \div 2]
<1> DEFINE I == [x \in DOMAIN t.info |-> IF x = End(t) THEN 1 ELSE t.info[x] \div 2]
           m == calcMaxNumElementsAllowed(t.mask + 1)
           c == t.inc \div 2
           s == t.shift + 1
<1>1. u = [t EXCEPT !.inc = c, !.shift = s, !.info = I, !.max = m]
  BY DEF try_increase_info
<1> HIDE DEF I, m, c, s
<1>2. /\ IsRecord(u)
      /\ u.hash = t.hash /\ u.mult = t.mult /\ u.num = t.num /\ u.mask = t.mask
      /\ u.node = t.node /\ u.inc = c /\ u.shift = s
      /\ u.max = m /\ u.info = I
  BY <1>1 DEF IsRecord
<1> QED BY <1>2 DEF I, m, c, s

(* Halving keeps a table sound, with its entries.                          *)
LEMMA IncreaseKeeps ==
  ASSUME NEW t, Sound(t), CanIncreaseInfo(t), t.mask # 0, NEW u, u = try_increase_info(t)
  PROVE  /\ Sound(u)
         /\ u.hash = t.hash /\ u.mult = t.mult /\ u.num = t.num /\ u.mask = t.mask
         /\ u.max = calcMaxNumElementsAllowed(t.mask + 1)
         /\ Entries(u) = Entries(t)
<1>1. IsTable(t) /\ IsRecord(t) /\ BytesTell(t) /\ SentinelStands(t) /\ RunsRise(t)
      /\ KeysDiffer(t) /\ CountIsRight(t)
  BY DEF Sound, IsTable
<1>2. /\ IsRecord(u)
      /\ u.hash = t.hash /\ u.mult = t.mult /\ u.num = t.num /\ u.mask = t.mask
      /\ u.node = t.node /\ u.inc = t.inc \div 2 /\ u.shift = t.shift + 1
      /\ u.max = calcMaxNumElementsAllowed(t.mask + 1)
      /\ u.info = [x \in DOMAIN t.info |-> IF x = End(t) THEN 1 ELSE t.info[x] \div 2]
  BY <1>1, IncreaseFields
<1>3. PICK c \in Nat \ {0} : t.inc = 2 * c /\ \E j \in Nat \ {0} : c = Pow2[j]
  BY <1>1, UnitIsEven DEF IsTable, CanIncreaseInfo
<1>4. u.inc = c
  BY <1>2, <1>3
<1>5. /\ End(u) = End(t) /\ End(t) \in Nat /\ calcNumBytesInfo(End(t)) \in Nat
      /\ End(t) + 3 <= calcNumBytesInfo(End(t))
      /\ t.num \in Nat /\ t.mask \in Nat /\ t.shift \in Nat /\ MaxInfo \in Nat
  BY <1>1, <1>2, EndIs, TableAssumption DEF IsTable, UsesUnit, End
<1>6. /\ DOMAIN t.info = 0 .. calcNumBytesInfo(End(t)) - 1
      /\ \A x \in DOMAIN t.info : t.info[x] \in Nat /\ t.info[x] <= MaxInfo
  BY <1>1, BytesAreBytes DEF IsTable
<1>7. \A x \in DOMAIN t.info :
        /\ u.info[x] = IF x = End(t) THEN 1 ELSE t.info[x] \div 2
        /\ u.info[x] \in Nat /\ u.info[x] <= MaxInfo
  <2>1. MaxInfo >= 1
    BY TableAssumption
  <2> TAKE x \in DOMAIN t.info
  <2>2. u.info[x] = IF x = End(t) THEN 1 ELSE t.info[x] \div 2
    BY <1>2
  <2>3. t.info[x] \div 2 \in Nat /\ t.info[x] \div 2 <= MaxInfo
    BY <1>5, <1>6, SMTT(30)
  <2> QED BY <2>1, <2>2, <2>3
<1>8. IsTable(u)
  <2>1. u.info \in [0 .. calcNumBytesInfo(End(t)) - 1 -> 0 .. MaxInfo]
    <3>1. u.info = [x \in DOMAIN t.info |-> u.info[x]]
      BY <1>2
    <3> QED BY <1>5, <1>6, <1>7, <3>1
  <2>2. UsesHash(u)
    BY <1>1, <1>2 DEF IsTable, UsesHash
  <2>3. UsesUnit(u)
    <3>1. Pow2[t.shift + 1] = 2 * Pow2[t.shift] /\ Pow2[t.shift] \in Nat
      BY <1>5, PowersDefined
    <3>2. (2 * c) * Pow2[t.shift] = InitialInfoInc
      BY <1>1, <1>3 DEF IsTable, UsesUnit
    <3>3. \A p \in Nat : (2 * c) * p = c * (2 * p)
      OBVIOUS
    <3> QED BY <1>2, <1>3, <1>4, <1>5, <3>1, <3>2, <3>3 DEF UsesUnit
  <2>4. u.node \in [0 .. End(t) - 1 -> Entry \cup {NoNode}]
    BY <1>1, <1>2 DEF IsTable
  <2> QED BY <1>2, <1>5, <2>1, <2>2, <2>3, <2>4 DEF IsTable
<1>9. \A x \in 0 .. End(t) - 1 : /\ x \in DOMAIN t.info /\ x \in Nat
                                 /\ u.info[x] = t.info[x] \div 2
  <2> TAKE x \in 0 .. End(t) - 1
  <2>1. x \in Nat /\ x # End(t) /\ x \in 0 .. calcNumBytesInfo(End(t)) - 1
    BY <1>5
  <2>2. x \in DOMAIN t.info
    BY <1>6, <2>1
  <2> QED BY <1>7, <2>1, <2>2
<1>10. t.inc >= 4 /\ t.inc \in Nat
  BY <1>3 DEF CanIncreaseInfo
<1>11. ASSUME NEW x \in 0 .. End(t) - 1
       PROVE  /\ \/ u.info[x] = 0 /\ u.node[x] = NoNode
                 \/ /\ u.info[x] # 0 /\ u.node[x] \in Entry
                    /\ Home(u, u.node[x].key) <= x
                    /\ u.info[x] = Byte(u, u.node[x].key, x)
              /\ u.info[x] # 0 <=> t.info[x] # 0
  <2>1. CASE t.info[x] = 0 /\ t.node[x] = NoNode
    <3>1. u.info[x] = 0
      BY <1>9, <2>1
    <3> QED BY <1>2, <2>1, <3>1
  <2>2. CASE /\ t.info[x] # 0 /\ t.node[x] \in Entry
             /\ Home(t, t.node[x].key) <= x
             /\ t.info[x] = Byte(t, t.node[x].key, x)
    <3> DEFINE k == t.node[x].key
    <3>1. k \in Keys /\ x \in Nat
      BY <1>9, <2>2 DEF Entry
    <3>2. Home(u, k) = Home(t, k) /\ Byte(u, k, x) = Byte(t, k, x) \div 2
      BY <1>1, <1>2, <1>3, <1>4, <2>2, <3>1, HalvedByte
    <3>3. Byte(t, k, x) \in Nat /\ Byte(t, k, x) >= t.inc
      BY <1>1, <2>2, <3>1, BytesStep
    <3>4. u.info[x] # 0
      BY <1>9, <1>10, <2>2, <3>3
    <3> QED BY <1>2, <1>9, <2>2, <3>2, <3>4
  <2> QED BY <1>1, <2>1, <2>2 DEF BytesTell
<1>12. BytesTell(u)
  BY <1>5, <1>11 DEF BytesTell
<1>13. Nodes(u) = Nodes(t)
  BY <1>2 DEF Nodes
<1>14. SentinelStands(u)
  <2> SUFFICES ASSUME NEW x \in End(t) .. calcNumBytesInfo(End(t)) - 1
               PROVE  u.info[x] = IF x = End(t) /\ t.mask # 0 THEN 1 ELSE 0
    BY <1>2, <1>5 DEF SentinelStands
  <2>1. x \in DOMAIN t.info
    BY <1>5, <1>6
  <2>2. t.info[x] = IF x = End(t) /\ t.mask # 0 THEN 1 ELSE 0
    BY <1>1 DEF SentinelStands
  <2>3. 0 \div 2 = 0
    OBVIOUS
  <2> QED BY <1>7, <2>1, <2>2, <2>3
<1>15. RunsRise(u)
  <2> SUFFICES ASSUME NEW x \in 0 .. End(t)
               PROVE  u.info[x] < 2 * c \/ (x > 0 /\ u.info[x] <= u.info[x - 1] + c)
    BY <1>4, <1>5 DEF RunsRise
  <2>1. CASE x = End(t)
    <3>1. u.info[x] = 1
      BY <1>5, <1>6, <1>7, <2>1
    <3> QED BY <3>1
  <2>2. CASE x # End(t)
    <3>1. x \in 0 .. End(t) - 1 /\ (x > 0 => x - 1 \in 0 .. End(t) - 1)
      BY <1>5, <2>2
    <3>2. /\ u.info[x] = t.info[x] \div 2 /\ t.info[x] \in Nat
          /\ x > 0 => u.info[x - 1] = t.info[x - 1] \div 2 /\ t.info[x - 1] \in Nat
      BY <1>6, <1>9, <3>1
    <3>3. t.info[x] < 2 * t.inc \/ (x > 0 /\ t.info[x] <= t.info[x - 1] + t.inc)
      BY <1>1 DEF RunsRise
    <3>4. \A a \in Nat : a < 2 * (2 * c) => a \div 2 < 2 * c
      OBVIOUS
    <3>5. \A a \in Nat, b \in Nat : a <= b + 2 * c => a \div 2 <= (b \div 2) + c
      OBVIOUS
    <3> QED BY <1>3, <3>2, <3>3, <3>4, <3>5
  <2> QED BY <2>1, <2>2
<1>16. KeysDiffer(u)
  BY <1>1, <1>2, <1>5 DEF KeysDiffer
<1>17. BytesHaveRoom(u)
  <2> SUFFICES ASSUME NEW x \in 0 .. End(t) - 1 PROVE u.info[x] + c <= MaxInfo
    BY <1>4, <1>5 DEF BytesHaveRoom
  <2>1. 2 * c <= MaxInfo
    <3>1. t.inc <= InitialInfoInc
      <4>1. Pow2[t.shift] \in Nat \ {0} /\ t.inc * Pow2[t.shift] = InitialInfoInc
        BY <1>1, <1>5, PowersDefined DEF IsTable, UsesUnit
      <4> QED BY <1>10, <4>1, ProductPositive
    <3> QED BY <1>3, <3>1, TableAssumption
  <2>2. u.info[x] = t.info[x] \div 2 /\ t.info[x] \in Nat /\ t.info[x] <= MaxInfo
    BY <1>6, <1>9
  <2> QED BY <1>5, <2>1, <2>2
<1>18. CountIsRight(u)
  BY <1>1, <1>2, <1>13 DEF CountIsRight
<1>19. Entries(u) = Entries(t)
  BY <1>2, <1>13 DEF Entries
<1> QED BY <1>2, <1>8, <1>12, <1>14, <1>15, <1>16, <1>17, <1>18, <1>19 DEF Sound

(***************************************************************************)
(* Tables without nodes.                                                   *)
(***************************************************************************)
(* A table without nodes.                                                  *)
IsEmpty(u) ==
  /\ IsTable(u) /\ SentinelStands(u) /\ u.num = 0
  /\ \A x \in 0 .. End(u) - 1 : u.info[x] = 0 /\ u.node[x] = NoNode

(* They are sound.                                                         *)
LEMMA EmptyIsSound ==
  ASSUME NEW u, IsEmpty(u)
  PROVE  Sound(u) /\ Entries(u) = {} /\ KeysOf(u) = {} /\ Nodes(u) = {}
<1>1. /\ IsTable(u) /\ SentinelStands(u) /\ u.num = 0
      /\ \A x \in 0 .. End(u) - 1 : u.info[x] = 0 /\ u.node[x] = NoNode
  BY DEF IsEmpty
<1>2. BytesTell(u)
  BY <1>1 DEF BytesTell
<1>3. Nodes(u) = {}
  BY <1>1, <1>2, NodesAre
<1>4. /\ End(u) \in Nat /\ calcNumBytesInfo(End(u)) \in Nat /\ u.mask \in Nat
      /\ End(u) + 3 <= calcNumBytesInfo(End(u))
  BY <1>1, EndIs DEF IsTable
<1>5. \E c \in Nat \ {0} : u.inc = 2 * c
  BY <1>1, UnitIsEven DEF IsTable
<1>6. RunsRise(u)
  <2> SUFFICES ASSUME NEW x \in 0 .. End(u) PROVE u.info[x] < 2 * u.inc
    BY DEF RunsRise
  <2>1. x \in 0 .. End(u) - 1 \/ x \in End(u) .. calcNumBytesInfo(End(u)) - 1
    BY <1>4
  <2>2. u.info[x] = 0 \/ u.info[x] = 1
    BY <1>1, <2>1 DEF SentinelStands
  <2> QED BY <1>5, <2>2
<1>7. KeysDiffer(u)
  BY <1>1 DEF KeysDiffer
<1>8. BytesHaveRoom(u)
  <2>1. u.inc <= InitialInfoInc /\ u.inc \in Nat
    <3>1. /\ Pow2[u.shift] \in Nat \ {0} /\ u.inc * Pow2[u.shift] = InitialInfoInc
          /\ u.inc \in Nat
      BY <1>1, PowersDefined DEF IsTable, UsesUnit
    <3> QED BY <3>1, ProductPositive
  <2>2. InitialInfoInc <= MaxInfo /\ InitialInfoInc \in Nat /\ MaxInfo \in Nat
    BY TableAssumption
  <2> QED BY <1>1, <2>1, <2>2 DEF BytesHaveRoom
<1>9. CountIsRight(u)
  <2>1. Cardinality(Nodes(u)) = 0
    BY <1>3, FS_EmptySet
  <2>2. calcMaxNumElementsAllowed(u.mask + 1) \in Nat
    BY <1>4, AllowedGrows
  <2> QED BY <1>1, <2>1, <2>2 DEF CountIsRight
<1> QED BY <1>1, <1>2, <1>3, <1>6, <1>7, <1>8, <1>9 DEF Sound, Entries, KeysOf

(* The info bytes of a table that holds nothing.                           *)
NoBytes(u) == [x \in 0 .. calcNumBytesInfo(End(u)) - 1 |-> IF x = End(u) /\ u.mask # 0 THEN 1 ELSE 0]

(* What makes a table one of them.                                         *)
LEMMA EmptyIf ==
  ASSUME NEW u, IsRecord(u), UsesHash(u), UsesUnit(u), u.num = 0, u.mask \in Nat,
         u.max \in {0, calcMaxNumElementsAllowed(u.mask + 1)},
         u.info = NoBytes(u), u.node = [x \in 0 .. End(u) - 1 |-> NoNode]
  PROVE  IsEmpty(u)
<1>1. /\ End(u) \in Nat /\ calcNumBytesInfo(End(u)) \in Nat
      /\ End(u) + 3 <= calcNumBytesInfo(End(u))
  BY EndIs
<1>2. MaxInfo \in Nat /\ MaxInfo >= 1
  BY TableAssumption
<1>3. u.info \in [0 .. calcNumBytesInfo(End(u)) - 1 -> 0 .. MaxInfo]
  BY <1>2 DEF NoBytes
<1>4. u.node \in [0 .. End(u) - 1 -> Entry \cup {NoNode}]
  OBVIOUS
<1>5. IsTable(u)
  BY <1>3, <1>4 DEF IsTable
<1>6. SentinelStands(u)
  <2> SUFFICES ASSUME NEW x \in End(u) .. calcNumBytesInfo(End(u)) - 1
               PROVE  u.info[x] = IF x = End(u) /\ u.mask # 0 THEN 1 ELSE 0
    BY DEF SentinelStands
  <2>1. x \in 0 .. calcNumBytesInfo(End(u)) - 1
    BY <1>1
  <2> QED BY <2>1 DEF NoBytes
<1>7. ASSUME NEW x \in 0 .. End(u) - 1 PROVE u.info[x] = 0 /\ u.node[x] = NoNode
  <2>1. x \in 0 .. calcNumBytesInfo(End(u)) - 1 /\ x # End(u)
    BY <1>1
  <2> QED BY <2>1 DEF NoBytes
<1> QED BY <1>5, <1>6, <1>7 DEF IsEmpty

(* The initial unit of the info bytes.                                     *)
LEMMA FirstUnit ==
  ASSUME NEW u, u.inc = InitialInfoInc, u.shift = 0
  PROVE  UsesUnit(u)
<1>1. PICK j \in 1 .. InitialInfoInc : InitialInfoInc = Pow2[j]
  BY TableAssumption
<1>2. InitialInfoInc \in Nat /\ j \in Nat \ {0} /\ Pow2[0] = 1
  BY <1>1, PowersDefined, TableAssumption
<1> QED BY <1>1, <1>2 DEF UsesUnit

(* initData makes an empty table of the size asked for.                    *)
LEMMA InitDataKeeps ==
  ASSUME NEW t, IsRecord(t), UsesHash(t), NEW buckets \in Nat, buckets >= 2,
         NEW u, u = initData(t, buckets)
  PROVE  /\ IsEmpty(u) /\ u.hash = t.hash /\ u.mult = t.mult /\ u.mask = buckets - 1
         /\ u.max = calcMaxNumElementsAllowed(buckets)
<1> DEFINE n == calcNumElementsWithBuffer(buckets)
           I == [x \in 0 .. calcNumBytesInfo(n) - 1 |-> IF x = n THEN 1 ELSE 0]
           N == [x \in 0 .. n - 1 |-> NoNode]
           m == buckets - 1
           a == calcMaxNumElementsAllowed(buckets)
<1>1. u = [t EXCEPT !.num = 0, !.mask = m, !.max = a,
                    !.inc = InitialInfoInc, !.shift = 0, !.info = I, !.node = N]
  BY DEF initData
<1>2. m \in Nat /\ m # 0 /\ m + 1 = buckets
  OBVIOUS
<1>3. /\ IsRecord(u) /\ u.hash = t.hash /\ u.mult = t.mult /\ u.num = 0 /\ u.mask = m
      /\ u.max = a /\ u.inc = InitialInfoInc /\ u.shift = 0 /\ u.info = I /\ u.node = N
  <2> HIDE DEF I, N, m, a
  <2> QED BY <1>1 DEF IsRecord
<1>4. End(u) = n
  BY <1>2, <1>3 DEF End
<1>5. UsesHash(u) /\ UsesUnit(u)
  BY <1>3, FirstUnit DEF UsesHash
<1>6. u.info = NoBytes(u) /\ u.node = [x \in 0 .. End(u) - 1 |-> NoNode]
  <2> HIDE DEF n, m, a
  <2> QED BY <1>2, <1>3, <1>4 DEF NoBytes
<1>7. u.max \in {0, calcMaxNumElementsAllowed(u.mask + 1)}
  BY <1>2, <1>3
<1>8. IsEmpty(u)
  <2> HIDE DEF n, I, N, m, a
  <2> QED BY <1>2, <1>3, <1>5, <1>6, <1>7, EmptyIf
<1> QED BY <1>3, <1>8

(* A table of one bucket has no slot for a node.                           *)
LEMMA UnusedIsEmpty ==
  ASSUME NEW u, IsRecord(u), UsesHash(u), u.num = 0, u.mask = 0, u.max = 0,
         u.inc = InitialInfoInc, u.shift = 0,
         u.info = [i \in 0 .. InitialNumElements - 1 |-> 0], u.node = << >>
  PROVE  IsEmpty(u)
<1>1. End(u) = 0 /\ 0 + InitialNumElements = InitialNumElements
  BY TableAssumption DEF End
<1>2. calcNumBytesInfo(End(u)) = InitialNumElements
  BY <1>1 DEF calcNumBytesInfo
<1>3. u.info = NoBytes(u)
  BY <1>2 DEF NoBytes
<1>4. u.node = [x \in 0 .. End(u) - 1 |-> NoNode]
  <2>1. 0 .. End(u) - 1 = {}
    BY <1>1
  <2>2. << >> = [x \in {} |-> NoNode]
    OBVIOUS
  <2> QED BY <2>1, <2>2
<1>5. UsesUnit(u)
  BY FirstUnit
<1> QED BY <1>3, <1>4, <1>5, EmptyIf

(* A new table is empty.                                                   *)
LEMMA FreshIsEmpty ==
  ASSUME NEW hash \in [0 .. Multipliers - 1 -> [Keys -> Nat]]
  PROVE  IsEmpty(Fresh(hash)) /\ Fresh(hash).hash = hash /\ Fresh(hash).mask = 0
<1> DEFINE u == Fresh(hash)
           I == [i \in 0 .. InitialNumElements - 1 |-> 0]
<1>1. u = [hash |-> hash, mult |-> 0, num |-> 0, mask |-> 0, max |-> 0,
           inc |-> InitialInfoInc, shift |-> 0, info |-> I, node |-> << >>]
  BY DEF Fresh
<1>2. /\ IsRecord(u) /\ u.hash = hash /\ u.mult = 0 /\ u.num = 0 /\ u.mask = 0
      /\ u.max = 0 /\ u.inc = InitialInfoInc /\ u.shift = 0 /\ u.info = I /\ u.node = << >>
  <2> HIDE DEF I, u
  <2> QED BY <1>1 DEF IsRecord
<1>3. UsesHash(u)
  BY <1>2, TableAssumption DEF UsesHash
<1> HIDE DEF u
<1>4. IsEmpty(u)
  BY <1>2, <1>3, UnusedIsEmpty
<1> QED BY <1>2, <1>4 DEF u

(* So is one after init.                                                   *)
LEMMA InitIsEmpty ==
  ASSUME NEW t, UsesHash(t)
  PROVE  IsEmpty(init(t)) /\ init(t).hash = t.hash /\ init(t).mask = 0
<1> DEFINE u == init(t)
           I == [i \in 0 .. InitialNumElements - 1 |-> 0]
<1>2. /\ IsRecord(u) /\ u.hash = t.hash /\ u.mult = t.mult /\ u.num = 0 /\ u.mask = 0
      /\ u.max = 0 /\ u.inc = InitialInfoInc /\ u.shift = 0 /\ u.info = I /\ u.node = << >>
  <2> DEFINE v == Fresh(t.hash)
             m == t.mult
  <2>1. v = [hash |-> t.hash, mult |-> 0, num |-> 0, mask |-> 0, max |-> 0,
             inc |-> InitialInfoInc, shift |-> 0, info |-> I, node |-> << >>]
    BY DEF Fresh
  <2>2. u = [v EXCEPT !.mult = m]
    BY DEF init
  <2> HIDE DEF u, v, I, m
  <2>3. /\ IsRecord(u) /\ u.hash = t.hash /\ u.mult = m /\ u.num = 0 /\ u.mask = 0
        /\ u.max = 0 /\ u.inc = InitialInfoInc /\ u.shift = 0 /\ u.info = I /\ u.node = << >>
    BY <2>1, <2>2 DEF IsRecord
  <2> QED BY <2>3 DEF m
<1>3. UsesHash(u)
  BY <1>2 DEF UsesHash
<1> HIDE DEF u
<1>4. IsEmpty(u)
  BY <1>2, <1>3, UnusedIsEmpty
<1> QED BY <1>2, <1>4 DEF u

(* clear leaves a sound table without entries.                             *)
LEMMA ClearKeeps ==
  ASSUME NEW t, Sound(t), NEW u, u = clear(t)
  PROVE  Sound(u) /\ Entries(u) = {} /\ u.hash = t.hash /\ u.mask = t.mask
<1>1. IsTable(t) /\ IsRecord(t) /\ CountIsRight(t) /\ UsesHash(t)
  BY DEF Sound, IsTable
<1>2. CASE t.num = 0
  <2>1. u = t
    BY <1>2 DEF clear
  <2>2. Nodes(t) = {}
    BY <1>1, <1>2, NodesAreFinite, FS_EmptySet DEF CountIsRight
  <2> QED BY <2>1, <2>2 DEF Entries
<1>3. CASE t.num # 0
  <2> DEFINE I == [i \in DOMAIN t.info |-> IF i = End(t) THEN 1 ELSE 0]
             N == [i \in DOMAIN t.node |-> NoNode]
  <2>1. u = [t EXCEPT !.num = 0, !.inc = InitialInfoInc, !.shift = 0, !.info = I, !.node = N]
    BY <1>3 DEF clear
  <2>2. /\ IsRecord(u) /\ u.hash = t.hash /\ u.mult = t.mult /\ u.num = 0 /\ u.mask = t.mask
        /\ u.max = t.max /\ u.inc = InitialInfoInc /\ u.shift = 0 /\ u.info = I /\ u.node = N
    <3> HIDE DEF I, N
    <3> QED BY <1>1, <2>1 DEF IsRecord
  <2>3. t.mask # 0
    <3>1. t.num <= calcMaxNumElementsAllowed(t.mask + 1) /\ t.num \in Nat
      BY <1>1 DEF CountIsRight, IsTable
    <3>2. t.mask = 0 => calcMaxNumElementsAllowed(t.mask + 1) = 0
      <4>1. \A a \in 11 .. 99 : (1 * a) \div 100 = 0
        OBVIOUS
      <4> QED BY <4>1, TableAssumption DEF calcMaxNumElementsAllowed
    <3> QED BY <1>3, <3>1, <3>2
  <2>4. End(u) = End(t)
    BY <2>2 DEF End
  <2>5. /\ DOMAIN t.info = 0 .. calcNumBytesInfo(End(t)) - 1 /\ DOMAIN t.node = 0 .. End(t) - 1
        /\ t.mask \in Nat /\ t.max \in {0, calcMaxNumElementsAllowed(t.mask + 1)}
    BY <1>1 DEF IsTable
  <2>6. u.info = NoBytes(u) /\ u.node = [x \in 0 .. End(u) - 1 |-> NoNode]
    BY <2>2, <2>3, <2>4, <2>5 DEF NoBytes
  <2>7. UsesHash(u) /\ UsesUnit(u)
    BY <1>1, <2>2, FirstUnit DEF UsesHash
  <2>8. IsEmpty(u)
    <3> HIDE DEF I, N
    <3> QED BY <2>2, <2>5, <2>6, <2>7, EmptyIf
  <2> QED BY <2>2, <2>8, EmptyIsSound
<1> QED BY <1>2, <1>3

(***************************************************************************)
(* A removal moves the rest of its run down.                               *)
(***************************************************************************)
(* u is t without its node in slot i: those of i + 1 .. e moved down by one. *)
RemovedAt(u, t, i, e) ==
  /\ IsRecord(u) /\ SameSize(u, t) /\ u.num = t.num - 1 /\ u.max = t.max
  /\ u.info = [x \in DOMAIN t.info |-> u.info[x]]
  /\ u.node = [x \in DOMAIN t.node |-> u.node[x]]
  /\ u.info[e] = 0 /\ u.node[e] = NoNode
  /\ \A x \in i .. e - 1 : u.info[x] = t.info[x + 1] - t.inc /\ u.node[x] = t.node[x + 1]
  /\ \A x \in DOMAIN t.info : x < i \/ x > e => u.info[x] = t.info[x]
  /\ \A x \in DOMAIN t.node : x < i \/ x > e => u.node[x] = t.node[x]

(* The last slot of the part of a run that moves.                          *)
MovesTo(t, i) == First({x \in i .. End(t) - 1 : t.info[x + 1] < 2 * t.inc})

(* What is known of it.                                                    *)
MayRemove(t, i, e) ==
  /\ Sound(t) /\ i \in Nodes(t) /\ i \in Nat /\ e \in Nat /\ i <= e /\ e < End(t)
  /\ t.info[i] # 0 /\ t.node[i] \in Entry
  /\ t.info[e + 1] < 2 * t.inc
  /\ \A x \in i .. e - 1 : t.info[x + 1] >= 2 * t.inc

(* There is a last slot that moves, before the end of the slots.           *)
LEMMA RunEnds ==
  ASSUME NEW t, Sound(t), NEW i \in Nodes(t)
  PROVE  MayRemove(t, i, MovesTo(t, i))
<1> DEFINE S == {x \in i .. End(t) - 1 : t.info[x + 1] < 2 * t.inc}
<1>1. IsTable(t) /\ BytesTell(t) /\ SentinelStands(t)
  BY DEF Sound
<1>2. i \in Nat /\ i < End(t) /\ End(t) \in Nat /\ t.info[i] # 0 /\ t.node[i] \in Entry
  BY <1>1, NodesAre
<1>3. /\ t.mask # 0 /\ calcNumBytesInfo(End(t)) \in Nat
      /\ End(t) + 3 <= calcNumBytesInfo(End(t))
  BY <1>1, <1>2, EndIs DEF IsTable
<1>4. t.inc \in Nat /\ t.inc >= 2
  <2>1. \E c \in Nat \ {0} : t.inc = 2 * c
    BY <1>1, UnitIsEven DEF IsTable
  <2> QED BY <2>1
<1>5. End(t) - 1 \in S
  <2>1. End(t) \in End(t) .. calcNumBytesInfo(End(t)) - 1
    BY <1>2, <1>3
  <2>2. t.info[End(t)] = 1
    BY <1>1, <1>3, <2>1 DEF SentinelStands
  <2>3. End(t) - 1 \in i .. End(t) - 1 /\ (End(t) - 1) + 1 = End(t)
    BY <1>2
  <2> QED BY <1>4, <2>2, <2>3
<1>6. S \in SUBSET Nat
  BY <1>2
<1>7. First(S) \in S /\ \A x \in S : First(S) <= x
  BY <1>5, <1>6, FirstIsLeast
<1>8. MovesTo(t, i) = First(S)
  BY DEF MovesTo
<1> DEFINE e == MovesTo(t, i)
<1>9. e \in i .. End(t) - 1 /\ t.info[e + 1] < 2 * t.inc
  BY <1>7, <1>8
<1> HIDE DEF e
<1>10. \A x \in i .. e - 1 : t.info[x + 1] >= 2 * t.inc
  <2> TAKE x \in i .. e - 1
  <2>1. x \in i .. End(t) - 1 /\ ~ (e <= x)
    BY <1>2, <1>9
  <2>2. ~ (t.info[x + 1] < 2 * t.inc)
    BY <1>7, <1>8, <2>1 DEF e
  <2>3. t.info[x + 1] \in Nat
    <3>1. x + 1 \in 0 .. calcNumBytesInfo(End(t)) - 1
      BY <1>2, <1>3, <2>1
    <3> QED BY <1>1, <3>1, BytesAreBytes
  <2> QED BY <1>4, <2>2, <2>3
<1>11. e \in Nat /\ i <= e /\ e < End(t)
  BY <1>2, <1>9
<1> QED BY <1>2, <1>9, <1>10, <1>11 DEF MayRemove, e

(* Removed does what RemovedAt says.                                       *)
LEMMA RemovedIs ==
  ASSUME NEW t, Sound(t), NEW i \in Nodes(t), NEW u, u = Removed(t, i)
  PROVE  RemovedAt(u, t, i, MovesTo(t, i))
<1> DEFINE e == MovesTo(t, i)
           I == [x \in DOMAIN t.info |->
                   CASE x \in i .. e - 1 -> t.info[x + 1] - t.inc
                     [] x = e -> 0
                     [] OTHER -> t.info[x]]
           N == [x \in DOMAIN t.node |->
                   CASE x \in i .. e - 1 -> t.node[x + 1]
                     [] x = e -> NoNode
                     [] OTHER -> t.node[x]]
           c == t.num - 1
<1>1. u = [t EXCEPT !.info = I, !.node = N, !.num = c]
  BY DEF Removed, MovesTo
<1>2. IsTable(t) /\ IsRecord(t)
  BY DEF Sound, IsTable
<1>3. /\ IsRecord(u) /\ SameSize(u, t) /\ u.num = c /\ u.max = t.max /\ u.info = I /\ u.node = N
  <2> HIDE DEF I, N, c
  <2> QED BY <1>1, <1>2 DEF IsRecord, SameSize
<1>4. /\ i \in Nat /\ e \in Nat /\ i <= e /\ e < End(t)
  BY RunEnds DEF MayRemove
<1>5. /\ DOMAIN t.info = 0 .. calcNumBytesInfo(End(t)) - 1 /\ DOMAIN t.node = 0 .. End(t) - 1
      /\ End(t) \in Nat /\ calcNumBytesInfo(End(t)) \in Nat
      /\ End(t) + 3 <= calcNumBytesInfo(End(t))
  BY <1>2, EndIs DEF IsTable
<1> HIDE DEF e
<1>6. e \in DOMAIN t.info /\ e \in DOMAIN t.node /\ e \notin i .. e - 1
  BY <1>4, <1>5
<1>7. \A x \in i .. e - 1 : x \in DOMAIN t.info /\ x \in DOMAIN t.node
  BY <1>4, <1>5
<1>8. \A x \in Nat : x < i \/ x > e => x # e /\ x \notin i .. e - 1
  BY <1>4
<1>9. \A x \in DOMAIN t.info : x \in Nat
  BY <1>5
<1>10. \A x \in DOMAIN t.node : x \in Nat
  BY <1>5
<1>11. u.info[e] = 0 /\ u.node[e] = NoNode
  BY <1>3, <1>6
<1>12. \A x \in i .. e - 1 : u.info[x] = t.info[x + 1] - t.inc /\ u.node[x] = t.node[x + 1]
  BY <1>3, <1>7
<1>13. \A x \in DOMAIN t.info : x < i \/ x > e => u.info[x] = t.info[x]
  BY <1>3, <1>8, <1>9
<1>14. \A x \in DOMAIN t.node : x < i \/ x > e => u.node[x] = t.node[x]
  BY <1>3, <1>8, <1>10
<1>15. u.info = [x \in DOMAIN t.info |-> u.info[x]] /\ u.node = [x \in DOMAIN t.node |-> u.node[x]]
  BY <1>3
<1> QED BY <1>3, <1>11, <1>12, <1>13, <1>14, <1>15 DEF RemovedAt, e

(* The bytes still tell distances, and one slot becomes empty.             *)
LEMMA RemovedTells ==
  ASSUME NEW t, NEW i, NEW e, MayRemove(t, i, e), NEW u, RemovedAt(u, t, i, e)
  PROVE  /\ IsTable(u) /\ SentinelStands(u) /\ BytesHaveRoom(u) /\ BytesTell(u)
         /\ End(u) = End(t)
         /\ Nodes(u) = Nodes(t) \ {e} /\ e \in Nodes(t)
<1>1. /\ IsTable(t) /\ BytesTell(t) /\ SentinelStands(t) /\ BytesHaveRoom(t) /\ CountIsRight(t)
      /\ i \in Nodes(t) /\ i \in Nat /\ e \in Nat /\ i <= e /\ e < End(t)
      /\ t.info[i] # 0 /\ t.node[i] \in Entry
      /\ t.info[e + 1] < 2 * t.inc
      /\ \A x \in i .. e - 1 : t.info[x + 1] >= 2 * t.inc
  BY DEF MayRemove, Sound
<1>2. /\ IsRecord(u) /\ SameSize(u, t) /\ u.num = t.num - 1 /\ u.max = t.max
      /\ u.info = [x \in DOMAIN t.info |-> u.info[x]]
      /\ u.node = [x \in DOMAIN t.node |-> u.node[x]]
      /\ u.info[e] = 0 /\ u.node[e] = NoNode
      /\ \A x \in i .. e - 1 : u.info[x] = t.info[x + 1] - t.inc /\ u.node[x] = t.node[x + 1]
      /\ \A x \in DOMAIN t.info : x < i \/ x > e => u.info[x] = t.info[x]
      /\ \A x \in DOMAIN t.node : x < i \/ x > e => u.node[x] = t.node[x]
  BY DEF RemovedAt
<1>3. /\ DOMAIN t.info = 0 .. calcNumBytesInfo(End(t)) - 1 /\ DOMAIN t.node = 0 .. End(t) - 1
      /\ End(t) \in Nat /\ calcNumBytesInfo(End(t)) \in Nat
      /\ End(t) + 3 <= calcNumBytesInfo(End(t)) /\ MaxInfo \in Nat
  BY <1>1, EndIs, TableAssumption DEF IsTable
<1>4. t.inc \in Nat /\ t.inc >= 2
  <2>1. \E c \in Nat \ {0} : t.inc = 2 * c
    BY <1>1, UnitIsEven DEF IsTable
  <2> QED BY <2>1
<1>5. \A x \in DOMAIN t.info : t.info[x] \in Nat /\ t.info[x] <= MaxInfo
  BY <1>1, <1>3, BytesAreBytes
<1>6. /\ End(u) = End(t) /\ \A k : Home(u, k) = Home(t, k)
      /\ \A k, x : Byte(u, k, x) = Byte(t, k, x)
      /\ u.inc = t.inc /\ u.mask = t.mask /\ u.hash = t.hash /\ u.mult = t.mult
      /\ u.shift = t.shift
  BY <1>2, SameProbes DEF SameSize
<1>7. ASSUME NEW x \in i .. e - 1
      PROVE  /\ x \in Nat /\ x + 1 \in Nat /\ x \in 0 .. End(t) - 1 /\ x + 1 \in 0 .. End(t) - 1
             /\ x + 1 \in DOMAIN t.info
             /\ t.node[x + 1] \in Entry /\ t.node[x + 1].key \in Keys
             /\ Home(t, t.node[x + 1].key) <= x
             /\ u.info[x] = Byte(t, t.node[x + 1].key, x) /\ u.info[x] >= t.inc
             /\ u.info[x] \in Nat /\ u.info[x] <= t.info[x + 1]
             /\ u.node[x] = t.node[x + 1]
  <2> DEFINE z == x + 1
  <2>1. /\ x \in Nat /\ z \in Nat /\ x \in 0 .. End(t) - 1 /\ z \in 0 .. End(t) - 1
        /\ z \in DOMAIN t.info
    BY <1>1, <1>3, SMTT(30)
  <2>2. t.info[z] >= 2 * t.inc /\ t.info[z] \in Nat /\ u.info[x] = t.info[z] - t.inc /\ u.node[x] = t.node[z]
    BY <1>1, <1>2, <1>5, <2>1
  <2>3. z \in Nodes(t)
    BY <1>1, <1>4, <2>1, <2>2, NodesAre
  <2> DEFINE k == t.node[z].key
  <2>4. t.node[z] \in Entry /\ k \in Keys /\ Home(t, k) <= z /\ t.info[z] = Byte(t, k, z)
    BY <1>1, <2>3, NodesAre
  <2>5. Home(t, k) \in Nat /\ z > Home(t, k)
    BY <1>1, <2>1, <2>2, <2>4, ProbeStarts, BytesStep
  <2>6. Home(t, k) <= x
    BY <2>1, <2>5
  <2>7. Byte(t, k, z) = Byte(t, k, x) + t.inc /\ Byte(t, k, x) \in Nat /\ Byte(t, k, x) >= t.inc
    BY <1>1, <2>1, <2>4, <2>6, BytesStep
  <2> HIDE DEF z
  <2>8. u.info[x] = Byte(t, k, x) /\ u.info[x] \in Nat /\ u.info[x] <= t.info[z]
        /\ u.info[x] >= t.inc
    BY <1>4, <2>2, <2>4, <2>7
  <2> QED BY <2>1, <2>2, <2>4, <2>6, <2>8 DEF z
<1>8. \A x \in Nat : x < i \/ x \in i .. e - 1 \/ x = e \/ x > e
  BY <1>1
<1>9. \A x \in DOMAIN t.info : u.info[x] \in 0 .. MaxInfo
  <2> TAKE x \in DOMAIN t.info
  <2>1. x \in Nat
    BY <1>3
  <2>2. t.info[x] \in 0 .. MaxInfo /\ 0 \in 0 .. MaxInfo
    BY <1>3, <1>5
  <2>3. CASE x \in i .. e - 1
    <3>1. u.info[x] \in Nat /\ u.info[x] <= t.info[x + 1] /\ t.info[x + 1] \in Nat
          /\ t.info[x + 1] <= MaxInfo
      BY <1>5, <1>7, <2>3
    <3> QED BY <1>3, <3>1
  <2> QED BY <1>2, <1>8, <2>1, <2>2, <2>3
<1>10. \A x \in DOMAIN t.node : u.node[x] \in Entry \cup {NoNode}
  <2> TAKE x \in DOMAIN t.node
  <2>1. x \in Nat
    BY <1>3
  <2>2. t.node[x] \in Entry \cup {NoNode}
    BY <1>1 DEF IsTable
  <2> QED BY <1>2, <1>7, <1>8, <2>1, <2>2
<1>11. t.num # 0 /\ t.num \in Nat
  <2>1. IsFiniteSet(Nodes(t)) /\ t.num = Cardinality(Nodes(t)) /\ t.num \in Nat
    BY <1>1, NodesAreFinite DEF CountIsRight
  <2>2. Nodes(t) # {}
    BY <1>1
  <2>3. Cardinality(Nodes(t)) = 0 <=> Nodes(t) = {}
    BY <2>1, FS_EmptySet
  <2> QED BY <2>1, <2>2, <2>3
<1>12. IsTable(u)
  <2>1. u.info \in [0 .. calcNumBytesInfo(End(t)) - 1 -> 0 .. MaxInfo]
    BY <1>2, <1>3, <1>9
  <2>2. u.node \in [0 .. End(t) - 1 -> Entry \cup {NoNode}]
    BY <1>2, <1>3, <1>10
  <2>3. UsesHash(u) /\ UsesUnit(u)
    BY <1>1, <1>6 DEF IsTable, UsesHash, UsesUnit
  <2>4. t.mask \in Nat /\ t.max \in {0, calcMaxNumElementsAllowed(t.mask + 1)}
    BY <1>1 DEF IsTable
  <2>5. u.num \in Nat
    BY <1>2, <1>11
  <2> QED BY <1>2, <1>6, <2>1, <2>2, <2>3, <2>4, <2>5 DEF IsTable
<1>13. SentinelStands(u)
  <2> SUFFICES ASSUME NEW x \in End(t) .. calcNumBytesInfo(End(t)) - 1
               PROVE  u.info[x] = IF x = End(t) /\ t.mask # 0 THEN 1 ELSE 0
    BY <1>6 DEF SentinelStands
  <2>1. x \in DOMAIN t.info /\ x > e
    BY <1>1, <1>3
  <2> QED BY <1>1, <1>2, <2>1 DEF SentinelStands
<1>14. ASSUME NEW x \in 0 .. End(t) - 1
       PROVE  /\ \/ u.info[x] = 0 /\ u.node[x] = NoNode
                 \/ /\ u.info[x] # 0 /\ u.node[x] \in Entry
                    /\ Home(u, u.node[x].key) <= x
                    /\ u.info[x] = Byte(u, u.node[x].key, x)
              /\ u.info[x] # 0 <=> t.info[x] # 0 /\ x # e
  <2>1. x \in Nat /\ x \in DOMAIN t.info /\ x \in DOMAIN t.node
    BY <1>3
  <2>2. CASE x \in i .. e - 1
    <3>0. x # e
      BY <1>1, <2>2
    <3>1. x # e /\ u.info[x] # 0
      BY <1>4, <1>7, <2>2, <3>0
    <3>2. t.info[x] # 0
      <4>1. CASE x = i
        BY <1>1, <4>1
      <4>2. CASE x # i
        <5>1. x - 1 \in i .. e - 1 /\ (x - 1) + 1 = x
          BY <1>1, <2>1, <2>2, <4>2
        <5>2. t.info[x] >= 2 * t.inc
          BY <1>1, <5>1
        <5> QED BY <1>4, <5>2
      <4> QED BY <4>1, <4>2
    <3>3. u.node[x] \in Entry /\ Home(t, u.node[x].key) <= x /\ u.info[x] = Byte(t, u.node[x].key, x)
      BY <1>7, <2>2
    <3> QED BY <1>6, <3>1, <3>2, <3>3
  <2>3. CASE x = e
    BY <1>2, <2>3
  <2>4. CASE x < i \/ x > e
    <3>0. x # e
      BY <1>1, <2>1, <2>4
    <3>1. x # e /\ u.info[x] = t.info[x] /\ u.node[x] = t.node[x]
      BY <1>2, <2>1, <2>4, <3>0
    <3> QED BY <1>1, <1>6, <3>1 DEF BytesTell
  <2> QED BY <1>8, <2>1, <2>2, <2>3, <2>4
<1>15. BytesTell(u)
  BY <1>6, <1>14 DEF BytesTell
<1>16. e \in 0 .. End(t) - 1 /\ t.info[e] # 0
  <2>1. CASE e = i
    BY <1>1, <1>3, <2>1
  <2>2. CASE e # i
    <3>1. e - 1 \in i .. e - 1 /\ (e - 1) + 1 = e
      BY <1>1, <2>2
    <3>2. t.info[e] >= 2 * t.inc
      BY <1>1, <3>1
    <3> QED BY <1>1, <1>3, <1>4, <3>2, SMTT(30)
  <2> QED BY <2>1, <2>2
<1>17. Nodes(u) = Nodes(t) \ {e} /\ e \in Nodes(t)
  <2>1. Nodes(u) = {x \in 0 .. End(t) - 1 : u.info[x] # 0}
    BY <1>6, <1>12, <1>15, NodesAre
  <2>2. Nodes(t) = {x \in 0 .. End(t) - 1 : t.info[x] # 0}
    BY <1>1, NodesAre
  <2> QED BY <1>14, <1>16, <2>1, <2>2
<1>18. BytesHaveRoom(u)
  <2> SUFFICES ASSUME t.max # 0, NEW x \in 0 .. End(t) - 1 PROVE u.info[x] + t.inc <= MaxInfo
    BY <1>2, <1>6 DEF BytesHaveRoom
  <2>1. x \in Nat /\ x \in DOMAIN t.info /\ \A z \in 0 .. End(t) - 1 : t.info[z] + t.inc <= MaxInfo
    BY <1>1, <1>3 DEF BytesHaveRoom
  <2>2. CASE x \in i .. e - 1
    <3>0. x + 1 \in DOMAIN t.info /\ x + 1 \in 0 .. End(t) - 1
      BY <1>7, <2>2
    <3>1. /\ u.info[x] \in Nat /\ u.info[x] <= t.info[x + 1] /\ t.info[x + 1] \in Nat
          /\ t.info[x + 1] + t.inc <= MaxInfo
      BY <1>5, <1>7, <2>1, <2>2, <3>0
    <3>2. ASSUME NEW a \in Nat, NEW b \in Nat, a <= b, b + t.inc <= MaxInfo PROVE a + t.inc <= MaxInfo
      <4>1. MaxInfo \in Nat
        BY <1>3
      <4> QED BY <1>4, <3>2, <4>1
    <3> QED BY <3>1, <3>2
  <2>3. CASE x = e
    <3>1. t.info[e] + t.inc <= MaxInfo /\ t.info[e] \in Nat
      BY <1>5, <2>1, <2>3
    <3> QED BY <1>2, <1>3, <1>4, <2>3, <3>1
  <2>4. CASE x < i \/ x > e
    BY <1>2, <2>1, <2>4
  <2> QED BY <1>8, <2>1, <2>2, <2>3, <2>4
<1> QED BY <1>6, <1>12, <1>13, <1>15, <1>17, <1>18

(* Runs still rise by one at most.                                         *)
LEMMA RemovedRises ==
  ASSUME NEW t, NEW i, NEW e, MayRemove(t, i, e), NEW u, RemovedAt(u, t, i, e)
  PROVE  RunsRise(u)
<1>1. /\ IsTable(t) /\ BytesTell(t) /\ RunsRise(t)
      /\ i \in Nodes(t) /\ i \in Nat /\ e \in Nat /\ i <= e /\ e < End(t)
      /\ t.info[e + 1] < 2 * t.inc
      /\ \A x \in i .. e - 1 : t.info[x + 1] >= 2 * t.inc
  BY DEF MayRemove, Sound
<1>2. /\ u.inc = t.inc /\ u.info[e] = 0
      /\ \A x \in i .. e - 1 : u.info[x] = t.info[x + 1] - t.inc
      /\ \A x \in DOMAIN t.info : x < i \/ x > e => u.info[x] = t.info[x]
  BY DEF RemovedAt, SameSize
<1>3. /\ DOMAIN t.info = 0 .. calcNumBytesInfo(End(t)) - 1
      /\ End(t) \in Nat /\ calcNumBytesInfo(End(t)) \in Nat
      /\ End(t) + 3 <= calcNumBytesInfo(End(t))
      /\ End(u) = End(t)
  BY <1>1, EndIs, RemovedTells DEF IsTable
<1>4. t.inc \in Nat /\ t.inc >= 2
  <2>1. \E c \in Nat \ {0} : t.inc = 2 * c
    BY <1>1, UnitIsEven DEF IsTable
  <2> QED BY <2>1
<1>5. \A x \in DOMAIN t.info : t.info[x] \in Nat
  BY <1>1, <1>3, BytesAreBytes
<1>6. \A x \in 0 .. End(t) : t.info[x] < 2 * t.inc \/ (x > 0 /\ t.info[x] <= t.info[x - 1] + t.inc)
  BY <1>1 DEF RunsRise
<1> SUFFICES ASSUME NEW x \in 0 .. End(t)
             PROVE  u.info[x] < 2 * t.inc \/ (x > 0 /\ u.info[x] <= u.info[x - 1] + t.inc)
  BY <1>2, <1>3 DEF RunsRise
<1>7. x \in Nat /\ x \in DOMAIN t.info
  BY <1>3
<1>8. x < i \/ (x = i /\ i < e) \/ (x > i /\ x < e) \/ x = e \/ x = e + 1 \/ x > e + 1
  BY <1>1, <1>7
<1>9. CASE x < i
  <2>1. x > 0 => x - 1 \in DOMAIN t.info /\ x - 1 < i
    BY <1>1, <1>3, <1>7, <1>9
  <2> QED BY <1>2, <1>6, <1>7, <1>9, <2>1
<1>10. CASE x = i /\ i < e
  <2>1. i \in i .. e - 1 /\ i + 1 \in 0 .. End(t) /\ (i + 1) - 1 = i /\ i + 1 \in DOMAIN t.info
    BY <1>1, <1>3, <1>10
  <2>2. t.info[i + 1] >= 2 * t.inc /\ u.info[i] = t.info[i + 1] - t.inc
    BY <1>1, <1>2, <2>1
  <2>3. t.info[i + 1] <= t.info[i] + t.inc
    BY <1>4, <1>5, <1>6, <2>1, <2>2
  <2>4. u.info[x] <= t.info[x]
    BY <1>4, <1>5, <1>7, <1>10, <2>1, <2>2, <2>3
  <2>5. x > 0 => u.info[x - 1] = t.info[x - 1] /\ t.info[x - 1] \in Nat
    <3> HAVE x > 0
    <3>1. x - 1 \in DOMAIN t.info /\ x - 1 < i
      BY <1>1, <1>3, <1>7, <1>10
    <3> QED BY <1>2, <1>5, <3>1
  <2>6. u.info[x] \in Int /\ t.info[x] \in Nat
    BY <1>4, <1>5, <1>7, <1>10, <2>1, <2>2
  <2> QED BY <1>4, <1>6, <2>4, <2>5, <2>6
<1>11. CASE x > i /\ x < e
  <2> DEFINE z == x + 1
  <2>1. /\ x \in i .. e - 1 /\ x - 1 \in i .. e - 1 /\ z \in 0 .. End(t) /\ z - 1 = x
        /\ (x - 1) + 1 = x /\ z \in DOMAIN t.info /\ x > 0
    BY <1>1, <1>3, <1>7, <1>11
  <2>2. t.info[z] >= 2 * t.inc /\ u.info[x] = t.info[z] - t.inc /\ u.info[x - 1] = t.info[x] - t.inc
    BY <1>1, <1>2, <2>1
  <2> HIDE DEF z
  <2>3. t.info[z] <= t.info[x] + t.inc
    BY <1>4, <1>5, <1>6, <2>1, <2>2
  <2>4. t.info[z] \in Nat /\ t.info[x] \in Nat
    BY <1>5, <1>7, <2>1
  <2> QED BY <1>4, <2>1, <2>2, <2>3, <2>4
<1>12. CASE x = e
  BY <1>2, <1>4, <1>12
<1>13. CASE x = e + 1
  <2>1. u.info[x] = t.info[x]
    BY <1>1, <1>2, <1>7, <1>13
  <2> QED BY <1>1, <1>13, <2>1
<1>14. CASE x > e + 1
  <2>1. x - 1 \in DOMAIN t.info /\ x - 1 > e /\ x > e
    BY <1>1, <1>3, <1>7, <1>14
  <2> QED BY <1>2, <1>6, <1>7, <2>1
<1> QED BY <1>8, <1>9, <1>10, <1>11, <1>12, <1>13, <1>14

(* The nodes from a slot on.                                               *)
EntriesFrom(t, p) == {t.node[x] : x \in {y \in Nodes(t) : y >= p}}

(* No key is stored twice, and just the entry of slot i is gone, also      *)
(* from those that an iteration has ahead.                                 *)
LEMMA RemovedKeysDiffer ==
  ASSUME NEW t, NEW i, NEW e, MayRemove(t, i, e), NEW u, RemovedAt(u, t, i, e)
  PROVE  /\ KeysDiffer(u)
         /\ \A p \in 0 .. i : EntriesFrom(u, p) = EntriesFrom(t, p) \ {t.node[i]}
<1> DEFINE old(x) == IF x \in i .. e - 1 THEN x + 1 ELSE x
           S == 0 .. End(t) - 1
<1>1. /\ IsTable(t) /\ BytesTell(t) /\ KeysDiffer(t) /\ End(t) \in Nat
      /\ i \in Nodes(t) /\ i \in Nat /\ e \in Nat /\ i <= e /\ e < End(t)
  BY EndIs DEF MayRemove, Sound, IsTable
<1>2. /\ IsTable(u) /\ End(u) = End(t) /\ BytesTell(u) /\ Nodes(u) = Nodes(t) \ {e} /\ e \in Nodes(t)
  BY RemovedTells
<1>3. /\ \A x \in i .. e - 1 : u.node[x] = t.node[x + 1]
      /\ \A x \in DOMAIN t.node : x < i \/ x > e => u.node[x] = t.node[x]
      /\ DOMAIN t.node = S
  BY <1>1 DEF RemovedAt, IsTable
<1>4. Nodes(t) \subseteq S /\ Nodes(u) \subseteq S /\ S \subseteq Nat
  BY <1>1, <1>2, NodesAre
<1>5. /\ \A x \in Nodes(t) : t.node[x] \in Entry
      /\ \A x \in Nodes(u) : u.node[x] \in Entry
      /\ NoNode \notin Entry /\ NoNode.key \notin Keys
  BY <1>1, <1>2, NodesAre, TableAssumption DEF NoNode, Entry
<1>6. \A x \in S : x # e => old(x) \in S /\ u.node[x] = t.node[old(x)] /\ old(x) # i
  BY <1>1, <1>3
<1>7. \A x, z \in S : x # e /\ z # e /\ old(x) = old(z) => x = z
  BY <1>1
<1>8. \A w \in S : w # i => \E x \in S : x # e /\ old(x) = w
  <2> TAKE w \in S
  <2> HAVE w # i
  <2>1. CASE w \in i + 1 .. e
    <3>1. w - 1 \in S /\ w - 1 # e /\ old(w - 1) = w
      BY <1>1, <2>1
    <3> QED BY <3>1
  <2>2. CASE w \notin i + 1 .. e
    <3>1. w # e /\ old(w) = w
      BY <1>1, <2>2
    <3> QED BY <3>1
  <2> QED BY <2>1, <2>2
<1>9. \A p \in 0 .. i : \A x \in S : x # e => (x >= p <=> old(x) >= p)
  BY <1>1
<1>10. /\ Nodes(u) = {x \in S : u.node[x] # NoNode}
       /\ Nodes(t) = {x \in S : t.node[x] # NoNode}
  BY <1>1, <1>2 DEF Nodes, IsTable
<1> HIDE DEF old, S
<1>11. KeysDiffer(u)
  <2> SUFFICES ASSUME NEW x \in S, NEW z \in S, u.node[x] # NoNode, u.node[x].key = u.node[z].key
               PROVE  x = z
    BY <1>2 DEF KeysDiffer, S
  <2>1. x \in Nodes(u) /\ x # e
    BY <1>2, <1>10
  <2>2. u.node[x].key \in Keys
    BY <1>5, <2>1 DEF Entry
  <2>3. z \in Nodes(u) /\ z # e
    BY <1>2, <1>5, <1>10, <2>2
  <2>4. old(x) = old(z)
    BY <1>1, <1>6, <2>1, <2>3 DEF KeysDiffer, S
  <2> QED BY <1>7, <2>1, <2>3, <2>4
<1>12. ASSUME NEW p \in 0 .. i, NEW n \in EntriesFrom(u, p) PROVE n \in EntriesFrom(t, p) \ {t.node[i]}
  <2>1. PICK x \in Nodes(u) : x >= p /\ n = u.node[x]
    BY <1>12 DEF EntriesFrom
  <2>2. x \in S /\ x # e /\ u.node[x] # NoNode
    BY <1>2, <1>4, <1>10, <2>1
  <2>3. old(x) \in S /\ n = t.node[old(x)] /\ old(x) # i /\ old(x) >= p
    BY <1>6, <1>9, <2>1, <2>2
  <2>4. old(x) \in Nodes(t)
    BY <1>10, <2>1, <2>2, <2>3
  <2>5. n # t.node[i]
    <3> SUFFICES ASSUME n = t.node[i] PROVE FALSE
      OBVIOUS
    <3>1. i \in S /\ t.node[old(x)] # NoNode
      BY <1>1, <1>4, <1>10, <2>4
    <3> QED BY <1>1, <2>3, <3>1 DEF KeysDiffer, S
  <2> QED BY <2>3, <2>4, <2>5 DEF EntriesFrom
<1>13. ASSUME NEW p \in 0 .. i, NEW n \in EntriesFrom(t, p) \ {t.node[i]} PROVE n \in EntriesFrom(u, p)
  <2>1. PICK w \in Nodes(t) : w >= p /\ n = t.node[w]
    BY <1>13 DEF EntriesFrom
  <2>2. w \in S /\ w # i
    BY <1>4, <1>13, <2>1
  <2>3. PICK x \in S : x # e /\ old(x) = w
    BY <1>8, <2>2
  <2>4. u.node[x] = n /\ x >= p
    BY <1>6, <1>9, <2>1, <2>3
  <2>5. x \in Nodes(u)
    BY <1>10, <2>1, <2>4
  <2> QED BY <2>4, <2>5 DEF EntriesFrom
<1> QED BY <1>11, <1>12, <1>13

(* From the first slot on they are all entries.                            *)
LEMMA EntriesFromStart ==
  ASSUME NEW t, IsTable(t), BytesTell(t)
  PROVE  EntriesFrom(t, 0) = Entries(t)
<1>1. \A x \in Nodes(t) : x >= 0
  BY NodesAre
<1> QED BY <1>1 DEF EntriesFrom, Entries

(* A removal keeps a table sound and takes one entry away.                 *)
LEMMA RemovedKeeps ==
  ASSUME NEW t, Sound(t), NEW i \in Nodes(t), NEW u, u = Removed(t, i)
  PROVE  /\ Sound(u) /\ SameSize(u, t) /\ u.max = t.max /\ u.num = t.num - 1
         /\ Entries(u) = Entries(t) \ {t.node[i]}
         /\ EntriesFrom(u, i) = EntriesFrom(t, i) \ {t.node[i]}
<1> DEFINE e == MovesTo(t, i)
<1>1. IsTable(t) /\ BytesTell(t) /\ CountIsRight(t)
  BY DEF Sound
<1>2. MayRemove(t, i, e) /\ RemovedAt(u, t, i, e)
  BY RunEnds, RemovedIs
<1> HIDE DEF e
<1>3. /\ IsTable(u) /\ SentinelStands(u) /\ BytesHaveRoom(u) /\ BytesTell(u)
      /\ Nodes(u) = Nodes(t) \ {e} /\ e \in Nodes(t)
      /\ RunsRise(u) /\ KeysDiffer(u)
      /\ \A p \in 0 .. i : EntriesFrom(u, p) = EntriesFrom(t, p) \ {t.node[i]}
  BY <1>2, RemovedTells, RemovedRises, RemovedKeysDiffer
<1>4. SameSize(u, t) /\ u.num = t.num - 1 /\ u.max = t.max
  BY <1>2 DEF RemovedAt
<1>5. CountIsRight(u)
  <2>1. Cardinality(Nodes(u)) = Cardinality(Nodes(t)) - 1
    BY <1>1, <1>3, NodesAreFinite, FS_RemoveElement
  <2>2. u.mask = t.mask /\ t.num \in Nat /\ t.mask \in Nat
    BY <1>1, <1>4 DEF SameSize, IsTable
  <2>3. calcMaxNumElementsAllowed(t.mask + 1) \in Nat
    BY <2>2, AllowedGrows
  <2> QED BY <1>1, <1>4, <2>1, <2>2, <2>3 DEF CountIsRight
<1>6. 0 \in 0 .. i /\ i \in 0 .. i
  BY <1>2 DEF MayRemove
<1>7. Entries(u) = Entries(t) \ {t.node[i]}
  BY <1>1, <1>3, <1>6, EntriesFromStart
<1> QED BY <1>3, <1>4, <1>5, <1>6, <1>7 DEF Sound

(***************************************************************************)
(* insert_move.                                                            *)
(***************************************************************************)
(* insert_move looks for the spot of the node only.                        *)
LEMMA SpotIsFound ==
  ASSUME NEW t, Sound(t), NEW key \in Keys
  PROVE  LET p == keyToIdx(t, key)
             free == First({j \in Ahead(t, p) : next(t, p, j).info > t.info[p.idx + j]})
         IN  /\ IsSpot(t, key, Home(t, key) + free)
             /\ next(t, p, free) = ProbeOf(t, key, Home(t, key) + free)
<1> DEFINE h == Home(t, key)
           p == keyToIdx(t, key)
           S == {j \in Ahead(t, p) : next(t, p, j).info > t.info[p.idx + j]}
           free == First(S)
           bytes == calcNumBytesInfo(End(t))
<1>1. IsTable(t) /\ SentinelStands(t)
  BY DEF Sound
<1>2. /\ h \in Nat /\ End(t) \in Nat /\ h <= End(t) /\ bytes \in Nat /\ End(t) + 3 <= bytes
      /\ p.idx = h
  BY <1>1, ProbeStarts, EndIs DEF IsTable, Home
<1>3. /\ \A z \in Nat : z >= h => Byte(t, key, z) \in Nat
      /\ \A z \in 0 .. bytes - 1 : t.info[z] \in Nat
  BY <1>1, BytesStep, BytesAreBytes
<1>4. \A j \in Nat : next(t, p, j) = ProbeOf(t, key, h + j)
  BY <1>1, ProbeAt DEF ProbeOf
<1>5. Ahead(t, p) = 0 .. (bytes - 1) - h
  BY <1>2 DEF Ahead
<1>6. \A j \in Ahead(t, p) : j \in S <=> Byte(t, key, h + j) > t.info[h + j]
  <2> TAKE j \in Ahead(t, p)
  <2>1. next(t, p, j).info = Byte(t, key, h + j) /\ t.info[p.idx + j] = t.info[h + j]
    BY <1>1, AheadIs
  <2> QED BY <2>1
<1>7. End(t) - h \in S /\ S \subseteq Nat
  <2>1. End(t) - h \in Nat /\ h + (End(t) - h) = End(t) /\ h + (End(t) - h) >= End(t)
        /\ h + (End(t) - h) < bytes
    BY <1>2
  <2>2. /\ End(t) - h \in Ahead(t, p)
        /\ Byte(t, key, h + (End(t) - h)) > t.info[h + (End(t) - h)]
    BY <1>1, <2>1, ProbeStops
  <2> QED BY <1>1, <1>6, <2>2, AheadIs
<1>8. free \in S /\ free \in Nat /\ free <= End(t) - h /\ \A j \in S : free <= j
  BY <1>7, FirstIsLeast
<1>9. free \in Ahead(t, p)
  BY <1>8
<1> DEFINE y == h + free
<1>10. y \in Nat /\ h <= y /\ y <= End(t) /\ y \in 0 .. bytes - 1
  BY <1>2, <1>8
<1>11. t.info[y] < Byte(t, key, y)
  <2>1. Byte(t, key, y) > t.info[y]
    BY <1>6, <1>8, <1>9
  <2> HIDE DEF y
  <2> QED BY <1>3, <1>10, <2>1
<1>12. ASSUME NEW z \in h .. y - 1 PROVE t.info[z] >= Byte(t, key, z)
  <2> DEFINE j == z - h
  <2>1. j \in Nat /\ h + j = z /\ ~ (free <= j) /\ z \in 0 .. bytes - 1 /\ z \in Nat /\ z >= h
        /\ j \in 0 .. (bytes - 1) - h
    BY <1>2, <1>8, <1>10
  <2> HIDE DEF j
  <2>2. ~ (Byte(t, key, z) > t.info[z])
    BY <1>5, <1>6, <1>8, <2>1
  <2> QED BY <1>3, <2>1, <2>2
<1>13. IsSpot(t, key, y)
  BY <1>10, <1>11, <1>12 DEF IsSpot
<1> HIDE DEF S
<1>14. next(t, p, free) = ProbeOf(t, key, y)
  BY <1>4, <1>8
<1> QED BY <1>13, <1>14 DEF S

Added(r, t, node) ==
  /\ r.threw \in BOOLEAN /\ Sound(r.table)
  /\ r.table.hash = t.hash /\ r.table.mult = t.mult /\ r.table.mask = t.mask
  /\ r.threw => r.table = t
  /\ ~ r.threw => r.table.num = t.num + 1 /\ Entries(r.table) = Entries(t) \cup {node}

(* The two kinds of results.                                               *)
LEMMA ResultsAre ==
  ASSUME NEW t
  PROVE  /\ Done(t).table = t /\ ~ Done(t).threw /\ Done(t).threw \in BOOLEAN
         /\ Thrown(t).table = t /\ Thrown(t).threw /\ Thrown(t).threw \in BOOLEAN
BY DEF Done, Thrown

(* Keys through entries.                                                   *)
LEMMA KeysOfEntries ==
  ASSUME NEW t
  PROVE  KeysOf(t) = {n.key : n \in Entries(t)}
BY DEF KeysOf, Entries

(* The byte of a spot is the same after it was narrowed.                   *)
LEMMA NarrowedProbe ==
  ASSUME NEW t, Sound(t), t.max # 0, NEW key \in Keys, NEW y, IsSpot(t, key, y)
  PROVE  [ProbeOf(t, key, y) EXCEPT !.info = @ % (MaxInfo + 1)] = ProbeOf(t, key, y)
<1> DEFINE b == Byte(t, key, y)
<1>1. b \in Nat /\ b <= MaxInfo /\ MaxInfo \in Nat
  BY SpotFits, TableAssumption DEF Sound
<1> HIDE DEF b
<1>2. b % (MaxInfo + 1) = b
  BY <1>1
<1>3. ProbeOf(t, key, y) = [idx |-> y, info |-> b]
  BY DEF ProbeOf, b
<1> QED BY <1>2, <1>3

(* insert_move of an absent key adds its entry or throws.                  *)
LEMMA InsertMoveKeeps ==
  ASSUME NEW t, Sound(t), t.mask # 0, t.num < calcMaxNumElementsAllowed(t.mask + 1),
         NEW node \in Entry, node.key \notin KeysOf(t)
  PROVE  Added(insert_move(t, node), t, node)
<1> DEFINE r == insert_move(t, node)
           u == IF t.max = 0 THEN try_increase_info(t) ELSE t
           key == node.key
           p == keyToIdx(u, key)
           free == First({j \in Ahead(u, p) : next(u, p, j).info > u.info[p.idx + j]})
<1>1. CASE t.max = 0 /\ ~ CanIncreaseInfo(t)
  <2>1. r = Thrown(t)
    BY <1>1 DEF insert_move
  <2> HIDE DEF r
  <2> QED BY <2>1, ResultsAre DEF Added, r
<1>2. CASE ~ (t.max = 0 /\ ~ CanIncreaseInfo(t))
  <2> DEFINE narrowed == [next(u, p, free) EXCEPT !.info = @ % (MaxInfo + 1)]
  <2>1. r = Done(Place(u, narrowed, node))
    BY <1>2, Zenon DEF insert_move
  <2>2. /\ Sound(u) /\ u.hash = t.hash /\ u.mult = t.mult /\ u.num = t.num /\ u.mask = t.mask
        /\ u.max = calcMaxNumElementsAllowed(t.mask + 1) /\ Entries(u) = Entries(t)
    <3>1. CASE t.max = 0
      BY <1>2, <3>1, IncreaseKeeps
    <3>2. CASE t.max # 0
      BY <3>2 DEF Sound, IsTable
    <3> QED BY <3>1, <3>2
  <2> HIDE DEF u
  <2>3. key \in Keys /\ key \notin KeysOf(u) /\ u.num < u.max
    BY <2>2, KeysOfEntries DEF Entry
  <2> DEFINE y == Home(u, key) + free
  <2>4. IsSpot(u, key, y) /\ next(u, p, free) = ProbeOf(u, key, y)
    BY <2>2, <2>3, SpotIsFound
  <2> HIDE DEF r, p, free, y
  <2> DEFINE w == Place(u, ProbeOf(u, key, y), node)
  <2>5. r = Done(w)
    <3>1. narrowed = ProbeOf(u, key, y)
      <4>1. u.max # 0
        BY <2>2, <2>3 DEF Sound, IsTable
      <4> QED BY <2>2, <2>3, <2>4, <4>1, NarrowedProbe
    <3> HIDE DEF narrowed
    <3> QED BY <2>1, <3>1
  <2>6. /\ Sound(w) /\ SameSize(w, u) /\ w.num = u.num + 1
        /\ Entries(w) = Entries(u) \cup {node}
    BY <2>2, <2>3, <2>4, PlaceKeeps
  <2> HIDE DEF w
  <2>7. w.hash = t.hash /\ w.mult = t.mult /\ w.mask = t.mask
    BY <2>2, <2>6 DEF SameSize
  <2> QED BY <2>2, <2>5, <2>6, <2>7, ResultsAre DEF Added, r
<1> QED BY <1>1, <1>2

(***************************************************************************)
(* Rehashing.  The nodes are moved one by one, in the order of the slots.  *)
(***************************************************************************)
(* What a rehash reads of a table.  The hash in use may be a new one.      *)
Stored(t) ==
  /\ IsRecord(t) /\ UsesHash(t) /\ End(t) \in Nat
  /\ Nodes(t) = {x \in 0 .. End(t) - 1 : t.info[x] # 0}
  /\ \A x \in Nodes(t) : t.node[x] \in Entry
  /\ \A x, y \in Nodes(t) : t.node[x].key = t.node[y].key => x = y
  /\ IsFiniteSet(Nodes(t)) /\ t.num = Cardinality(Nodes(t)) /\ t.num \in Nat

(* A sound table can be rehashed.                                          *)
LEMMA SoundIsStored ==
  ASSUME NEW t, Sound(t)
  PROVE  Stored(t)
<1>1. IsTable(t) /\ BytesTell(t) /\ KeysDiffer(t) /\ CountIsRight(t)
  BY DEF Sound
<1>2. /\ End(t) \in Nat /\ Nodes(t) = {x \in 0 .. End(t) - 1 : t.info[x] # 0}
      /\ \A x \in Nodes(t) : t.node[x] \in Entry
      /\ IsFiniteSet(Nodes(t)) /\ t.num = Cardinality(Nodes(t)) /\ t.num \in Nat
  BY <1>1, NodesAre, NodesAreFinite DEF CountIsRight
<1>3. \A x \in Nodes(t) : x \in 0 .. End(t) - 1 /\ t.node[x] # NoNode
  BY <1>2 DEF Nodes
<1> QED BY <1>1, <1>2, <1>3 DEF Stored, IsTable, KeysDiffer

(* It can be rehashed with the next multiplier too.                        *)
LEMMA MultiplierKeeps ==
  ASSUME NEW t, Sound(t), NEW u, u = nextHashMultiplier(t)
  PROVE  /\ Stored(u) /\ Entries(u) = Entries(t) /\ u.num = t.num /\ u.hash = t.hash
<1> DEFINE m == (t.mult + 1) % Multipliers
<1>1. u = [t EXCEPT !.mult = m]
  BY DEF nextHashMultiplier
<1>2. IsRecord(t) /\ UsesHash(t) /\ Stored(t)
  BY SoundIsStored DEF Stored
<1>3. m \in 0 .. Multipliers - 1
  <2>1. t.mult + 1 \in Nat /\ Multipliers \in Nat \ {0}
    BY <1>2, TableAssumption DEF UsesHash
  <2> QED BY <2>1, QuotientBounds
<1> HIDE DEF m
<1>4. /\ IsRecord(u) /\ u.hash = t.hash /\ u.mult = m /\ u.num = t.num /\ u.mask = t.mask
      /\ u.info = t.info /\ u.node = t.node
  BY <1>1, <1>2 DEF IsRecord
<1>5. UsesHash(u) /\ End(u) = End(t) /\ Nodes(u) = Nodes(t)
  BY <1>2, <1>3, <1>4 DEF UsesHash, End, Nodes
<1> QED BY <1>2, <1>4, <1>5 DEF Stored, Entries

(* The steps of a rehash.                                                  *)
IsRehashing(g, t, b, m) ==
  g = [i \in 0 .. m |-> IF i = 0 THEN Done(initData(t, b)) ELSE MoveNode(g[i - 1], t, i - 1)]

(* There is such a function up to every slot.                              *)
LEMMA RehashingExists ==
  ASSUME NEW t, NEW b
  PROVE  \A m \in Nat : \E g : IsRehashing(g, t, b, m)
<1> DEFINE N == {m \in Nat : \E g : IsRehashing(g, t, b, m)}
<1>1. 0 \in N
  <2> DEFINE g == [i \in 0 .. 0 |-> Done(initData(t, b))]
  <2>1. IsRehashing(g, t, b, 0)
    BY DEF IsRehashing
  <2> QED BY <2>1
<1>2. ASSUME NEW m \in Nat, m \in N PROVE m + 1 \in N
  <2>1. PICK g : IsRehashing(g, t, b, m)
    BY <1>2
  <2> DEFINE h == [i \in 0 .. m + 1 |-> IF i <= m THEN g[i] ELSE MoveNode(g[m], t, m)]
  <2>2. \A i \in 0 .. m : h[i] = g[i]
    OBVIOUS
  <2>3. \A i \in 0 .. m : g[i] = IF i = 0 THEN Done(initData(t, b)) ELSE MoveNode(g[i - 1], t, i - 1)
    BY <2>1 DEF IsRehashing
  <2>4. ASSUME NEW i \in 0 .. m + 1
        PROVE  h[i] = IF i = 0 THEN Done(initData(t, b)) ELSE MoveNode(h[i - 1], t, i - 1)
    <3>1. CASE i \in 0 .. m
      <4>1. i # 0 => i - 1 \in 0 .. m
        BY <3>1
      <4> QED BY <3>1, <4>1, <2>2, <2>3
    <3>2. CASE i = m + 1
      <4>1. i # 0 /\ i - 1 = m /\ m \in 0 .. m /\ ~ (i <= m)
        BY <3>2
      <4> QED BY <4>1, <2>2
    <3> QED BY <3>1, <3>2
  <2>5. IsRehashing(h, t, b, m + 1)
    BY <2>4 DEF IsRehashing
  <2> QED BY <2>5
<1> HIDE DEF N
<1>3. Nat \subseteq N
  BY <1>1, <1>2, SetInduction
<1> QED BY <1>3 DEF N

(* Rehashing satisfies its equation.                                       *)
LEMMA RehashingIs ==
  ASSUME NEW t, NEW b, End(t) \in Nat
  PROVE  IsRehashing(Rehashing(t, b), t, b, End(t))
<1>1. \E g : IsRehashing(g, t, b, End(t))
  BY RehashingExists
<1>2. Rehashing(t, b) = CHOOSE g : IsRehashing(g, t, b, End(t))
  BY DEF Rehashing, IsRehashing
<1> QED BY <1>1, <1>2

(* What the first slots hold.                                              *)
SlotsBelow(t, i) == {x \in Nodes(t) : x < i}
EntriesBelow(t, i) == {t.node[x] : x \in SlotsBelow(t, i)}

MovedSoFar(r, t, b, i) ==
  /\ r.threw \in BOOLEAN /\ Sound(r.table)
  /\ r.table.hash = t.hash /\ r.table.mask = b - 1
  /\ Entries(r.table) \subseteq EntriesBelow(t, i)
  /\ ~ r.threw => /\ Entries(r.table) = EntriesBelow(t, i)
                  /\ r.table.num = Cardinality(SlotsBelow(t, i))

(* Moving one more node.                                                   *)
LEMMA MoveNodeKeeps ==
  ASSUME NEW t, Stored(t), NEW b \in Nat, b >= 2, t.num <= calcMaxNumElementsAllowed(b),
         NEW i \in 0 .. End(t) - 1, NEW r, MovedSoFar(r, t, b, i)
  PROVE  MovedSoFar(MoveNode(r, t, i), t, b, i + 1)
<1>1. /\ End(t) \in Nat /\ Nodes(t) = {x \in 0 .. End(t) - 1 : t.info[x] # 0}
      /\ \A x \in Nodes(t) : t.node[x] \in Entry
      /\ \A x, y \in Nodes(t) : t.node[x].key = t.node[y].key => x = y
      /\ IsFiniteSet(Nodes(t)) /\ t.num = Cardinality(Nodes(t)) /\ t.num \in Nat
  BY DEF Stored
<1>2. /\ r.threw \in BOOLEAN /\ Sound(r.table)
      /\ r.table.hash = t.hash /\ r.table.mask = b - 1
      /\ Entries(r.table) \subseteq EntriesBelow(t, i)
      /\ ~ r.threw => /\ Entries(r.table) = EntriesBelow(t, i)
                      /\ r.table.num = Cardinality(SlotsBelow(t, i))
  BY DEF MovedSoFar
<1>3. i \in Nat
  BY <1>1
<1>4. \A x \in Nodes(t) : x < i + 1 <=> x < i \/ x = i
  BY <1>1, <1>3
<1>5. EntriesBelow(t, i) \subseteq EntriesBelow(t, i + 1)
  BY <1>4 DEF EntriesBelow, SlotsBelow
<1>6. CASE r.threw
  <2>1. MoveNode(r, t, i) = r
    BY <1>6 DEF MoveNode
  <2> QED BY <1>2, <1>5, <1>6, <2>1 DEF MovedSoFar
<1>7. CASE ~ r.threw /\ t.info[i] = 0
  <2>1. MoveNode(r, t, i) = r
    BY <1>7 DEF MoveNode
  <2>2. i \notin Nodes(t)
    BY <1>1, <1>7
  <2>3. SlotsBelow(t, i + 1) = SlotsBelow(t, i)
    BY <1>4, <2>2 DEF SlotsBelow
  <2> QED BY <1>2, <2>1, <2>3 DEF MovedSoFar, EntriesBelow
<1>8. CASE ~ r.threw /\ t.info[i] # 0
  <2> DEFINE n == t.node[i]
             w == r.table
  <2>1. MoveNode(r, t, i) = insert_move(w, n)
    BY <1>8 DEF MoveNode
  <2>2. i \in Nodes(t) /\ n \in Entry
    BY <1>1, <1>8
  <2>3. /\ SlotsBelow(t, i + 1) = SlotsBelow(t, i) \cup {i}
        /\ i \notin SlotsBelow(t, i) /\ i \in SlotsBelow(t, i + 1)
    BY <1>3, <1>4, <2>2 DEF SlotsBelow
  <2>4. EntriesBelow(t, i + 1) = EntriesBelow(t, i) \cup {n}
    BY <2>3 DEF EntriesBelow
  <2>5. n.key \notin KeysOf(w)
    <3> SUFFICES ASSUME n.key \in KeysOf(w) PROVE FALSE
      OBVIOUS
    <3>1. PICK m \in EntriesBelow(t, i) : m.key = n.key
      BY <1>2, KeysOfEntries
    <3>2. PICK x \in Nodes(t) : x < i /\ m = t.node[x]
      BY DEF EntriesBelow, SlotsBelow
    <3>3. x = i
      BY <1>1, <2>2, <3>1, <3>2
    <3> QED BY <1>3, <3>2, <3>3
  <2>6. w.num + 1 = Cardinality(SlotsBelow(t, i + 1)) /\ w.num + 1 <= t.num /\ w.num \in Nat
    <3>1. SlotsBelow(t, i) \subseteq Nodes(t) /\ SlotsBelow(t, i + 1) \subseteq Nodes(t)
      BY DEF SlotsBelow
    <3>2. IsFiniteSet(SlotsBelow(t, i)) /\ Cardinality(SlotsBelow(t, i)) \in Nat
      BY <1>1, <3>1, FS_Subset, FS_CardinalityType
    <3>3. Cardinality(SlotsBelow(t, i + 1)) = Cardinality(SlotsBelow(t, i)) + 1
      BY <2>3, <3>2, FS_AddElement
    <3>4. Cardinality(SlotsBelow(t, i + 1)) <= Cardinality(Nodes(t))
      BY <1>1, <3>1, FS_Subset
    <3> QED BY <1>1, <1>2, <1>8, <3>2, <3>3, <3>4
  <2>7. w.mask # 0 /\ w.mask + 1 = b /\ w.num < calcMaxNumElementsAllowed(b)
    <3>1. calcMaxNumElementsAllowed(b) \in Nat
      BY AllowedGrows
    <3> QED BY <1>1, <1>2, <2>6, <3>1
  <2>8. Added(insert_move(w, n), w, n)
    BY <1>2, <2>2, <2>5, <2>7, InsertMoveKeeps
  <2> DEFINE q == insert_move(w, n)
  <2> HIDE DEF q
  <2>9. /\ q.threw \in BOOLEAN /\ Sound(q.table)
        /\ q.table.hash = t.hash /\ q.table.mask = b - 1
        /\ q.threw => q.table = w
        /\ ~ q.threw => q.table.num = w.num + 1 /\ Entries(q.table) = Entries(w) \cup {n}
    BY <1>2, <2>8 DEF Added, q
  <2>10. MovedSoFar(q, t, b, i + 1)
    <3> HIDE DEF n
    <3>1. Entries(q.table) \subseteq EntriesBelow(t, i + 1)
      BY <1>2, <2>4, <2>9
    <3>2. ~ q.threw => /\ Entries(q.table) = EntriesBelow(t, i + 1)
                       /\ q.table.num = Cardinality(SlotsBelow(t, i + 1))
      BY <1>2, <1>8, <2>4, <2>6, <2>9
    <3> QED BY <2>9, <3>1, <3>2 DEF MovedSoFar
  <2> QED BY <2>1, <2>10 DEF q
<1> QED BY <1>2, <1>6, <1>7, <1>8

(* What a call that rearranges a table may do to it.                       *)
Kept(r, t) ==
  /\ r.threw \in BOOLEAN /\ Sound(r.table) /\ r.table.hash = t.hash
  /\ Entries(r.table) \subseteq Entries(t)
  /\ ~ r.threw => Entries(r.table) = Entries(t)

(* A rehash that does not throw keeps every entry; one that throws leaves a*)
(* sound table with some of them.                                          *)
LEMMA RehashKeeps ==
  ASSUME NEW t, Stored(t), NEW b \in Nat, b >= 2, t.num <= calcMaxNumElementsAllowed(b)
  PROVE  Kept(rehashPowerOfTwo(t, b), t)
<1> DEFINE g == Rehashing(t, b)
           N == {i \in Nat : i <= End(t) => MovedSoFar(g[i], t, b, i)}
<1>1. End(t) \in Nat /\ IsRecord(t) /\ UsesHash(t)
      /\ Nodes(t) = {x \in 0 .. End(t) - 1 : t.info[x] # 0}
  BY DEF Stored
<1>2. \A i \in 0 .. End(t) :
        g[i] = IF i = 0 THEN Done(initData(t, b)) ELSE MoveNode(g[i - 1], t, i - 1)
  <2>1. IsRehashing(g, t, b, End(t))
    BY <1>1, RehashingIs
  <2> HIDE DEF g
  <2> QED BY <2>1 DEF IsRehashing
<1> HIDE DEF g
<1>3. 0 \in N
  <2> DEFINE w == initData(t, b)
  <2>1. /\ IsEmpty(w) /\ w.hash = t.hash /\ w.mask = b - 1
    BY <1>1, InitDataKeeps
  <2>2. g[0] = Done(w)
    BY <1>1, <1>2
  <2> HIDE DEF w
  <2>3. Sound(w) /\ Entries(w) = {} /\ w.num = 0
    BY <2>1, EmptyIsSound DEF IsEmpty
  <2>4. SlotsBelow(t, 0) = {}
    BY <1>1 DEF SlotsBelow
  <2>5. EntriesBelow(t, 0) = {} /\ Cardinality(SlotsBelow(t, 0)) = 0
    BY <2>4, FS_EmptySet DEF EntriesBelow
  <2>6. MovedSoFar(g[0], t, b, 0)
    BY <2>1, <2>2, <2>3, <2>5, ResultsAre DEF MovedSoFar
  <2> QED BY <2>6
<1>4. ASSUME NEW i \in Nat, i \in N PROVE i + 1 \in N
  <2> SUFFICES ASSUME i + 1 <= End(t) PROVE MovedSoFar(g[i + 1], t, b, i + 1)
    OBVIOUS
  <2>1. i \in 0 .. End(t) - 1 /\ i <= End(t) /\ i + 1 \in 0 .. End(t) /\ i + 1 # 0 /\ (i + 1) - 1 = i
    BY <1>1
  <2>2. g[i + 1] = MoveNode(g[i], t, i)
    BY <1>2, <2>1
  <2>3. MovedSoFar(g[i], t, b, i)
    BY <1>4, <2>1
  <2> QED BY <2>1, <2>2, <2>3, MoveNodeKeeps
<1> HIDE DEF N
<1>5. Nat \subseteq N
  BY <1>3, <1>4, SetInduction
<1>6. MovedSoFar(g[End(t)], t, b, End(t))
  BY <1>1, <1>5 DEF N
<1>7. EntriesBelow(t, End(t)) = Entries(t)
  BY <1>1 DEF EntriesBelow, Entries, SlotsBelow
<1>8. rehashPowerOfTwo(t, b) = g[End(t)]
  BY DEF rehashPowerOfTwo, g
<1> QED BY <1>6, <1>7, <1>8 DEF MovedSoFar, Kept

(***************************************************************************)
(* Growth and sizes on request.                                            *)
(***************************************************************************)

(* What is kept twice is kept.                                             *)
LEMMA KeptGoesOn ==
  ASSUME NEW r, NEW t, NEW q, Kept(r, t), ~ r.threw, Kept(q, r.table)
  PROVE  Kept(q, t)
BY DEF Kept

(* A rehash of a sound table.                                              *)
LEMMA RehashOfSound ==
  ASSUME NEW t, Sound(t), NEW b \in Nat, b >= 2, t.num <= calcMaxNumElementsAllowed(b)
  PROVE  Kept(rehashPowerOfTwo(t, b), t)
BY SoundIsStored, RehashKeeps

(* increase_size keeps the entries, or throws and may lose some.           *)
LEMMA IncreaseSizeKeeps ==
  ASSUME NEW t, Sound(t)
  PROVE  Kept(increase_size(t), t)
<1> DEFINE allowed == calcMaxNumElementsAllowed(t.mask + 1)
           u == nextHashMultiplier(t)
           r == increase_size(t)
<1>1. IsTable(t) /\ IsRecord(t) /\ UsesHash(t) /\ BytesTell(t)
  BY DEF Sound, IsTable
<1>2. t.mask \in Nat /\ t.num \in Nat /\ t.num <= allowed /\ allowed \in Nat
  <2>1. t.mask \in Nat /\ t.num \in Nat /\ t.num <= allowed
    BY <1>1 DEF IsTable, Sound, CountIsRight
  <2> QED BY <2>1, AllowedGrows
<1>3. Stored(u) /\ Entries(u) = Entries(t) /\ u.num = t.num /\ u.hash = t.hash
  BY MultiplierKeeps
<1>4. CASE t.mask = 0
  <2> DEFINE w == initData(t, InitialNumElements)
  <2>1. r = Done(w)
    BY <1>4 DEF increase_size
  <2>2. InitialNumElements \in Nat /\ InitialNumElements >= 2
    BY TableAssumption
  <2>3. IsEmpty(w) /\ w.hash = t.hash
    BY <1>1, <2>2, InitDataKeeps
  <2> HIDE DEF w, r
  <2>4. Sound(w) /\ Entries(w) = {}
    BY <2>3, EmptyIsSound
  <2>5. Nodes(t) = {}
    <3>1. 0 .. End(t) - 1 = {}
      BY <1>1, <1>4, EndIs DEF IsTable
    <3> QED BY <1>1, <3>1, NodesAre
  <2>6. Entries(t) = {}
    BY <2>5 DEF Entries
  <2> QED BY <2>1, <2>3, <2>4, <2>6, ResultsAre DEF Kept, r
<1>5. CASE t.mask # 0 /\ t.num < allowed /\ CanIncreaseInfo(t)
  <2> DEFINE w == try_increase_info(t)
  <2>1. r = Done(w)
    BY <1>5 DEF increase_size
  <2>2. Sound(w) /\ Entries(w) = Entries(t) /\ w.hash = t.hash
    BY <1>5, IncreaseKeeps
  <2> HIDE DEF w, r
  <2> QED BY <2>1, <2>2, ResultsAre DEF Kept, r
<1>6. CASE t.mask # 0 /\ ~ (t.num < allowed /\ CanIncreaseInfo(t))
  <2>1. r = IF t.num * 2 < allowed THEN rehashPowerOfTwo(u, t.mask + 1)
                                   ELSE rehashPowerOfTwo(u, (t.mask + 1) * 2)
    BY <1>6 DEF increase_size
  <2>2. t.mask + 1 \in Nat /\ t.mask + 1 >= 2 /\ (t.mask + 1) * 2 \in Nat /\ (t.mask + 1) * 2 >= 2
        /\ t.mask + 1 <= (t.mask + 1) * 2
    BY <1>2, <1>6
  <2>3. /\ u.num <= allowed /\ u.num <= calcMaxNumElementsAllowed((t.mask + 1) * 2)
    <3>1. allowed <= calcMaxNumElementsAllowed((t.mask + 1) * 2)
          /\ calcMaxNumElementsAllowed((t.mask + 1) * 2) \in Nat
      BY <2>2, AllowedGrows
    <3> QED BY <1>2, <1>3, <3>1
  <2> HIDE DEF u, r
  <2>4. Kept(rehashPowerOfTwo(u, t.mask + 1), u)
    BY <1>3, <2>2, <2>3, RehashKeeps
  <2>5. Kept(rehashPowerOfTwo(u, (t.mask + 1) * 2), u)
    BY <1>3, <2>2, <2>3, RehashKeeps
  <2>6. Kept(r, u)
    BY <2>1, <2>4, <2>5
  <2> QED BY <1>3, <2>6 DEF Kept, r
<1> QED BY <1>4, <1>5, <1>6

(* Powers of two outgrow their exponents.                                  *)
LEMMA PowersGrow == \A c \in Nat : Pow2[c] \in Nat /\ Pow2[c] >= c + 1
<1> DEFINE N == {c \in Nat : Pow2[c] \in Nat /\ Pow2[c] >= c + 1}
<1>1. 0 \in N
  BY PowersDefined
<1>2. ASSUME NEW c \in Nat, c \in N PROVE c + 1 \in N
  <2>1. Pow2[c + 1] = 2 * Pow2[c] /\ Pow2[c] \in Nat /\ Pow2[c] >= c + 1
    BY <1>2, PowersDefined
  <2> QED BY <2>1
<1> HIDE DEF N
<1>3. Nat \subseteq N
  BY <1>1, <1>2, SetInduction
<1> QED BY <1>3 DEF N

(* A size for any number of elements is found.                             *)
LEMMA SizeForIs ==
  ASSUME NEW c \in Nat
  PROVE  SizeFor(c) \in Nat /\ SizeFor(c) >= 2 /\ c <= calcMaxNumElementsAllowed(SizeFor(c))
<1> DEFINE sizes == {InitialNumElements * Pow2[j] : j \in 0 .. c + 4}
           S == {n \in sizes : calcMaxNumElementsAllowed(n) >= c}
           big == InitialNumElements * Pow2[c + 4]
<1>1. InitialNumElements \in Nat /\ InitialNumElements >= 3
      /\ MaxLoadFactor100 \in Nat /\ MaxLoadFactor100 >= 11
  BY TableAssumption
<1>2. ASSUME NEW n \in sizes PROVE n \in Nat /\ n >= 2
  <2>1. PICK j \in 0 .. c + 4 : n = InitialNumElements * Pow2[j]
    BY <1>2
  <2>2. Pow2[j] \in Nat \ {0}
    BY PowersDefined
  <2>3. InitialNumElements * Pow2[j] >= InitialNumElements /\ InitialNumElements * Pow2[j] \in Nat
    BY <1>1, <2>2, ProductPositive
  <2> QED BY <1>1, <2>1, <2>3
<1>3. Pow2[c] \in Nat /\ Pow2[c] >= c + 1 /\ Pow2[c + 4] = 16 * Pow2[c]
  <2>1. c + 1 \in Nat /\ c + 2 \in Nat /\ c + 3 \in Nat /\ (c + 1) + 1 = c + 2
        /\ (c + 2) + 1 = c + 3 /\ (c + 3) + 1 = c + 4
    OBVIOUS
  <2>2. Pow2[c + 1] = 2 * Pow2[c] /\ Pow2[c + 2] = 2 * Pow2[c + 1]
        /\ Pow2[c + 3] = 2 * Pow2[c + 2] /\ Pow2[c + 4] = 2 * Pow2[c + 3]
    BY <2>1, PowersDefined
  <2>3. Pow2[c] \in Nat /\ Pow2[c] >= c + 1
    BY PowersGrow
  <2> QED BY <2>2, <2>3
<1>4. big \in sizes
  <2>1. c + 4 \in 0 .. c + 4
    OBVIOUS
  <2> QED BY <2>1
<1>5. big \in Nat /\ big >= 48 * c
  <2>1. Pow2[c + 4] \in Nat /\ Pow2[c + 4] >= 16 * c
    BY <1>3
  <2>2. Pow2[c + 4] * 3 <= Pow2[c + 4] * InitialNumElements /\ Pow2[c + 4] * InitialNumElements \in Nat
    BY <1>1, <2>1, ProductGrows
  <2>3. Pow2[c + 4] * InitialNumElements = big
    BY <1>1, <2>1
  <2> HIDE DEF big
  <2> QED BY <2>1, <2>2, <2>3
<1>6. calcMaxNumElementsAllowed(big) >= c
  <2> HIDE DEF big
  <2>1. big * 11 <= big * MaxLoadFactor100 /\ big * MaxLoadFactor100 \in Nat
    BY <1>1, <1>5, ProductGrows
  <2>2. ASSUME NEW a \in Nat, a >= 528 * c PROVE a \div 100 >= c
    BY <2>2
  <2>3. big * MaxLoadFactor100 >= 528 * c
    BY <1>5, <2>1
  <2> QED BY <2>1, <2>2, <2>3 DEF calcMaxNumElementsAllowed
<1>7. S \subseteq Nat /\ big \in S
  BY <1>2, <1>4, <1>6
<1> HIDE DEF big, sizes
<1>8. First(S) \in S
  BY <1>7, FirstIsLeast
<1>9. SizeFor(c) = First(S)
  BY DEF SizeFor, sizes
<1>10. SizeFor(c) \in sizes /\ calcMaxNumElementsAllowed(SizeFor(c)) >= c
  BY <1>8, <1>9
<1>11. SizeFor(c) \in Nat /\ SizeFor(c) >= 2
  BY <1>2, <1>10
<1>12. calcMaxNumElementsAllowed(SizeFor(c)) \in Nat
  BY <1>11, AllowedGrows
<1> QED BY <1>10, <1>11, <1>12

(* A call that does nothing keeps everything.                              *)
LEMMA NothingMoves ==
  ASSUME NEW t, Sound(t)
  PROVE  Kept(Done(t), t)
BY ResultsAre DEF Kept

(* reserve and rehash keep the entries, or throw.                          *)
LEMMA ReserveKeeps ==
  ASSUME NEW t, Sound(t), NEW c \in Nat, NEW force
  PROVE  Kept(reserve(t, c, force), t)
<1> DEFINE n == IF c > t.num THEN c ELSE t.num
<1>1. t.num \in Nat
  BY DEF Sound, IsTable
<1>2. n \in Nat /\ t.num <= n
  BY <1>1
<1>3. reserve(t, c, force) = IF force \/ SizeFor(n) > t.mask + 1
                             THEN rehashPowerOfTwo(t, SizeFor(n)) ELSE Done(t)
  BY DEF reserve
<1> HIDE DEF n
<1>4. /\ SizeFor(n) \in Nat /\ SizeFor(n) >= 2 /\ n <= calcMaxNumElementsAllowed(SizeFor(n))
      /\ calcMaxNumElementsAllowed(SizeFor(n)) \in Nat
  BY <1>2, SizeForIs, AllowedGrows
<1>5. t.num <= calcMaxNumElementsAllowed(SizeFor(n))
  BY <1>1, <1>2, <1>4
<1>6. Kept(rehashPowerOfTwo(t, SizeFor(n)), t)
  BY <1>4, <1>5, RehashOfSound
<1> QED BY <1>3, <1>6, NothingMoves

(* compact keeps the entries, or throws.                                   *)
LEMMA CompactKeeps ==
  ASSUME NEW t, Sound(t)
  PROVE  Kept(compact(t), t)
<1>1. t.num \in Nat
  BY DEF Sound, IsTable
<1>2. compact(t) = IF SizeFor(t.num) < t.mask + 1
                   THEN rehashPowerOfTwo(t, SizeFor(t.num)) ELSE Done(t)
  BY DEF compact
<1>3. Kept(rehashPowerOfTwo(t, SizeFor(t.num)), t)
  BY <1>1, SizeForIs, RehashOfSound
<1> QED BY <1>2, <1>3, NothingMoves

(* The rounds of an insertion.                                             *)
IsGrowing(g, t, key, m) ==
  g = [i \in 0 .. m |-> IF i = 0 THEN Done(t) ELSE GrowOnce(g[i - 1], key)]

(* There is such a function up to every round.                             *)
LEMMA GrowingExists ==
  ASSUME NEW t, NEW key
  PROVE  \A m \in Nat : \E g : IsGrowing(g, t, key, m)
<1> DEFINE N == {m \in Nat : \E g : IsGrowing(g, t, key, m)}
<1>1. 0 \in N
  <2> DEFINE g == [i \in 0 .. 0 |-> Done(t)]
  <2>1. IsGrowing(g, t, key, 0)
    BY DEF IsGrowing
  <2> QED BY <2>1
<1>2. ASSUME NEW m \in Nat, m \in N PROVE m + 1 \in N
  <2>1. PICK g : IsGrowing(g, t, key, m)
    BY <1>2
  <2> DEFINE h == [i \in 0 .. m + 1 |-> IF i <= m THEN g[i] ELSE GrowOnce(g[m], key)]
  <2>2. \A i \in 0 .. m : h[i] = g[i]
    OBVIOUS
  <2>3. \A i \in 0 .. m : g[i] = IF i = 0 THEN Done(t) ELSE GrowOnce(g[i - 1], key)
    BY <2>1 DEF IsGrowing
  <2>4. ASSUME NEW i \in 0 .. m + 1
        PROVE  h[i] = IF i = 0 THEN Done(t) ELSE GrowOnce(h[i - 1], key)
    <3>1. CASE i \in 0 .. m
      <4>1. i # 0 => i - 1 \in 0 .. m
        BY <3>1
      <4> QED BY <3>1, <4>1, <2>2, <2>3
    <3>2. CASE i = m + 1
      <4>1. i # 0 /\ i - 1 = m /\ m \in 0 .. m /\ ~ (i <= m)
        BY <3>2
      <4> QED BY <4>1, <2>2
    <3> QED BY <3>1, <3>2
  <2>5. IsGrowing(h, t, key, m + 1)
    BY <2>4 DEF IsGrowing
  <2> QED BY <2>5
<1> HIDE DEF N
<1>3. Nat \subseteq N
  BY <1>1, <1>2, SetInduction
<1> QED BY <1>3 DEF N

(* Every round keeps the entries, or throws.                               *)
LEMMA GrowingKeeps ==
  ASSUME NEW t, Sound(t), NEW key
  PROVE  Kept(Growing(t, key)[Rounds - 1], t)
<1> DEFINE g == Growing(t, key)
           N == {i \in Nat : i <= Rounds - 1 => Kept(g[i], t)}
<1>1. Rounds - 1 \in Nat
  BY TableAssumption
<1>2. \A i \in 0 .. Rounds - 1 :
        g[i] = IF i = 0 THEN Done(t) ELSE GrowOnce(g[i - 1], key)
  <2>1. \E h : IsGrowing(h, t, key, Rounds - 1)
    BY <1>1, GrowingExists
  <2>2. g = CHOOSE h : IsGrowing(h, t, key, Rounds - 1)
    BY DEF Growing, IsGrowing
  <2> HIDE DEF g
  <2>3. IsGrowing(g, t, key, Rounds - 1)
    BY <2>1, <2>2
  <2> QED BY <2>3 DEF IsGrowing
<1> HIDE DEF g
<1>3. 0 \in N
  <2>1. g[0] = Done(t)
    BY <1>1, <1>2
  <2> QED BY <2>1, NothingMoves
<1>4. ASSUME NEW i \in Nat, i \in N PROVE i + 1 \in N
  <2> SUFFICES ASSUME i + 1 <= Rounds - 1 PROVE Kept(g[i + 1], t)
    OBVIOUS
  <2>1. i <= Rounds - 1 /\ i + 1 \in 0 .. Rounds - 1 /\ i + 1 # 0 /\ (i + 1) - 1 = i
    BY <1>1
  <2>2. g[i + 1] = GrowOnce(g[i], key)
    BY <1>2, <2>1
  <2>3. Kept(g[i], t)
    BY <1>4, <2>1
  <2>4. CASE Settled(g[i], key)
    BY <2>2, <2>3, <2>4 DEF GrowOnce
  <2>5. CASE ~ Settled(g[i], key)
    <3>1. g[i + 1] = increase_size(g[i].table)
      BY <2>2, <2>5 DEF GrowOnce
    <3>2. ~ g[i].threw /\ Sound(g[i].table)
      BY <2>3, <2>5 DEF Settled, Kept
    <3>3. Kept(g[i + 1], g[i].table)
      BY <3>1, <3>2, IncreaseSizeKeeps
    <3> QED BY <2>3, <3>2, <3>3, KeptGoesOn
  <2> QED BY <2>4, <2>5
<1> HIDE DEF N
<1>5. Nat \subseteq N
  BY <1>3, <1>4, SetInduction
<1> QED BY <1>1, <1>5 DEF N, g

(* The search ends with a table that has the key or room for it, or throws. *)
LEMMA GrownKeeps ==
  ASSUME NEW t, Sound(t), NEW key
  PROVE  Kept(Grown(t, key), t) /\ Settled(Grown(t, key), key)
<1> DEFINE r == Growing(t, key)[Rounds - 1]
           u == increase_size(r.table)
<1>1. Kept(r, t)
  BY GrowingKeeps
<1>2. Grown(t, key) = IF Settled(r, key) THEN r ELSE Thrown(u.table)
  BY DEF Grown, Concluded
<1> HIDE DEF r
<1>3. CASE Settled(r, key)
  BY <1>1, <1>2, <1>3
<1>4. CASE ~ Settled(r, key)
  <2>1. ~ r.threw /\ Sound(r.table)
    BY <1>1, <1>4 DEF Settled, Kept
  <2>2. Kept(u, r.table)
    BY <2>1, IncreaseSizeKeeps
  <2> HIDE DEF u
  <2>3. Kept(u, t)
    BY <1>1, <2>1, <2>2, KeptGoesOn
  <2>4. Grown(t, key) = Thrown(u.table)
    BY <1>2, <1>4
  <2> HIDE DEF u
  <2>5. Kept(Thrown(u.table), t) /\ Settled(Thrown(u.table), key)
    BY <2>3, ResultsAre DEF Kept, Settled
  <2> QED BY <2>4, <2>5
<1> QED BY <1>3, <1>4

(***************************************************************************)
(* emplace, operator[] and insert_or_assign.                               *)
(***************************************************************************)
(* A node gives way to one with the same key.                              *)
LEMMA NodeReplacedKeeps ==
  ASSUME NEW t, Sound(t), NEW x \in Nodes(t), NEW node \in Entry, node.key = t.node[x].key,
         NEW u, u = [t EXCEPT !.node[x] = node]
  PROVE  /\ Sound(u) /\ u.hash = t.hash
         /\ Entries(u) = {n \in Entries(t) : n.key # node.key} \cup {node}
<1>1. /\ IsTable(t) /\ IsRecord(t) /\ BytesTell(t) /\ SentinelStands(t) /\ RunsRise(t)
      /\ KeysDiffer(t) /\ BytesHaveRoom(t) /\ CountIsRight(t)
  BY DEF Sound, IsTable
<1> DEFINE N == [t.node EXCEPT ![x] = node]
<1>2. u = [t EXCEPT !.node = N]
  OBVIOUS
<1>3. /\ IsRecord(u) /\ SameSize(u, t) /\ u.num = t.num /\ u.max = t.max /\ u.info = t.info
      /\ u.node = N
  <2> HIDE DEF N
  <2> QED BY <1>1, <1>2 DEF IsRecord, SameSize
<1>4. /\ End(u) = End(t) /\ End(t) \in Nat
      /\ \A k : Home(u, k) = Home(t, k)
      /\ \A k, y : Byte(u, k, y) = Byte(t, k, y)
      /\ u.inc = t.inc /\ u.mask = t.mask /\ u.hash = t.hash /\ u.mult = t.mult
      /\ u.shift = t.shift
  <2>1. SameSize(u, t)
    BY <1>3
  <2>2. /\ End(u) = End(t)
        /\ \A k : Home(u, k) = Home(t, k)
        /\ \A k, y : Byte(u, k, y) = Byte(t, k, y)
    BY <2>1, SameProbes
  <2>3. End(t) \in Nat
    BY <1>1, EndIs DEF IsTable
  <2> QED BY <2>1, <2>2, <2>3 DEF SameSize
<1>5. /\ x \in 0 .. End(t) - 1 /\ t.info[x] # 0 /\ t.node[x] \in Entry
      /\ DOMAIN t.node = 0 .. End(t) - 1 /\ DOMAIN N = 0 .. End(t) - 1
  BY <1>1, NodesAre DEF IsTable
<1>6. N[x] = node /\ \A y \in 0 .. End(t) - 1 : y # x => N[y] = t.node[y]
  BY <1>5
<1>7. NoNode \notin Entry
  BY TableAssumption DEF NoNode, Entry
<1>8. \A y \in 0 .. End(t) - 1 : /\ N[y].key = t.node[y].key
                                 /\ N[y] = NoNode <=> t.node[y] = NoNode
                                 /\ N[y] \in Entry <=> t.node[y] \in Entry
  BY <1>5, <1>6, <1>7
<1>9. u.node \in [0 .. End(t) - 1 -> Entry \cup {NoNode}]
  <2>1. t.node \in [0 .. End(t) - 1 -> Entry \cup {NoNode}]
    BY <1>1 DEF IsTable
  <2>2. N \in [0 .. End(t) - 1 -> Entry \cup {NoNode}]
    BY <1>5, <2>1
  <2> QED BY <1>3, <2>2
<1> HIDE DEF N
<1>10. IsTable(u)
  <2>1. UsesHash(u) /\ UsesUnit(u)
    BY <1>1, <1>4 DEF IsTable, UsesHash, UsesUnit
  <2>2. /\ t.num \in Nat /\ t.mask \in Nat /\ t.max \in {0, calcMaxNumElementsAllowed(t.mask + 1)}
        /\ t.info \in [0 .. calcNumBytesInfo(End(t)) - 1 -> 0 .. MaxInfo]
    BY <1>1 DEF IsTable
  <2> QED BY <1>3, <1>4, <1>9, <2>1, <2>2 DEF IsTable
<1>11. BytesTell(u)
  <2> SUFFICES ASSUME NEW y \in 0 .. End(t) - 1
               PROVE  \/ u.info[y] = 0 /\ u.node[y] = NoNode
                      \/ /\ u.info[y] # 0 /\ u.node[y] \in Entry
                         /\ Home(u, u.node[y].key) <= y
                         /\ u.info[y] = Byte(u, u.node[y].key, y)
    BY <1>4 DEF BytesTell
  <2>1. \/ t.info[y] = 0 /\ t.node[y] = NoNode
        \/ /\ t.info[y] # 0 /\ t.node[y] \in Entry
           /\ Home(t, t.node[y].key) <= y
           /\ t.info[y] = Byte(t, t.node[y].key, y)
    BY <1>1 DEF BytesTell
  <2>2. u.info[y] = t.info[y] /\ u.node[y] = N[y]
    BY <1>3
  <2> QED BY <1>4, <1>8, <2>1, <2>2
<1>12. SentinelStands(u) /\ RunsRise(u) /\ BytesHaveRoom(u)
  BY <1>1, <1>3, <1>4 DEF SentinelStands, RunsRise, BytesHaveRoom
<1>13. KeysDiffer(u)
  BY <1>1, <1>3, <1>4, <1>8 DEF KeysDiffer
<1>14. Nodes(u) = Nodes(t)
  <2>1. Nodes(u) = {y \in 0 .. End(u) - 1 : u.info[y] # 0}
    BY <1>10, <1>11, NodesAre
  <2>2. Nodes(t) = {y \in 0 .. End(t) - 1 : t.info[y] # 0}
    BY <1>1, NodesAre
  <2> QED BY <1>3, <1>4, <2>1, <2>2
<1>15. CountIsRight(u)
  BY <1>1, <1>3, <1>4, <1>14 DEF CountIsRight
<1>16. ASSUME NEW n \in Entries(u) PROVE n \in {m \in Entries(t) : m.key # node.key} \cup {node}
  <2>1. PICK y \in Nodes(t) : n = N[y]
    BY <1>3, <1>14 DEF Entries
  <2>2. y \in 0 .. End(t) - 1 /\ t.node[y] # NoNode
    BY <1>1, <1>5, <2>1 DEF Nodes
  <2>3. CASE y = x
    BY <1>6, <2>1, <2>3
  <2>4. CASE y # x
    <3>1. n = t.node[y] /\ n \in Entries(t)
      BY <1>6, <2>1, <2>2, <2>4 DEF Entries
    <3>2. n.key # node.key
      BY <1>1, <1>5, <2>2, <2>4, <3>1 DEF KeysDiffer
    <3> QED BY <3>1, <3>2
  <2> QED BY <2>3, <2>4
<1>17. ASSUME NEW n \in {m \in Entries(t) : m.key # node.key} \cup {node} PROVE n \in Entries(u)
  <2>1. CASE n = node
    BY <1>3, <1>6, <1>14, <2>1 DEF Entries
  <2>2. CASE n \in Entries(t) /\ n.key # node.key
    <3>1. PICK y \in Nodes(t) : n = t.node[y]
      BY <2>2 DEF Entries
    <3>2. y \in 0 .. End(t) - 1 /\ y # x
      BY <1>5, <2>2, <3>1 DEF Nodes
    <3>3. N[y] = n
      BY <1>6, <3>1, <3>2
    <3> QED BY <1>3, <1>14, <3>1, <3>3 DEF Entries
  <2> QED BY <1>17, <2>1, <2>2
<1>18. Entries(u) = {n \in Entries(t) : n.key # node.key} \cup {node}
  BY <1>16, <1>17
<1> QED BY <1>4, <1>10, <1>11, <1>12, <1>13, <1>15, <1>18 DEF Sound

(* What an insertion leaves.                                               *)
InsertedInto(r, t, node, assigns) ==
  /\ r.threw \in BOOLEAN /\ Sound(r.table) /\ r.table.hash = t.hash
  /\ r.threw => Entries(r.table) \subseteq Entries(t)
  /\ ~ r.threw /\ node.key \notin KeysOf(t) => Entries(r.table) = Entries(t) \cup {node}
  /\ ~ r.threw /\ node.key \in KeysOf(t) =>
       Entries(r.table) = IF assigns THEN {n \in Entries(t) : n.key # node.key} \cup {node}
                          ELSE Entries(t)

(* An insertion ends with the entry in a sound table, or throws.           *)
LEMMA InsertedKeeps ==
  ASSUME NEW t, Sound(t), NEW node \in Entry, NEW assigns \in BOOLEAN
  PROVE  InsertedInto(Inserted(t, node, assigns), t, node, assigns)
<1> DEFINE key == node.key
           r == Grown(t, key)
           w == ProbeFor(r.table, key)
           q == Inserted(t, node, assigns)
<1>1. key \in Keys
  BY DEF Entry
<1>2. Kept(r, t) /\ Settled(r, key)
  BY GrownKeeps
<1>3. /\ r.threw => q = r
      /\ ~ r.threw /\ w.found =>
           q = Done(IF assigns THEN [r.table EXCEPT !.node[w.probe.idx] = node] ELSE r.table)
      /\ ~ r.threw /\ ~ w.found => q = Done(Place(r.table, w.probe, node))
  BY DEF Inserted, Entered
<1> HIDE DEF r, q
<1>4. CASE r.threw
  BY <1>2, <1>3, <1>4 DEF Kept, InsertedInto, q
<1>5. CASE ~ r.threw
  <2> DEFINE u == r.table
  <2>1. Sound(u) /\ u.hash = t.hash /\ Entries(u) = Entries(t) /\ KeysOf(u) = KeysOf(t)
    BY <1>2, <1>5, KeysOfEntries DEF Kept
  <2>2. w.found \/ u.num < u.max
    BY <1>2, <1>5 DEF Settled
  <2> HIDE DEF u
  <2>3. CASE key \in KeysOf(t)
    <3>1. PICK x \in Nodes(u) : u.node[x].key = key
      BY <2>1, <2>3 DEF KeysOf
    <3>2. ProbeFor(u, key) = [found |-> TRUE, probe |-> ProbeOf(u, key, x)]
      BY <1>1, <2>1, <3>1, ProbeForIs
    <3>3. w.found /\ w.probe.idx = x
      BY <3>2 DEF u, ProbeOf
    <3>4. CASE assigns
      <4> DEFINE v == [u EXCEPT !.node[x] = node]
      <4>1. q = Done(v)
        BY <1>3, <1>5, <3>3, <3>4 DEF u
      <4>2. /\ Sound(v) /\ v.hash = u.hash
            /\ Entries(v) = {n \in Entries(u) : n.key # key} \cup {node}
        BY <2>1, <3>1, NodeReplacedKeeps
      <4> HIDE DEF v, key
      <4>3. InsertedInto(q, t, node, assigns)
        BY <2>1, <2>3, <3>4, <4>1, <4>2, ResultsAre DEF InsertedInto, key
      <4> QED BY <4>3 DEF q
    <3>5. CASE ~ assigns
      <4>1. q = Done(u)
        BY <1>3, <1>5, <3>3, <3>5 DEF u
      <4> HIDE DEF key
      <4>2. InsertedInto(q, t, node, assigns)
        BY <2>1, <2>3, <3>5, <4>1, ResultsAre DEF InsertedInto, key
      <4> QED BY <4>2 DEF q
    <3> QED BY <3>4, <3>5
  <2>4. CASE key \notin KeysOf(t)
    <3>1. PICK y : /\ IsSpot(u, key, y)
                   /\ ProbeFor(u, key) = [found |-> FALSE, probe |-> ProbeOf(u, key, y)]
      BY <1>1, <2>1, <2>4, ProbeForIs
    <3>2. ~ w.found /\ w.probe = ProbeOf(u, key, y)
      BY <3>1 DEF u
    <3> DEFINE v == Place(u, ProbeOf(u, key, y), node)
    <3>3. q = Done(v)
      BY <1>3, <1>5, <3>2 DEF u
    <3>4. Sound(v) /\ SameSize(v, u) /\ Entries(v) = Entries(u) \cup {node}
      BY <2>1, <2>2, <2>4, <3>1, <3>2, PlaceKeeps
    <3>5. v.hash = u.hash
      BY <3>4 DEF SameSize
    <3> HIDE DEF v, key
    <3>6. InsertedInto(q, t, node, assigns)
      BY <2>1, <2>4, <3>3, <3>4, <3>5, ResultsAre DEF InsertedInto, key
    <3> QED BY <3>6 DEF q
  <2> QED BY <2>3, <2>4
<1> QED BY <1>4, <1>5

(***************************************************************************)
(* Answers.                                                                *)
(***************************************************************************)
(* The map that entries make.                                              *)
Represents(m, E) ==
  /\ m = [k \in {n.key : n \in E} |-> m[k]]
  /\ \A n \in E : m[n.key] = n.value

OneEach(E) == \A n, l \in E : n.key = l.key => n = l

(* The entries of a sound table have different keys.                       *)
LEMMA EntriesAreOneEach ==
  ASSUME NEW t, Sound(t)
  PROVE  OneEach(Entries(t)) /\ Entries(t) \subseteq Entry
<1>1. Stored(t)
  BY SoundIsStored
<1> QED BY <1>1 DEF Stored, Entries, OneEach

(* contains and at answer with the entries.                                *)
LEMMA ContentsAre ==
  ASSUME NEW t, Sound(t)
  PROVE  Represents(Contents(t), Entries(t)) /\ DOMAIN Contents(t) = KeysOf(t)
<1>1. IsTable(t) /\ BytesTell(t)
  BY DEF Sound
<1>2. /\ End(t) \in Nat
      /\ \A x \in Nodes(t) : x \in Nat /\ x < End(t) /\ t.node[x] \in Entry /\ t.node[x].key \in Keys
      /\ KeysOf(t) \subseteq Keys
  BY <1>1, NodesAre
<1>3. /\ \A k \in Keys : k \notin KeysOf(t) => findIdx(t, k) = End(t)
      /\ \A x \in Nodes(t) : findIdx(t, t.node[x].key) = x
  BY <1>2, FindIs
<1>4. {k \in Keys : findIdx(t, k) # End(t)} = KeysOf(t)
  <2>1. ASSUME NEW k \in KeysOf(t) PROVE findIdx(t, k) # End(t)
    <3>1. PICK x \in Nodes(t) : k = t.node[x].key
      BY DEF KeysOf
    <3> QED BY <1>2, <1>3, <3>1
  <2> QED BY <1>2, <1>3, <2>1
<1>5. Contents(t) = [k \in KeysOf(t) |-> t.node[findIdx(t, k)].value]
  <2> DEFINE idx == [k \in Keys |-> findIdx(t, k)]
  <2>1. Contents(t) = [k \in {k \in Keys : idx[k] # End(t)} |-> t.node[idx[k]].value]
    BY DEF Contents
  <2>2. \A k \in Keys : idx[k] = findIdx(t, k)
    OBVIOUS
  <2> HIDE DEF idx
  <2>3. {k \in Keys : idx[k] # End(t)} = KeysOf(t)
    BY <1>4, <2>2
  <2> QED BY <1>2, <2>1, <2>2, <2>3
<1>6. ASSUME NEW n \in Entries(t) PROVE Contents(t)[n.key] = n.value
  <2>1. PICK x \in Nodes(t) : n = t.node[x]
    BY DEF Entries
  <2>2. n.key \in KeysOf(t) /\ findIdx(t, n.key) = x
    BY <1>3, <2>1 DEF KeysOf
  <2> QED BY <1>5, <2>1, <2>2
<1>7. {n.key : n \in Entries(t)} = KeysOf(t)
  BY KeysOfEntries
<1>8. Contents(t) = [k \in {n.key : n \in Entries(t)} |-> Contents(t)[k]]
  BY <1>5, <1>7
<1> QED BY <1>5, <1>6, <1>8 DEF Represents

(* Entries make one map.                                                   *)
LEMMA RepresentsOnce ==
  ASSUME NEW E, NEW m, NEW w, Represents(m, E), Represents(w, E)
  PROVE  m = w
<1> DEFINE K == {n.key : n \in E}
<1>1. m = [k \in K |-> m[k]] /\ w = [k \in K |-> w[k]]
  BY DEF Represents
<1>2. \A k \in K : m[k] = w[k]
  BY DEF Represents
<1> HIDE DEF K
<1> QED BY <1>1, <1>2

(* What becomes of the answers when entries come and go.                   *)
LEMMA SameAnswers ==
  ASSUME NEW t, Sound(t), NEW u, Sound(u), Entries(u) = Entries(t)
  PROVE  Contents(u) = Contents(t)
BY ContentsAre, RepresentsOnce

(* No entry, no answer.                                                    *)
LEMMA NoAnswers ==
  ASSUME NEW u, Sound(u), Entries(u) = {}
  PROVE  Contents(u) = << >>
<1>1. {n.key : n \in Entries(u)} = {}
  OBVIOUS
<1>2. << >> = [k \in {} |-> << >>[k]]
  OBVIOUS
<1>3. Represents(<< >>, Entries(u))
  BY <1>1, <1>2 DEF Represents
<1> QED BY <1>3, ContentsAre, RepresentsOnce

(* Entries that are lost take their keys with them.                        *)
LEMMA FewerAnswers ==
  ASSUME NEW t, Sound(t), NEW u, Sound(u), Entries(u) \subseteq Entries(t)
  PROVE  /\ KeysOf(u) \subseteq DOMAIN Contents(t)
         /\ Contents(u) = Maps!Only(Contents(t), KeysOf(u))
<1> DEFINE m == Contents(t)
           w == Maps!Only(m, KeysOf(u))
<1>1. Represents(m, Entries(t)) /\ DOMAIN m = KeysOf(t)
  BY ContentsAre
<1>2. KeysOf(u) = {n.key : n \in Entries(u)} /\ KeysOf(t) = {n.key : n \in Entries(t)}
  BY KeysOfEntries
<1>3. KeysOf(u) \subseteq DOMAIN m
  BY <1>1, <1>2
<1>4. w = [k \in KeysOf(u) |-> m[k]]
  BY DEF Maps!Only
<1> HIDE DEF m, w
<1>5. \A n \in Entries(u) : w[n.key] = n.value
  BY <1>1, <1>2, <1>4 DEF Represents
<1>6. w = [k \in {n.key : n \in Entries(u)} |-> w[k]]
  BY <1>2, <1>4
<1>7. Represents(w, Entries(u))
  BY <1>5, <1>6 DEF Represents
<1>8. Contents(u) = w
  BY <1>7, ContentsAre, RepresentsOnce
<1> QED BY <1>3, <1>8 DEF m, w

(* A new entry, in place of the one with its key.                          *)
LEMMA OneMoreAnswer ==
  ASSUME NEW t, Sound(t), NEW u, Sound(u), NEW node,
         Entries(u) = {n \in Entries(t) : n.key # node.key} \cup {node}
  PROVE  Contents(u) = Maps!With(Contents(t), node.key, node.value)
<1> DEFINE m == Contents(t)
           k == node.key
           w == Maps!With(m, k, node.value)
<1>1. Represents(m, Entries(t)) /\ DOMAIN m = KeysOf(t)
  BY ContentsAre
<1>2. {n.key : n \in Entries(u)} = KeysOf(t) \cup {k}
  BY KeysOfEntries
<1>3. w = [x \in KeysOf(t) \cup {k} |-> IF x = k THEN node.value ELSE m[x]]
  BY <1>1 DEF Maps!With
<1> HIDE DEF m, w
<1>4. ASSUME NEW n \in Entries(u) PROVE w[n.key] = n.value
  <2>1. CASE n = node
    BY <1>3, <2>1
  <2>2. CASE n \in Entries(t) /\ n.key # k
    <3>1. n.key \in KeysOf(t)
      BY <2>2, KeysOfEntries
    <3> QED BY <1>1, <1>3, <2>2, <3>1 DEF Represents
  <2> QED BY <2>1, <2>2
<1>5. w = [x \in {n.key : n \in Entries(u)} |-> w[x]]
  BY <1>2, <1>3
<1>6. Represents(w, Entries(u))
  BY <1>4, <1>5 DEF Represents
<1>7. Contents(u) = w
  BY <1>6, ContentsAre, RepresentsOnce
<1> QED BY <1>7 DEF m, w

(* An entry that is taken away.                                            *)
LEMMA OneAnswerLess ==
  ASSUME NEW t, Sound(t), NEW u, Sound(u), NEW node \in Entries(t),
         Entries(u) = Entries(t) \ {node}
  PROVE  Contents(u) = Maps!Only(Contents(t), DOMAIN Contents(t) \ {node.key})
<1>1. OneEach(Entries(t))
  BY EntriesAreOneEach
<1>2. KeysOf(u) = KeysOf(t) \ {node.key}
  BY <1>1, KeysOfEntries DEF OneEach
<1> QED BY <1>2, FewerAnswers, ContentsAre

(***************************************************************************)
(* The inductive invariant of the tables and the calls that keep it.       *)
(***************************************************************************)
(* The inductive invariant of the tables.                                  *)
TableOK(t) == Sound(t) /\ t.hash \in HashFunctions /\ t.mask < MaxBuckets

TablesInv ==
  /\ last \in Kinds
  /\ tables = [n \in Names |-> tables[n]]
  /\ answers = [n \in Names |-> Contents(tables[n])]
  /\ \A n \in Names : TableOK(tables[n])

(* A call on one table.                                                    *)
LEMMA ResultsKeep ==
  ASSUME TablesInv, NEW n \in Names, NEW kind \in Kinds, NEW r,
         Sound(r.table), r.table.hash \in HashFunctions, Results(kind, n, r)
  PROVE  /\ TablesInv'
         /\ answers' = [answers EXCEPT ![n] = Contents(r.table)]
         /\ answers[n] = Contents(tables[n]) /\ n \in DOMAIN answers
<1>1. /\ tables' = [tables EXCEPT ![n] = r.table]
      /\ answers' = [answers EXCEPT ![n] = Contents(r.table)]
      /\ last' = (IF r.threw THEN "threw" ELSE kind)
      /\ r.table.mask < MaxBuckets
  BY DEF Results
<1>2. TableOK(r.table)
  BY <1>1 DEF TableOK
<1>3. /\ tables = [o \in Names |-> tables[o]]
      /\ answers = [o \in Names |-> Contents(tables[o])]
      /\ \A o \in Names : TableOK(tables[o])
  BY DEF TablesInv
<1>4. last' \in Kinds
  <2>1. "threw" \in Kinds
    BY DEF Kinds
  <2> QED BY <1>1, <2>1
<1>5. tables'[n] = r.table /\ \A o \in Names : o # n => tables'[o] = tables[o]
  BY <1>1, <1>3
<1>6. tables' = [o \in Names |-> tables'[o]]
  BY <1>1, <1>3
<1>7. answers' = [o \in Names |-> Contents(tables'[o])]
  BY <1>1, <1>3, <1>5
<1>8. \A o \in Names : TableOK(tables'[o])
  BY <1>2, <1>3, <1>5
<1> QED BY <1>1, <1>3, <1>4, <1>6, <1>7, <1>8 DEF TablesInv

(* A call on two tables.                                                   *)
LEMMA BothKeep ==
  ASSUME TablesInv, NEW n \in Names, NEW o \in Names, n # o, NEW kind \in Kinds,
         NEW tn, NEW to, TableOK(tn), TableOK(to), Both(kind, n, tn, o, to)
  PROVE  /\ TablesInv'
         /\ answers' = [answers EXCEPT ![n] = Contents(tn), ![o] = Contents(to)]
         /\ answers[n] = Contents(tables[n]) /\ answers[o] = Contents(tables[o])
         /\ last' = kind
<1>1. /\ tables' = [tables EXCEPT ![n] = tn, ![o] = to]
      /\ answers' = [answers EXCEPT ![n] = Contents(tn), ![o] = Contents(to)]
      /\ last' = kind
  BY DEF Both
<1>2. /\ tables = [m \in Names |-> tables[m]]
      /\ answers = [m \in Names |-> Contents(tables[m])]
      /\ \A m \in Names : TableOK(tables[m])
  BY DEF TablesInv
<1>3. tables'[n] = tn /\ tables'[o] = to /\ \A m \in Names : m # n /\ m # o => tables'[m] = tables[m]
  BY <1>1, <1>2
<1>4. tables' = [m \in Names |-> tables'[m]]
  BY <1>1, <1>2
<1>5. answers' = [m \in Names |-> Contents(tables'[m])]
  BY <1>1, <1>2, <1>3
<1>6. \A m \in Names : TableOK(tables'[m])
  BY <1>2, <1>3
<1> QED BY <1>1, <1>2, <1>4, <1>5, <1>6 DEF TablesInv

(* A call that throws may lose entries.                                    *)
LEMMA Overflows ==
  ASSUME TablesInv, NEW n \in Names, NEW kind \in Kinds, NEW r, r.threw,
         Sound(r.table), r.table.hash \in HashFunctions,
         Entries(r.table) \subseteq Entries(tables[n]), Results(kind, n, r)
  PROVE  Maps!Next
<1>1. Sound(tables[n])
  BY DEF TablesInv, TableOK
<1>2. /\ answers' = [answers EXCEPT ![n] = Contents(r.table)]
      /\ answers[n] = Contents(tables[n])
  BY ResultsKeep
<1>3. last' = "threw"
  BY DEF Results
<1>4. /\ KeysOf(r.table) \subseteq DOMAIN answers[n]
      /\ Contents(r.table) = Maps!Only(answers[n], KeysOf(r.table))
  BY <1>1, <1>2, FewerAnswers
<1>5. Maps!Overflow(n)
  BY <1>2, <1>3, <1>4 DEF Maps!Overflow, Maps!Becomes
<1> QED BY <1>5 DEF Maps!Next

(* A call that rearranges a table.                                         *)
LEMMA Rearranges ==
  ASSUME TablesInv, NEW n \in Names, NEW r, Kept(r, tables[n]), Results("layout", n, r)
  PROVE  TablesInv' /\ Maps!Next
<1>1. Sound(tables[n]) /\ tables[n].hash \in HashFunctions
  BY DEF TablesInv, TableOK
<1>2. /\ Sound(r.table) /\ r.table.hash \in HashFunctions
      /\ Entries(r.table) \subseteq Entries(tables[n])
      /\ ~ r.threw => Entries(r.table) = Entries(tables[n])
  BY <1>1 DEF Kept
<1>3. "layout" \in Kinds
  BY DEF Kinds
<1>4. /\ TablesInv'
      /\ answers' = [answers EXCEPT ![n] = Contents(r.table)]
      /\ answers[n] = Contents(tables[n])
  BY <1>2, <1>3, ResultsKeep
<1>5. CASE r.threw
  BY <1>2, <1>3, <1>4, <1>5, Overflows
<1>6. CASE ~ r.threw
  <2>1. Contents(r.table) = Contents(tables[n])
    BY <1>1, <1>2, <1>6, SameAnswers
  <2>2. answers' = answers
    BY <1>4, <2>1 DEF TablesInv
  <2>3. last' = "layout"
    BY <1>6 DEF Results
  <2>4. Maps!Rearrange
    BY <2>2, <2>3 DEF Maps!Rearrange
  <2> QED BY <1>4, <2>4 DEF Maps!Next
<1> QED BY <1>5, <1>6

(* The insertions.                                                         *)
LEMMA Inserts ==
  ASSUME TablesInv, NEW n \in Names, NEW k \in Keys, NEW v \in Values,
         NEW assigns \in BOOLEAN,
         Results(IF assigns THEN "assign" ELSE "emplace", n,
                 Inserted(tables[n], [key |-> k, value |-> v], assigns))
  PROVE  TablesInv' /\ Maps!Next
<1> DEFINE t == tables[n]
           node == [key |-> k, value |-> v]
           r == Inserted(t, node, assigns)
           kind == IF assigns THEN "assign" ELSE "emplace"
<1>1. Sound(t) /\ t.hash \in HashFunctions
  BY DEF TablesInv, TableOK
<1>2. node \in Entry /\ node.key = k /\ node.value = v
  BY DEF Entry
<1>3. InsertedInto(r, t, node, assigns) /\ Results(kind, n, r)
  BY <1>1, <1>2, InsertedKeeps
<1>4. kind \in Kinds
  BY DEF Kinds
<1> HIDE DEF r, node, kind
<1>5. /\ Sound(r.table) /\ r.table.hash \in HashFunctions
      /\ r.threw => Entries(r.table) \subseteq Entries(t)
      /\ ~ r.threw /\ k \notin KeysOf(t) => Entries(r.table) = Entries(t) \cup {node}
      /\ ~ r.threw /\ k \in KeysOf(t) =>
           Entries(r.table) = IF assigns THEN {l \in Entries(t) : l.key # k} \cup {node}
                              ELSE Entries(t)
  BY <1>1, <1>2, <1>3 DEF InsertedInto
<1>6. /\ TablesInv'
      /\ answers' = [answers EXCEPT ![n] = Contents(r.table)]
      /\ answers[n] = Contents(t)
  BY <1>3, <1>4, <1>5, ResultsKeep
<1>7. DOMAIN Contents(t) = KeysOf(t)
  BY <1>1, ContentsAre
<1>8. CASE r.threw
  BY <1>3, <1>4, <1>5, <1>6, <1>8, Overflows
<1>9. CASE ~ r.threw
  <2>1. last' = kind
    BY <1>3, <1>9 DEF Results
  <2>2. k \notin KeysOf(t) => Contents(r.table) = Maps!With(answers[n], k, v)
    <3> HAVE k \notin KeysOf(t)
    <3>1. Entries(t) = {l \in Entries(t) : l.key # k}
      BY KeysOfEntries
    <3> QED BY <1>1, <1>2, <1>5, <1>6, <1>9, <3>1, OneMoreAnswer
  <2>3. k \in KeysOf(t) /\ assigns => Contents(r.table) = Maps!With(answers[n], k, v)
    BY <1>1, <1>2, <1>5, <1>6, <1>9, OneMoreAnswer
  <2>4. k \in KeysOf(t) /\ ~ assigns => Contents(r.table) = answers[n]
    BY <1>1, <1>5, <1>6, <1>9, SameAnswers
  <2>5. CASE assigns
    <3>1. Maps!Assign(n, k, v)
      BY <1>6, <2>1, <2>2, <2>3, <2>5 DEF Maps!Assign, Maps!Becomes, kind
    <3> QED BY <1>6, <3>1 DEF Maps!Next
  <2>6. CASE ~ assigns
    <3>1. Maps!Emplace(n, k, v)
      BY <1>6, <1>7, <2>1, <2>2, <2>4, <2>6 DEF Maps!Emplace, Maps!Becomes, kind
    <3> QED BY <1>6, <3>1 DEF Maps!Next
  <2> QED BY <2>5, <2>6
<1> QED BY <1>8, <1>9

(* A node is taken away.                                                   *)
LEMMA Erases ==
  ASSUME TablesInv, NEW n \in Names, NEW i \in Nodes(tables[n]),
         Results("erase", n, Done(Removed(tables[n], i)))
  PROVE  TablesInv' /\ Maps!Next
<1> DEFINE t == tables[n]
           u == Removed(t, i)
           r == Done(u)
           node == t.node[i]
<1>1. Sound(t) /\ t.hash \in HashFunctions
  BY DEF TablesInv, TableOK
<1>2. Sound(u) /\ u.hash = t.hash /\ Entries(u) = Entries(t) \ {node}
  BY <1>1, RemovedKeeps DEF SameSize
<1>3. node \in Entries(t) /\ node.key \in Keys
  <2>1. IsTable(t) /\ BytesTell(t)
    BY <1>1 DEF Sound
  <2> QED BY <2>1, NodesAre DEF Entries
<1>4. "erase" \in Kinds
  BY DEF Kinds
<1>5. Results("erase", n, r)
  OBVIOUS
<1> HIDE DEF u, node
<1>6. r.table = u /\ ~ r.threw
  BY ResultsAre
<1> HIDE DEF r
<1>7. /\ TablesInv'
      /\ answers' = [answers EXCEPT ![n] = Contents(u)]
      /\ answers[n] = Contents(t)
  BY <1>1, <1>2, <1>4, <1>5, <1>6, ResultsKeep
<1>8. last' = "erase"
  BY <1>5, <1>6 DEF Results
<1>9. Contents(u) = Maps!Only(answers[n], DOMAIN answers[n] \ {node.key})
  BY <1>1, <1>2, <1>3, <1>7, OneAnswerLess
<1>10. Maps!Erase(n, node.key)
  BY <1>7, <1>8, <1>9 DEF Maps!Erase, Maps!Becomes
<1> QED BY <1>3, <1>7, <1>10 DEF Maps!Next

(* A key is erased, if it is there.                                        *)
LEMMA ErasesKey ==
  ASSUME TablesInv, NEW n \in Names, NEW k \in Keys, EraseKey(n, k)
  PROVE  TablesInv' /\ Maps!Next
<1> DEFINE t == tables[n]
<1>1. Sound(t) /\ t.hash \in HashFunctions
  BY DEF TablesInv, TableOK
<1>2. Results("erase", n, Done(eraseKey(t, k)))
  BY DEF EraseKey
<1>3. CASE k \in KeysOf(t)
  <2>1. PICK i \in Nodes(t) : t.node[i].key = k
    BY <1>3 DEF KeysOf
  <2>2. eraseKey(t, k) = Removed(t, i)
    BY <1>1, <2>1, EraseKeyIs
  <2> QED BY <1>2, <2>1, <2>2, Erases
<1>4. CASE k \notin KeysOf(t)
  <2> DEFINE r == Done(t)
  <2>1. eraseKey(t, k) = t
    BY <1>1, <1>4, EraseKeyIs
  <2>2. Results("erase", n, r)
    BY <1>2, <2>1
  <2>3. r.table = t /\ ~ r.threw
    BY ResultsAre
  <2> HIDE DEF r
  <2>4. "erase" \in Kinds
    BY DEF Kinds
  <2>5. /\ TablesInv'
        /\ answers' = [answers EXCEPT ![n] = Contents(t)]
        /\ answers[n] = Contents(t)
    BY <1>1, <2>2, <2>3, <2>4, ResultsKeep
  <2>6. last' = "erase"
    BY <2>2, <2>3 DEF Results
  <2>7. Contents(t) = Maps!Only(answers[n], DOMAIN answers[n] \ {k})
    <3>1. DOMAIN Contents(t) = KeysOf(t) /\ Contents(t) = [x \in DOMAIN Contents(t) |-> Contents(t)[x]]
      BY <1>1, ContentsAre DEF Represents
    <3>2. DOMAIN Contents(t) \ {k} = DOMAIN Contents(t)
      BY <1>4, <3>1
    <3> QED BY <2>5, <3>1, <3>2 DEF Maps!Only
  <2>8. Maps!Erase(n, k)
    BY <2>5, <2>6, <2>7 DEF Maps!Erase, Maps!Becomes
  <2> QED BY <2>5, <2>8 DEF Maps!Next
<1> QED BY <1>3, <1>4

(* A table is emptied.                                                     *)
LEMMA Empties ==
  ASSUME TablesInv, NEW n \in Names, NEW u, Sound(u), Entries(u) = {},
         u.hash \in HashFunctions, Results("clear", n, Done(u))
  PROVE  TablesInv' /\ Maps!Next
<1> DEFINE r == Done(u)
<1>1. r.table = u /\ ~ r.threw
  BY ResultsAre
<1>2. Results("clear", n, r)
  OBVIOUS
<1> HIDE DEF r
<1>3. "clear" \in Kinds
  BY DEF Kinds
<1>4. TablesInv' /\ answers' = [answers EXCEPT ![n] = Contents(u)]
  BY <1>1, <1>2, <1>3, ResultsKeep
<1>5. last' = "clear"
  BY <1>1, <1>2 DEF Results
<1>6. Contents(u) = << >>
  BY NoAnswers
<1>7. Maps!Clear(n)
  BY <1>4, <1>5, <1>6 DEF Maps!Clear, Maps!Becomes
<1> QED BY <1>4, <1>7 DEF Maps!Next

(* Tables without elements, or with one bucket, have no entries.           *)
LEMMA UnusedTables ==
  ASSUME NEW t, Sound(t)
  PROVE  /\ t.num = 0 => Entries(t) = {}
         /\ t.mask = 0 => Entries(t) = {}
<1>1. IsTable(t) /\ BytesTell(t) /\ CountIsRight(t)
  BY DEF Sound
<1>2. t.num = 0 => Nodes(t) = {}
  <2>1. IsFiniteSet(Nodes(t)) /\ t.num = Cardinality(Nodes(t))
    BY <1>1, NodesAreFinite DEF CountIsRight
  <2>2. Cardinality(Nodes(t)) = 0 <=> Nodes(t) = {}
    BY <2>1, FS_EmptySet
  <2> QED BY <2>1, <2>2
<1>3. t.mask = 0 => Nodes(t) = {}
  <2> HAVE t.mask = 0
  <2>1. 0 .. End(t) - 1 = {}
    BY <1>1, EndIs DEF IsTable
  <2> QED BY <1>1, <2>1, NodesAre
<1> QED BY <1>2, <1>3 DEF Entries

(* An empty table of a size within the bound.                              *)
LEMMA EmptyIsOK ==
  ASSUME NEW u, IsEmpty(u), u.mask = 0, u.hash \in HashFunctions
  PROVE  TableOK(u) /\ Entries(u) = {}
<1>1. Sound(u) /\ Entries(u) = {}
  BY EmptyIsSound
<1>2. 0 < MaxBuckets
  BY ClientAssumption
<1> QED BY <1>1, <1>2 DEF TableOK

(* A new table.                                                            *)
LEMMA FreshIsOK ==
  ASSUME NEW hash \in HashFunctions
  PROVE  TableOK(Fresh(hash)) /\ Entries(Fresh(hash)) = {}
<1>1. hash \in [0 .. Multipliers - 1 -> [Keys -> Nat]]
  BY ClientAssumption
<1>2. IsEmpty(Fresh(hash)) /\ Fresh(hash).hash = hash /\ Fresh(hash).mask = 0
  BY <1>1, FreshIsEmpty
<1> QED BY <1>2, EmptyIsOK

(* A table after init.                                                     *)
LEMMA InitIsOK ==
  ASSUME NEW t, UsesHash(t), t.hash \in HashFunctions
  PROVE  TableOK(init(t)) /\ Entries(init(t)) = {}
<1>1. IsEmpty(init(t)) /\ init(t).hash = t.hash /\ init(t).mask = 0
  BY InitIsEmpty
<1> QED BY <1>1, EmptyIsOK

(* A table after clear.                                                    *)
LEMMA ClearIsOK ==
  ASSUME NEW t, TableOK(t)
  PROVE  TableOK(clear(t)) /\ Entries(clear(t)) = {}
<1>1. /\ Sound(clear(t)) /\ Entries(clear(t)) = {}
      /\ clear(t).hash = t.hash /\ clear(t).mask = t.mask
  BY ClearKeeps DEF TableOK
<1> QED BY <1>1 DEF TableOK

(* The functors of the clients are defined for every multiplier and key.   *)
LEMMA HashIsUsed ==
  ASSUME NEW t, TableOK(t)
  PROVE  UsesHash(t) /\ t.hash \in HashFunctions /\ IsRecord(t)
BY DEF TableOK, Sound, IsTable

(* A copy has the entries of the original.                                 *)
LEMMA CopyConstructedIs ==
  ASSUME NEW o, TableOK(o)
  PROVE  TableOK(CopyConstructed(o)) /\ Entries(CopyConstructed(o)) = Entries(o)
<1>1. TableOK(Fresh(o.hash)) /\ Entries(Fresh(o.hash)) = {}
  BY HashIsUsed, FreshIsOK
<1>2. o.num = 0 => Entries(o) = {}
  BY UnusedTables DEF TableOK
<1> QED BY <1>1, <1>2 DEF CopyConstructed

(* So has a table that is assigned one.                                    *)
LEMMA CopyAssignedIs ==
  ASSUME NEW t, TableOK(t), NEW o, TableOK(o)
  PROVE  TableOK(CopyAssigned(t, o)) /\ Entries(CopyAssigned(t, o)) = Entries(o)
<1> DEFINE w == [t EXCEPT !.hash = o.hash]
           r == CopyAssigned(t, o)
<1>1. /\ o.num = 0 /\ t.mask = 0 => r = t
      /\ o.num = 0 /\ t.mask # 0 => r = init(w)
      /\ o.num # 0 => r = o
  BY DEF CopyAssigned
<1>2. /\ o.num = 0 => Entries(o) = {}
      /\ t.mask = 0 => Entries(t) = {}
  BY UnusedTables DEF TableOK
<1>3. UsesHash(w) /\ w.hash \in HashFunctions
  <2>1. w.hash = o.hash /\ w.mult = t.mult
    BY HashIsUsed DEF IsRecord
  <2>2. UsesHash(o) /\ UsesHash(t) /\ o.hash \in HashFunctions
    BY HashIsUsed
  <2> QED BY <2>1, <2>2 DEF UsesHash
<1> HIDE DEF w, r
<1>4. TableOK(init(w)) /\ Entries(init(w)) = {}
  BY <1>3, InitIsOK
<1>5. TableOK(r) /\ Entries(r) = Entries(o)
  BY <1>1, <1>2, <1>4
<1> QED BY <1>5 DEF r

(* A move carries the entries over and leaves the source empty.            *)
LEMMA MovedIs ==
  ASSUME NEW t, TableOK(t), NEW o, TableOK(o)
  PROVE  /\ TableOK(MoveConstructed(o)) /\ Entries(MoveConstructed(o)) = Entries(o)
         /\ TableOK(MoveAssigned(t, o)) /\ Entries(MoveAssigned(t, o)) = Entries(o)
         /\ TableOK(MovedFrom(o)) /\ Entries(MovedFrom(o)) = {}
<1>1. o.mask = 0 => Entries(o) = {}
  BY UnusedTables DEF TableOK
<1>2. TableOK(Fresh(o.hash)) /\ Entries(Fresh(o.hash)) = {}
  BY HashIsUsed, FreshIsOK
<1>3. TableOK(init(o)) /\ Entries(init(o)) = {}
  BY HashIsUsed, InitIsOK
<1>4. TableOK(clear(t)) /\ Entries(clear(t)) = {}
  BY ClearIsOK
<1> QED BY <1>1, <1>2, <1>3, <1>4 DEF MoveConstructed, MoveAssigned, MovedFrom

(* A swap exchanges the entries.                                           *)
LEMMA SwappedIs ==
  ASSUME NEW t, TableOK(t), NEW o, TableOK(o)
  PROVE  /\ TableOK(Swapped(t, o)[1]) /\ Entries(Swapped(t, o)[1]) = Entries(o)
         /\ TableOK(Swapped(t, o)[2]) /\ Entries(Swapped(t, o)[2]) = Entries(t)
<1> DEFINE tmp == MoveConstructed(o)
           o1 == MovedFrom(o)
           t1 == MovedFrom(t)
           o2 == MoveAssigned(o1, t)
           t2 == MoveAssigned(t1, tmp)
<1>1. Swapped(t, o)[1] = t2 /\ Swapped(t, o)[2] = o2
  BY DEF Swapped
<1>2. TableOK(tmp) /\ Entries(tmp) = Entries(o) /\ TableOK(o1) /\ TableOK(t1)
  BY MovedIs
<1> HIDE DEF tmp, o1, t1
<1>3. TableOK(o2) /\ Entries(o2) = Entries(t) /\ TableOK(t2) /\ Entries(t2) = Entries(o)
  BY <1>2, MovedIs
<1> HIDE DEF o2, t2
<1> QED BY <1>1, <1>3

(* A copy answers like its source.                                         *)
LEMMA Copies ==
  ASSUME TablesInv, NEW n \in Names, NEW o \in Names, n # o, NEW u,
         TableOK(u), Entries(u) = Entries(tables[o]), Results("copy", n, Done(u))
  PROVE  TablesInv' /\ Maps!Next
<1> DEFINE r == Done(u)
<1>1. r.table = u /\ ~ r.threw
  BY ResultsAre
<1>2. Results("copy", n, r)
  OBVIOUS
<1> HIDE DEF r
<1>3. "copy" \in Kinds /\ Sound(u) /\ u.hash \in HashFunctions
  BY DEF Kinds, TableOK
<1>4. TablesInv' /\ answers' = [answers EXCEPT ![n] = Contents(u)]
  BY <1>1, <1>2, <1>3, ResultsKeep
<1>5. last' = "copy"
  BY <1>1, <1>2 DEF Results
<1>6. Sound(tables[o]) /\ answers[o] = Contents(tables[o])
  BY DEF TablesInv, TableOK
<1>7. Contents(u) = answers[o]
  BY <1>3, <1>6, SameAnswers
<1>8. Maps!Copy(n, o)
  BY <1>4, <1>5, <1>7 DEF Maps!Copy, Maps!Becomes
<1>9. o \in Names \ {n}
  OBVIOUS
<1> QED BY <1>4, <1>8, <1>9 DEF Maps!Next

(* What is moved from is empty, what it is moved to answers as it did.     *)
LEMMA Moves ==
  ASSUME TablesInv, NEW n \in Names, NEW o \in Names, n # o, NEW u, NEW w,
         TableOK(u), Entries(u) = Entries(tables[o]),
         TableOK(w), Entries(w) = {}, Both("move", n, u, o, w)
  PROVE  TablesInv' /\ Maps!Next
<1>1. "move" \in Kinds /\ Sound(u) /\ Sound(w)
  BY DEF Kinds, TableOK
<1>2. /\ TablesInv'
      /\ answers' = [answers EXCEPT ![n] = Contents(u), ![o] = Contents(w)]
      /\ answers[o] = Contents(tables[o]) /\ last' = "move"
  BY <1>1, BothKeep
<1>3. Sound(tables[o])
  BY DEF TablesInv, TableOK
<1>4. Contents(u) = answers[o] /\ Contents(w) = << >>
  BY <1>1, <1>2, <1>3, SameAnswers, NoAnswers
<1>5. Maps!Move(n, o)
  BY <1>2, <1>4 DEF Maps!Move
<1>6. o \in Names \ {n}
  OBVIOUS
<1> QED BY <1>2, <1>5, <1>6 DEF Maps!Next

(* swap as a step of the maps.                                             *)
LEMMA Swaps ==
  ASSUME TablesInv, NEW n \in Names, NEW o \in Names, n # o, Swap(n, o)
  PROVE  TablesInv' /\ Maps!Next
<1> DEFINE s == Swapped(tables[n], tables[o])
           u == s[1]
           w == s[2]
<1>1. Both("swap", n, u, o, w)
  BY DEF Swap
<1>2. TableOK(tables[n]) /\ TableOK(tables[o]) /\ Sound(tables[n]) /\ Sound(tables[o])
  BY DEF TablesInv, TableOK
<1>3. /\ TableOK(u) /\ Entries(u) = Entries(tables[o])
      /\ TableOK(w) /\ Entries(w) = Entries(tables[n])
  BY <1>2, SwappedIs
<1> HIDE DEF s, u, w
<1>4. "swap" \in Kinds /\ Sound(u) /\ Sound(w)
  BY <1>3 DEF Kinds, TableOK
<1>5. /\ TablesInv'
      /\ answers' = [answers EXCEPT ![n] = Contents(u), ![o] = Contents(w)]
      /\ answers[o] = Contents(tables[o]) /\ answers[n] = Contents(tables[n])
      /\ last' = "swap"
  BY <1>1, <1>3, <1>4, BothKeep
<1>6. Contents(u) = answers[o] /\ Contents(w) = answers[n]
  BY <1>2, <1>3, <1>4, <1>5, SameAnswers
<1>7. Maps!Swap(n, o)
  BY <1>5, <1>6 DEF Maps!Swap
<1>8. o \in Names \ {n}
  OBVIOUS
<1> QED BY <1>5, <1>7, <1>8 DEF Maps!Next

(***************************************************************************)
(* The tables implement the maps.                                          *)
(***************************************************************************)

(* Initially the tables are empty and sound.                               *)
LEMMA TablesStart == Init => TablesInv /\ Maps!Init
<1> SUFFICES ASSUME Init PROVE TablesInv /\ Maps!Init
  OBVIOUS
<1>1. PICK hash \in HashFunctions : tables = [n \in Names |-> Fresh(hash)]
  BY DEF Init
<1>2. answers = [n \in Names |-> Contents(tables[n])] /\ last = "none"
  BY DEF Init
<1>3. \A n \in Names : tables[n] = Fresh(hash)
  BY <1>1
<1>4. TableOK(Fresh(hash)) /\ Entries(Fresh(hash)) = {}
  BY FreshIsOK
<1>5. Contents(Fresh(hash)) = << >>
  BY <1>4, NoAnswers DEF TableOK
<1>6. TablesInv
  BY <1>1, <1>2, <1>3, <1>4 DEF TablesInv, Kinds
<1>7. Maps!Init
  BY <1>2, <1>3, <1>5 DEF Maps!Init
<1> QED BY <1>6, <1>7

(* Every call keeps the invariant and is a step of the maps.               *)
LEMMA TablesStep ==
  ASSUME TablesInv, Next
  PROVE  TablesInv' /\ Maps!Next
<1>0. \A n \in Names : TableOK(tables[n]) /\ Sound(tables[n]) /\ tables[n].hash \in HashFunctions
  BY DEF TablesInv, TableOK
<1>1. ASSUME NEW n \in Names, NEW k \in Keys, NEW v \in Values,
             Emplace(n, k, v) \/ InsertOrAssign(n, k, v)
      PROVE  TablesInv' /\ Maps!Next
  <2>1. CASE Emplace(n, k, v)
    <3>1. Results("emplace", n, Inserted(tables[n], [key |-> k, value |-> v], FALSE))
      BY <2>1 DEF Emplace, emplace
    <3> QED BY <3>1, Inserts
  <2>2. CASE InsertOrAssign(n, k, v)
    <3>1. Results("assign", n, Inserted(tables[n], [key |-> k, value |-> v], TRUE))
      BY <2>2 DEF InsertOrAssign, insert_or_assign
    <3> QED BY <3>1, Inserts
  <2> QED BY <1>1, <2>1, <2>2
<1>2. ASSUME NEW n \in Names, NEW k \in Keys, EraseKey(n, k) \/ Subscript(n, k)
      PROVE  TablesInv' /\ Maps!Next
  <2>1. CASE EraseKey(n, k)
    BY <2>1, ErasesKey
  <2>2. CASE Subscript(n, k)
    <3>1. Results("emplace", n, Inserted(tables[n], [key |-> k, value |-> blank], FALSE))
      BY <2>2 DEF Subscript, subscript
    <3>2. blank \in Values
      BY TableAssumption
    <3> QED BY <3>1, <3>2, Inserts
  <2> QED BY <1>2, <2>1, <2>2
<1>3. ASSUME NEW n \in Names, NEW i \in Nodes(tables[n]), EraseAt(n, i)
      PROVE  TablesInv' /\ Maps!Next
  <2>1. Results("erase", n, Done(Removed(tables[n], i)))
    BY <1>3 DEF EraseAt, eraseAt
  <2> QED BY <2>1, Erases
<1>4. ASSUME NEW n \in Names, NEW c \in Reserves, NEW force \in BOOLEAN, Reserve(n, c, force)
      PROVE  TablesInv' /\ Maps!Next
  <2>1. Results("layout", n, reserve(tables[n], c, force))
    BY <1>4 DEF Reserve
  <2>2. c \in Nat
    BY ClientAssumption
  <2> QED BY <1>0, <2>1, <2>2, ReserveKeeps, Rearranges
<1>5. ASSUME NEW n \in Names, Compact(n) PROVE TablesInv' /\ Maps!Next
  <2>1. Results("layout", n, compact(tables[n]))
    BY <1>5 DEF Compact
  <2> QED BY <1>0, <2>1, CompactKeeps, Rearranges
<1>6. ASSUME NEW n \in Names, Clear(n) \/ Destroy(n) PROVE TablesInv' /\ Maps!Next
  <2>1. CASE Clear(n)
    <3>1. Results("clear", n, Done(clear(tables[n])))
      BY <2>1 DEF Clear
    <3>2. /\ Sound(clear(tables[n])) /\ Entries(clear(tables[n])) = {}
          /\ clear(tables[n]).hash \in HashFunctions
      BY <1>0, ClearIsOK DEF TableOK
    <3> QED BY <3>1, <3>2, Empties
  <2>2. CASE Destroy(n)
    <3> DEFINE u == Fresh(tables[n].hash)
    <3>1. Results("clear", n, Done(u))
      BY <2>2 DEF Destroy
    <3>2. Sound(u) /\ Entries(u) = {} /\ u.hash \in HashFunctions
      BY <1>0, FreshIsOK DEF TableOK
    <3> QED BY <3>1, <3>2, Empties
  <2> QED BY <1>6, <2>1, <2>2
<1>7. ASSUME NEW n \in Names, NEW o \in Names, n # o,
             \/ CopyConstruct(n, o) \/ CopyAssign(n, o)
             \/ MoveConstruct(n, o) \/ MoveAssign(n, o) \/ Swap(n, o)
      PROVE  TablesInv' /\ Maps!Next
  <2>1. CASE CopyConstruct(n, o)
    BY <1>0, <1>7, <2>1, CopyConstructedIs, Copies DEF CopyConstruct
  <2>2. CASE CopyAssign(n, o)
    BY <1>0, <1>7, <2>2, CopyAssignedIs, Copies DEF CopyAssign
  <2>3. CASE MoveConstruct(n, o)
    BY <1>0, <1>7, <2>3, MovedIs, Moves DEF MoveConstruct
  <2>4. CASE MoveAssign(n, o)
    BY <1>0, <1>7, <2>4, MovedIs, Moves DEF MoveAssign
  <2>5. CASE Swap(n, o)
    BY <1>7, <2>5, Swaps
  <2> QED BY <1>7, <2>1, <2>2, <2>3, <2>4, <2>5
<1>8. Edited \subseteq Names
  BY ClientAssumption
<1> QED BY <1>1, <1>2, <1>3, <1>4, <1>5, <1>6, <1>7, <1>8 DEF Next

(* Whatever calls clients make, on any number of tables with any keys and   *)
(* any hash functor, every table is sound: its info bytes tell distances,   *)
(* runs have no gaps, no key is stored twice and the count is right.        *)
THEOREM TablesStaySound == Spec => []TablesInv
<1>1. Init => TablesInv
  BY TablesStart
<1>2. TablesInv /\ [Next]_vars => TablesInv'
  <2> SUFFICES ASSUME TablesInv, [Next]_vars PROVE TablesInv'
    OBVIOUS
  <2>1. CASE Next
    BY <2>1, TablesStep
  <2>2. CASE UNCHANGED vars
    BY <2>2 DEF vars, TablesInv
  <2> QED BY <2>1, <2>2
<1> QED BY <1>1, <1>2, PTL DEF Spec

(* Through contains and at every call is a call on a map, for tables of any *)
(* size: insertions keep or replace as their names say, growth, halving,    *)
(* resizing and rehashing change no answer, copies, moves and swaps carry   *)
(* all of them, and only a call that throws overflow_error may lose some.   *)
THEOREM TablesImplementMaps == Spec => ImplementsMaps
<1>1. Init => Maps!Init
  BY TablesStart
<1>2. TablesInv /\ [Next]_vars => [Maps!Next]_(Maps!vars)
  <2> SUFFICES ASSUME TablesInv, [Next]_vars PROVE Maps!Next \/ UNCHANGED Maps!vars
    OBVIOUS
  <2>1. CASE Next
    BY <2>1, TablesStep
  <2>2. CASE UNCHANGED vars
    BY <2>2 DEF vars, Maps!vars
  <2> QED BY <2>1, <2>2
<1> QED BY <1>1, <1>2, TablesStaySound, PTL DEF Spec, ImplementsMaps, Maps!Spec

(***************************************************************************)
(* What a sound table promises: bytes and iteration.                       *)
(***************************************************************************)
(* What a table promises that is sound.                                    *)
LEMMA SoundTells ==
  ASSUME NEW t, Sound(t), NEW i \in Nodes(t)
  PROVE  LET p == keyToIdx(t, t.node[i].key) IN
         /\ t.info[i] = next(t, p, i - p.idx).info
         /\ i >= p.idx /\ t.info[i] <= MaxInfo
         /\ t.max # 0 => t.info[i] + t.inc <= MaxInfo
<1> DEFINE key == t.node[i].key
           p == keyToIdx(t, key)
           h == Home(t, key)
<1>1. IsTable(t) /\ BytesTell(t) /\ BytesHaveRoom(t)
  BY DEF Sound
<1>2. /\ i \in Nat /\ i < End(t) /\ End(t) \in Nat /\ key \in Keys /\ h <= i
      /\ t.info[i] = Byte(t, key, i)
  BY <1>1, NodesAre
<1>3. h \in Nat /\ p.idx = h
  BY <1>1, <1>2, ProbeStarts DEF Home
<1> HIDE DEF h, p, key
<1>4. i - h \in Nat /\ h + (i - h) = i
  BY <1>2, <1>3
<1>5. next(t, p, i - h) = [idx |-> i, info |-> Byte(t, key, i)]
  <2>1. next(t, keyToIdx(t, key), i - h)
          = [idx |-> Home(t, key) + (i - h), info |-> Byte(t, key, Home(t, key) + (i - h))]
    BY <1>1, <1>2, <1>4, ProbeAt
  <2> QED BY <1>4, <2>1 DEF p, h
<1>6. i \in 0 .. End(t) - 1 /\ i \in 0 .. calcNumBytesInfo(End(t)) - 1
  <2>1. End(t) + 3 <= calcNumBytesInfo(End(t)) /\ calcNumBytesInfo(End(t)) \in Nat
    BY <1>1, EndIs DEF IsTable
  <2> QED BY <1>2, <2>1
<1>7. t.info[i] <= MaxInfo
  BY <1>1, <1>6, BytesAreBytes
<1>8. t.max # 0 => t.info[i] + t.inc <= MaxInfo
  BY <1>1, <1>6 DEF BytesHaveRoom
<1>9. /\ t.info[i] = next(t, p, i - p.idx).info
      /\ i >= p.idx
  BY <1>2, <1>3, <1>5
<1> QED BY <1>7, <1>8, <1>9 DEF p, key

(* Where an iterator comes to from slot x of a table in use.               *)
LandsAt(t, x, f) ==
  /\ f \in Nat /\ x <= f /\ f <= End(t)
  /\ f \in Nodes(t) \/ f = End(t)
  /\ \A y \in Nodes(t) : y >= x => y >= f

(* fastForward lands there.                                                *)
LEMMA FastForwardIs ==
  ASSUME NEW t, Sound(t), t.mask # 0, NEW x \in Nat, x <= End(t)
  PROVE  LandsAt(t, x, fastForward(t, x))
<1> DEFINE B == {y \in DOMAIN t.info : y >= x /\ t.info[y] # 0}
<1>1. IsTable(t) /\ BytesTell(t) /\ SentinelStands(t)
  BY DEF Sound
<1>2. /\ End(t) \in Nat /\ calcNumBytesInfo(End(t)) \in Nat
      /\ End(t) + 3 <= calcNumBytesInfo(End(t))
  BY <1>1, EndIs DEF IsTable
<1>3. DOMAIN t.info = 0 .. calcNumBytesInfo(End(t)) - 1
  BY <1>1 DEF IsTable
<1>4. Nodes(t) = {y \in 0 .. End(t) - 1 : t.info[y] # 0}
  BY <1>1, NodesAre
<1>5. End(t) \in B
  <2>1. End(t) \in End(t) .. calcNumBytesInfo(End(t)) - 1
    BY <1>2
  <2>2. t.info[End(t)] = 1
    BY <1>1, <2>1 DEF SentinelStands
  <2> QED BY <1>2, <1>3, <2>2
<1>6. B \in SUBSET Nat
  BY <1>3
<1>7. First(B) \in B /\ \A y \in B : First(B) <= y
  BY <1>5, <1>6, FirstIsLeast
<1>8. fastForward(t, x) = First(B)
  BY <1>5 DEF fastForward
<1> DEFINE f == First(B)
<1>9. f \in B /\ f <= End(t) /\ f \in Nat /\ x <= f /\ t.info[f] # 0
  BY <1>5, <1>6, <1>7
<1>10. \A y \in Nodes(t) : y >= x => y \in B
  BY <1>2, <1>3, <1>4
<1>11. \A y \in Nodes(t) : y >= x => f <= y
  BY <1>7, <1>10
<1> HIDE DEF f, B
<1>12. f \in Nodes(t) \/ f = End(t)
  BY <1>2, <1>4, <1>9
<1>13. \A y \in Nodes(t) : y >= x => y >= f
  <2>1. Nodes(t) \subseteq Nat
    BY <1>4
  <2> QED BY <1>9, <1>11, <2>1
<1> QED BY <1>8, <1>9, <1>12, <1>13 DEF LandsAt, f

(* A table with a node has buckets and a count.                            *)
LEMMA TableInUse ==
  ASSUME NEW t, Sound(t), NEW i \in Nodes(t)
  PROVE  /\ t.mask # 0 /\ i \in Nat /\ i + 1 \in Nat /\ i + 1 <= End(t) /\ t.num # 0
         /\ End(t) \in Nat
<1>1. IsTable(t) /\ BytesTell(t) /\ CountIsRight(t)
  BY DEF Sound
<1>2. i \in Nat /\ i < End(t) /\ End(t) \in Nat
  BY <1>1, NodesAre
<1>3. t.mask # 0
  BY <1>1, <1>2, EndIs DEF IsTable
<1>4. t.num # 0
  BY <1>1, NodesAreFinite, FS_EmptySet DEF CountIsRight
<1> QED BY <1>2, <1>3, <1>4

(* size() is 0 for tables without nodes.                                   *)
LEMMA NoNodesAre ==
  ASSUME NEW t, Sound(t)
  PROVE  t.num = 0 <=> Nodes(t) = {}
<1>1. IsTable(t) /\ CountIsRight(t)
  BY DEF Sound
<1> QED BY <1>1, NodesAreFinite, FS_EmptySet DEF CountIsRight

(* The iterator steps to the next node, or to the end.                     *)
LEMMA SoundWalks ==
  ASSUME NEW t, Sound(t)
  PROVE  /\ t.num = Cardinality(Nodes(t))
         /\ \A i \in Nodes(t) : i < End(t)
         /\ \A i \in {-1} \cup Nodes(t) :
              LET after == {x \in Nodes(t) : x > i}
                  here == IF i = -1 THEN begin(t) ELSE Increment(t, i)
              IN here = (IF after = {} THEN End(t) ELSE First(after))
<1>1. IsTable(t) /\ BytesTell(t) /\ CountIsRight(t)
  BY DEF Sound
<1>2. /\ \A x \in Nodes(t) : x \in Nat /\ x < End(t)
      /\ End(t) \in Nat
  BY <1>1, NodesAre
<1>3. ASSUME NEW i \in {-1} \cup Nodes(t), Nodes(t) # {}
      PROVE  LET after == {x \in Nodes(t) : x > i}
             IN fastForward(t, i + 1) = (IF after = {} THEN End(t) ELSE First(after))
    <2> DEFINE after == {x \in Nodes(t) : x > i}
               f == fastForward(t, i + 1)
    <2>1. i \in Int /\ i + 1 \in Nat /\ i + 1 <= End(t) /\ t.mask # 0
      <3>1. t.mask # 0
        BY <1>3, TableInUse
      <3>2. CASE i = -1
        BY <1>2, <3>1, <3>2
      <3>3. CASE i \in Nodes(t)
        BY <3>1, <3>3, TableInUse
      <3> QED BY <1>3, <3>2, <3>3
    <2>2. LandsAt(t, i + 1, f)
      BY <2>1, FastForwardIs
    <2> HIDE DEF f
    <2>3. after \in SUBSET Nat /\ \A x \in after : x >= i + 1 /\ f <= x
      BY <1>2, <2>1, <2>2 DEF LandsAt
    <2>4. f \in Nodes(t) => f \in after
      BY <2>1, <2>2 DEF LandsAt
    <2>5. CASE after = {}
      BY <2>2, <2>4, <2>5 DEF LandsAt, f
    <2>6. CASE after # {}
      <3>1. PICK x \in after : TRUE
        BY <2>6
      <3>2. f <= x /\ x < End(t) /\ x \in Nat
        BY <1>2, <2>3, <3>1
      <3>3. f # End(t)
        BY <1>2, <2>2, <3>2 DEF LandsAt
      <3>4. f \in after
        BY <2>2, <2>4, <3>3 DEF LandsAt
      <3> HIDE DEF after
      <3>5. First(after) = f
        BY <2>3, <3>4, FirstOf
      <3> QED BY <2>6, <3>5 DEF f, after
    <2> QED BY <2>5, <2>6
<1>4. ASSUME NEW i \in {-1} \cup Nodes(t)
      PROVE  LET after == {x \in Nodes(t) : x > i}
                 here == IF i = -1 THEN begin(t) ELSE Increment(t, i)
             IN here = (IF after = {} THEN End(t) ELSE First(after))
    <2>1. CASE Nodes(t) = {}
      <3>1. i = -1 /\ begin(t) = End(t)
        BY <2>1, NoNodesAre DEF begin
      <3> QED BY <2>1, <3>1
    <2>2. CASE Nodes(t) # {}
      <3>1. i = -1 => begin(t) = fastForward(t, i + 1)
        <4>1. -1 + 1 = 0
          OBVIOUS
        <4> QED BY <2>2, <4>1, NoNodesAre DEF begin
      <3>2. Increment(t, i) = fastForward(t, i + 1)
        BY DEF Increment
      <3> QED BY <1>3, <2>2, <3>1, <3>2
    <2> QED BY <2>1, <2>2
<1> QED BY <1>1, <1>2, <1>4 DEF CountIsRight

(***************************************************************************)
(* Comparison.                                                             *)
(***************************************************************************)
(* has finds an entry with its key and value.                              *)
LEMMA HasIs ==
  ASSUME NEW t, Sound(t), NEW node \in Entry
  PROVE  has(t, node) <=> node \in Entries(t)
<1> DEFINE i == findIdx(t, node.key)
<1>1. IsTable(t) /\ BytesTell(t)
  BY DEF Sound
<1>2. node.key \in Keys /\ node = [key |-> node.key, value |-> node.value]
  BY DEF Entry
<1>3. /\ \A x \in Nodes(t) : x \in Nat /\ x < End(t) /\ t.node[x] \in Entry
      /\ End(t) \in Nat
  BY <1>1, NodesAre
<1>4. /\ node.key \notin KeysOf(t) => i = End(t)
      /\ \A x \in Nodes(t) : t.node[x].key = node.key => i = x
  BY <1>2, FindIs
<1>5. has(t, node) <=> i # End(t) /\ t.node[i].value = node.value
  BY DEF has
<1> HIDE DEF i
<1>6. ASSUME node \in Entries(t) PROVE has(t, node)
  <2>1. PICK x \in Nodes(t) : t.node[x] = node
    BY <1>6 DEF Entries
  <2>2. i = x /\ x # End(t)
    BY <1>3, <1>4, <2>1
  <2> QED BY <1>5, <2>1, <2>2
<1>7. ASSUME has(t, node) PROVE node \in Entries(t)
  <2>1. node.key \in KeysOf(t) /\ t.node[i].value = node.value
    BY <1>4, <1>5, <1>7
  <2>2. PICK x \in Nodes(t) : t.node[x].key = node.key
    BY <2>1 DEF KeysOf
  <2>3. i = x
    BY <1>4, <2>2
  <2>4. t.node[x] = [key |-> t.node[x].key, value |-> t.node[x].value]
    BY <1>3 DEF Entry
  <2>5. t.node[x] = node
    BY <1>2, <2>1, <2>2, <2>3, <2>4
  <2> QED BY <2>5 DEF Entries
<1> QED BY <1>6, <1>7

(* The count is the number of entries, and of keys.                        *)
LEMMA EntriesAreCounted ==
  ASSUME NEW t, Sound(t)
  PROVE  /\ IsFiniteSet(Entries(t)) /\ Cardinality(Entries(t)) = t.num /\ t.num \in Nat
         /\ IsFiniteSet(KeysOf(t)) /\ Cardinality(KeysOf(t)) = t.num
<1> DEFINE N == Nodes(t)
<1>1. IsTable(t) /\ BytesTell(t) /\ KeysDiffer(t) /\ CountIsRight(t)
  BY DEF Sound
<1>2. IsFiniteSet(N) /\ Cardinality(N) = t.num /\ t.num \in Nat
  BY <1>1, NodesAreFinite DEF CountIsRight
<1>3. ASSUME NEW x \in N, NEW y \in N, t.node[x].key = t.node[y].key PROVE x = y
  <2>1. x \in 0 .. End(t) - 1 /\ y \in 0 .. End(t) - 1 /\ t.node[x] # NoNode
    BY <1>1 DEF Nodes, IsTable
  <2> QED BY <1>1, <1>3, <2>1 DEF KeysDiffer
<1> HIDE DEF N
<1>4. ASSUME NEW f, f = [x \in N |-> f[x]], \A x, y \in N : f[x] = f[y] => x = y
      PROVE  IsFiniteSet({f[x] : x \in N}) /\ Cardinality({f[x] : x \in N}) = t.num
  <2> DEFINE T == {f[x] : x \in N}
  <2>1. f \in [N -> T]
    BY <1>4
  <2>2. f \in Surjection(N, T) /\ f \in Injection(N, T)
    BY <1>4, <2>1 DEF Surjection, Injection, IsInjective
  <2> HIDE DEF T
  <2>3. IsFiniteSet(T) /\ Cardinality(T) = Cardinality(N)
    BY <1>2, <2>2, FS_Surjection
  <2> QED BY <1>2, <2>3 DEF T
<1>5. IsFiniteSet({t.node[x] : x \in N}) /\ Cardinality({t.node[x] : x \in N}) = t.num
  <2> DEFINE f == [x \in N |-> t.node[x]]
  <2>1. f = [x \in N |-> f[x]] /\ \A x \in N : f[x] = t.node[x]
    OBVIOUS
  <2> HIDE DEF f
  <2>2. \A x, y \in N : f[x] = f[y] => x = y
    BY <1>3, <2>1
  <2>3. {f[x] : x \in N} = {t.node[x] : x \in N}
    BY <2>1
  <2> QED BY <1>4, <2>1, <2>2, <2>3
<1>6. IsFiniteSet({t.node[x].key : x \in N}) /\ Cardinality({t.node[x].key : x \in N}) = t.num
  <2> DEFINE f == [x \in N |-> t.node[x].key]
  <2>1. f = [x \in N |-> f[x]] /\ \A x \in N : f[x] = t.node[x].key
    OBVIOUS
  <2> HIDE DEF f
  <2>2. \A x, y \in N : f[x] = f[y] => x = y
    BY <1>3, <2>1
  <2>3. {f[x] : x \in N} = {t.node[x].key : x \in N}
    BY <2>1
  <2> QED BY <1>4, <2>1, <2>2, <2>3
<1> QED BY <1>2, <1>5, <1>6 DEF Entries, KeysOf, N

(* Equal answers come from equal entries.                                  *)
LEMMA EntriesOfAnswers ==
  ASSUME NEW t, Sound(t), NEW u, Sound(u), Contents(t) = Contents(u)
  PROVE  Entries(t) \subseteq Entries(u)
<1> DEFINE m == Contents(t)
<1>1. Represents(m, Entries(t)) /\ Represents(m, Entries(u)) /\ KeysOf(t) = KeysOf(u)
  BY ContentsAre
<1>2. Entries(t) \subseteq Entry /\ Entries(u) \subseteq Entry
  BY EntriesAreOneEach
<1> HIDE DEF m
<1>3. ASSUME NEW n \in Entries(t) PROVE n \in Entries(u)
  <2>1. n.key \in KeysOf(u)
    BY <1>1, KeysOfEntries
  <2>2. PICK l \in Entries(u) : l.key = n.key
    BY <2>1, KeysOfEntries
  <2>3. l.value = n.value
    BY <1>1, <2>2 DEF Represents
  <2>4. l = [key |-> l.key, value |-> l.value] /\ n = [key |-> n.key, value |-> n.value]
    BY <1>2 DEF Entry
  <2> QED BY <2>2, <2>3, <2>4
<1> QED BY <1>3

(* operator== compares answers.                                            *)
LEMMA EqualIs ==
  ASSUME NEW t, Sound(t), NEW u, Sound(u)
  PROVE  Equal(t, u) <=> Contents(t) = Contents(u)
<1>1. Entries(u) \subseteq Entry
  BY EntriesAreOneEach
<1>2. (\A i \in Nodes(u) : has(t, u.node[i])) <=> Entries(u) \subseteq Entries(t)
  <2>1. \A i \in Nodes(u) : u.node[i] \in Entry
    BY <1>1 DEF Entries
  <2>2. \A i \in Nodes(u) : has(t, u.node[i]) <=> u.node[i] \in Entries(t)
    BY <2>1, HasIs
  <2> QED BY <2>2 DEF Entries
<1>3. Equal(t, u) <=> t.num = u.num /\ Entries(u) \subseteq Entries(t)
  BY <1>2 DEF Equal
<1>4. ASSUME Equal(t, u) PROVE Contents(t) = Contents(u)
  <2>1. t.num = u.num /\ Entries(u) \in SUBSET Entries(t)
    BY <1>3, <1>4
  <2>2. Entries(u) = Entries(t)
    BY <2>1, EntriesAreCounted, FS_Subset
  <2> QED BY <2>2, SameAnswers
<1>5. ASSUME Contents(t) = Contents(u) PROVE Equal(t, u)
  <2>1. Entries(u) = Entries(t)
    BY <1>5, EntriesOfAnswers
  <2>2. t.num = u.num
    BY <2>1, EntriesAreCounted
  <2> QED BY <1>3, <2>1, <2>2
<1> QED BY <1>4, <1>5

(***************************************************************************)
(* A loop that erases while it iterates.                                   *)
(***************************************************************************)
(* A loop that erases while it iterates.                                   *)
Start(t) == [table |-> t, pos |-> begin(t), seen |-> << >>]

IsWalking(g, t, S, m) ==
  g = [i \in 0 .. m |-> IF i = 0 THEN Start(t) ELSE WalkOn(g[i - 1], S)]

(* There is such a function up to every turn.                              *)
LEMMA WalkingExists ==
  ASSUME NEW t, NEW S
  PROVE  \A m \in Nat : \E g : IsWalking(g, t, S, m)
<1> DEFINE N == {m \in Nat : \E g : IsWalking(g, t, S, m)}
<1>1. 0 \in N
  <2> DEFINE g == [i \in 0 .. 0 |-> Start(t)]
  <2>1. IsWalking(g, t, S, 0)
    BY DEF IsWalking
  <2> QED BY <2>1
<1>2. ASSUME NEW m \in Nat, m \in N PROVE m + 1 \in N
  <2>1. PICK g : IsWalking(g, t, S, m)
    BY <1>2
  <2> DEFINE h == [i \in 0 .. m + 1 |-> IF i <= m THEN g[i] ELSE WalkOn(g[m], S)]
  <2>2. \A i \in 0 .. m : h[i] = g[i]
    OBVIOUS
  <2>3. \A i \in 0 .. m : g[i] = IF i = 0 THEN Start(t) ELSE WalkOn(g[i - 1], S)
    BY <2>1 DEF IsWalking
  <2>4. ASSUME NEW i \in 0 .. m + 1
        PROVE  h[i] = IF i = 0 THEN Start(t) ELSE WalkOn(h[i - 1], S)
    <3>1. CASE i \in 0 .. m
      <4>1. i # 0 => i - 1 \in 0 .. m
        BY <3>1
      <4> QED BY <3>1, <4>1, <2>2, <2>3
    <3>2. CASE i = m + 1
      <4>1. i # 0 /\ i - 1 = m /\ m \in 0 .. m /\ ~ (i <= m)
        BY <3>2
      <4> QED BY <4>1, <2>2
    <3> QED BY <3>1, <3>2
  <2>5. IsWalking(h, t, S, m + 1)
    BY <2>4 DEF IsWalking
  <2> QED BY <2>5
<1> HIDE DEF N
<1>3. Nat \subseteq N
  BY <1>1, <1>2, SetInduction
<1> QED BY <1>3 DEF N

(* Walking satisfies its equation.                                         *)
LEMMA WalkingIs ==
  ASSUME NEW t, NEW S, t.num \in Nat
  PROVE  IsWalking(Walking(t, S), t, S, t.num + 1)
<1>1. \E g : IsWalking(g, t, S, t.num + 1)
  BY WalkingExists
<1>2. Walking(t, S) = CHOOSE g : IsWalking(g, t, S, t.num + 1)
  BY DEF Walking, IsWalking, Start
<1> QED BY <1>1, <1>2

(* The keys from a slot on.                                                *)
KeysFrom(t, p) == {n.key : n \in EntriesFrom(t, p)}

(* Through the slots.                                                      *)
LEMMA KeysFromIs ==
  ASSUME NEW t, NEW p
  PROVE  KeysFrom(t, p) = {t.node[x].key : x \in {y \in Nodes(t) : y >= p}}
BY DEF KeysFrom, EntriesFrom

(* An iterator that lands has passed no key.                               *)
LEMMA KeysFromLanding ==
  ASSUME NEW t, Sound(t), NEW x \in Nat, NEW f, LandsAt(t, x, f)
  PROVE  KeysFrom(t, f) = KeysFrom(t, x)
<1>1. IsTable(t) /\ BytesTell(t)
  BY DEF Sound
<1>2. Nodes(t) \subseteq Nat
  BY <1>1, NodesAre
<1>3. \A y \in Nodes(t) : y >= f <=> y >= x
  BY <1>2 DEF LandsAt
<1>4. {y \in Nodes(t) : y >= f} = {y \in Nodes(t) : y >= x}
  BY <1>3
<1> QED BY <1>4, KeysFromIs

(* A step passes the key under the iterator.                               *)
LEMMA KeysFromNext ==
  ASSUME NEW t, Sound(t), NEW i \in Nodes(t)
  PROVE  /\ KeysFrom(t, i + 1) = KeysFrom(t, i) \ {t.node[i].key}
         /\ t.node[i].key \in KeysFrom(t, i)
         /\ EntriesFrom(t, i) \ {t.node[i]} = {n \in EntriesFrom(t, i) : n.key # t.node[i].key}
<1> DEFINE k == t.node[i].key
<1>1. IsTable(t) /\ BytesTell(t) /\ KeysDiffer(t)
  BY DEF Sound
<1>2. Nodes(t) \subseteq Nat /\ i \in Nat
  BY <1>1, NodesAre
<1>3. ASSUME NEW y \in Nodes(t), t.node[y].key = k PROVE y = i
  <2>1. y \in 0 .. End(t) - 1 /\ i \in 0 .. End(t) - 1 /\ t.node[y] # NoNode
    BY <1>1 DEF Nodes, IsTable
  <2> QED BY <1>1, <1>3, <2>1 DEF KeysDiffer
<1>4. {y \in Nodes(t) : y >= i + 1} = {y \in Nodes(t) : y >= i} \ {i}
  BY <1>2
<1>5. i \in {y \in Nodes(t) : y >= i}
  BY <1>2
<1>6. KeysFrom(t, i + 1) = KeysFrom(t, i) \ {k} /\ k \in KeysFrom(t, i)
  BY <1>3, <1>4, <1>5, KeysFromIs
<1>7. EntriesFrom(t, i) \ {t.node[i]} = {n \in EntriesFrom(t, i) : n.key # k}
  BY <1>3 DEF EntriesFrom
<1> QED BY <1>6, <1>7

IsWalk(w) == w = [table |-> w.table, pos |-> w.pos, seen |-> w.seen]

(* A state of the loop.                                                    *)
LEMMA WalkOf ==
  ASSUME NEW table, NEW pos, NEW seen, NEW w, w = [table |-> table, pos |-> pos, seen |-> seen]
  PROVE  IsWalk(w) /\ w.table = table /\ w.pos = pos /\ w.seen = seen
BY DEF IsWalk

Met(s) == {s[i] : i \in DOMAIN s}

(* What holds of the loop after each turn: no key that it met is ahead of  *)
(* it, and together they are the keys the table had.                       *)
Walked(w, t, S, m) ==
  /\ IsWalk(w) /\ Sound(w.table) /\ w.table.mask # 0
  /\ w.pos \in Nat /\ w.pos <= End(w.table)
  /\ w.pos \in Nodes(w.table) \/ w.pos = End(w.table)
  /\ w.seen \in Seq(Keys)
  /\ LET met == Met(w.seen)
         ahead == KeysFrom(w.table, w.pos)
     IN /\ met \cap ahead = {} /\ met \cup ahead = KeysOf(t)
        /\ Len(w.seen) + Cardinality(ahead) = t.num
        /\ KeysOf(w.table) = ahead \cup (met \ S)
  /\ w.pos = End(w.table) \/ Len(w.seen) = m

(* One more key met.                                                       *)
LEMMA OneMoreMet ==
  ASSUME NEW s \in Seq(Keys), NEW k \in Keys, NEW r, r = Append(s, k)
  PROVE  /\ r \in Seq(Keys) /\ Len(r) = Len(s) + 1
         /\ Met(r) = Met(s) \cup {k}
<1>1. /\ r \in Seq(Keys) /\ Len(r) = Len(s) + 1 /\ Len(s) \in Nat
      /\ DOMAIN r = 1 .. Len(s) + 1 /\ DOMAIN s = 1 .. Len(s)
      /\ r[Len(s) + 1] = k
      /\ \A i \in 1 .. Len(s) : r[i] = s[i]
  OBVIOUS
<1>2. \A i \in DOMAIN r : i \in DOMAIN s \/ i = Len(s) + 1
  BY <1>1
<1>3. \A i \in DOMAIN s : i \in DOMAIN r
  BY <1>1
<1>4. Len(s) + 1 \in DOMAIN r
  BY <1>1
<1>5. {r[i] : i \in DOMAIN r} = {s[i] : i \in DOMAIN s} \cup {k}
  BY <1>1, <1>2, <1>3, <1>4
<1> QED BY <1>1, <1>5 DEF Met

(* The keys ahead are keys of the table.                                   *)
LEMMA AheadIsFinite ==
  ASSUME NEW t, Sound(t), NEW p
  PROVE  /\ IsFiniteSet(KeysFrom(t, p)) /\ Cardinality(KeysFrom(t, p)) \in Nat
         /\ KeysFrom(t, p) \subseteq KeysOf(t)
<1>1. KeysFrom(t, p) \in SUBSET KeysOf(t)
  BY KeysFromIs DEF KeysOf
<1> QED BY <1>1, EntriesAreCounted, FS_Subset, FS_CardinalityType

(* The turn: the key at the iterator comes to those that were met.         *)
Turn(v, w, S, k) ==
  /\ w.pos # End(w.table) /\ k = w.table.node[w.pos].key
  /\ IsWalk(v) /\ Sound(v.table) /\ SameSize(v.table, w.table)
  /\ v.seen = Append(w.seen, k)
  /\ v.pos \in Nat /\ v.pos <= End(v.table)
  /\ v.pos \in Nodes(v.table) \/ v.pos = End(v.table)
  /\ KeysFrom(v.table, v.pos) = KeysFrom(w.table, w.pos) \ {k}
  /\ KeysOf(v.table) = IF k \in S THEN KeysOf(w.table) \ {k} ELSE KeysOf(w.table)

(* A turn keeps what holds of the loop.                                    *)
LEMMA TurnKeeps ==
  ASSUME NEW t, NEW S, NEW m \in Nat, NEW w, Walked(w, t, S, m),
         NEW v, NEW k, Turn(v, w, S, k), t.num \in Nat
  PROVE  Walked(v, t, S, m + 1)
<1> DEFINE met == Met(w.seen)
           ahead == KeysFrom(w.table, w.pos)
           met2 == Met(v.seen)
           ahead2 == KeysFrom(v.table, v.pos)
<1>1. /\ Sound(w.table) /\ w.table.mask # 0 /\ w.pos \in Nodes(w.table)
      /\ w.seen \in Seq(Keys)
      /\ met \cap ahead = {} /\ met \cup ahead = KeysOf(t)
      /\ Len(w.seen) + Cardinality(ahead) = t.num
      /\ KeysOf(w.table) = ahead \cup (met \ S)
      /\ Len(w.seen) = m
  BY DEF Walked, Turn
<1>2. k \in ahead
  <2>1. k = w.table.node[w.pos].key
    BY DEF Turn
  <2> QED BY <1>1, <2>1, KeysFromNext
<1>3. KeysOf(w.table) \subseteq Keys
  BY <1>1, NodesAre DEF Sound
<1>4. k \in Keys
  BY <1>1, <1>2, <1>3
<1>5. v.seen \in Seq(Keys) /\ Len(v.seen) = m + 1 /\ met2 = met \cup {k}
  <2>1. v.seen = Append(w.seen, k)
    BY DEF Turn
  <2> QED BY <1>1, <1>4, <2>1, OneMoreMet
<1>6. v.table.mask # 0
  BY <1>1 DEF Turn, SameSize
<1>7. IsFiniteSet(ahead) /\ Cardinality(ahead) \in Nat
  BY <1>1, AheadIsFinite
<1>8. ahead2 = ahead \ {k}
  BY DEF Turn
<1> HIDE DEF met, ahead, met2, ahead2
<1>9. Cardinality(ahead2) = Cardinality(ahead) - 1
  <2>1. Cardinality(ahead \ {k}) = IF k \in ahead THEN Cardinality(ahead) - 1 ELSE Cardinality(ahead)
    BY <1>7, FS_RemoveElement
  <2> QED BY <1>2, <1>8, <2>1
<1>10. Len(v.seen) + Cardinality(ahead2) = t.num
  <2>1. Cardinality(ahead2) \in Int
    BY <1>7, <1>9
  <2> QED BY <1>1, <1>5, <1>7, <1>9, <2>1
<1>11. met2 \cap ahead2 = {} /\ met2 \cup ahead2 = KeysOf(t)
  BY <1>1, <1>2, <1>5, <1>8
<1>12. KeysOf(v.table) = ahead2 \cup (met2 \ S)
  <2>1. k \notin met /\ KeysOf(w.table) = ahead \cup (met \ S)
    BY <1>1, <1>2
  <2>2. CASE k \in S
    <3>1. KeysOf(v.table) = KeysOf(w.table) \ {k}
      BY <2>2 DEF Turn
    <3> QED BY <1>5, <1>8, <2>1, <2>2, <3>1
  <2>3. CASE k \notin S
    <3>1. KeysOf(v.table) = KeysOf(w.table)
      BY <2>3 DEF Turn
    <3> QED BY <1>2, <1>5, <1>8, <2>1, <2>3, <3>1
  <2> QED BY <2>2, <2>3
<1> QED BY <1>5, <1>6, <1>10, <1>11, <1>12 DEF Walked, Turn, met2, ahead2

(* Tables of one size have one end.                                        *)
LEMMA SameEnd ==
  ASSUME NEW u, NEW t, SameSize(u, t)
  PROVE  End(u) = End(t) /\ u.mask = t.mask
BY DEF SameSize, End

(* At the end the loop stays.                                              *)
LEMMA WalkEnds ==
  ASSUME NEW w, NEW S, w.pos \in Nat, End(w.table) \in Nat, w.pos >= End(w.table)
  PROVE  WalkOn(w, S) = w
BY DEF WalkOn

(* A turn that does not erase moves the iterator on.                       *)
LEMMA WalkMovesOn ==
  ASSUME NEW w, IsWalk(w), NEW S, w.pos < End(w.table), ~ (w.pos >= End(w.table)),
         NEW k, k = NodeAt(w.table, w.pos).key, k \notin S, NEW v, v = WalkOn(w, S)
  PROVE  /\ IsWalk(v) /\ v.table = w.table /\ v.pos = Increment(w.table, w.pos)
         /\ v.seen = Append(w.seen, k)
<1>1. PICK f : f = Increment(w.table, w.pos)
  OBVIOUS
<1>2. PICK s : s = Append(w.seen, k)
  OBVIOUS
<1>3. v = [w EXCEPT !.pos = f, !.seen = s]
  BY <1>1, <1>2 DEF WalkOn
<1>4. IsWalk(v) /\ v.table = w.table /\ v.pos = f /\ v.seen = s
  BY <1>3 DEF IsWalk
<1> QED BY <1>1, <1>2, <1>4

(* Every turn keeps what holds of the loop.                                *)
LEMMA WalkOnKeeps ==
  ASSUME NEW t, NEW S, NEW m \in Nat, NEW w, Walked(w, t, S, m), t.num \in Nat
  PROVE  Walked(WalkOn(w, S), t, S, m + 1)
<1> DEFINE T == w.table
           i == w.pos
           k == T.node[i].key
<1>1. /\ Sound(T) /\ T.mask # 0 /\ i \in Nat /\ i <= End(T)
      /\ i \in Nodes(T) \/ i = End(T)
  BY DEF Walked
<1>2. IsTable(T) /\ BytesTell(T)
  BY <1>1 DEF Sound
<1>3. End(T) \in Nat /\ \A x \in Nodes(T) : x < End(T)
  BY <1>2, NodesAre
<1>4. CASE i = End(T)
  <2>1. WalkOn(w, S) = w
    BY <1>1, <1>3, <1>4, WalkEnds
  <2> QED BY <1>4, <2>1 DEF Walked
<1>5. CASE i # End(T)
  <2>1. i \in Nodes(T) /\ i < End(T) /\ i + 1 \in Nat /\ i + 1 <= End(T)
    BY <1>1, <1>3, <1>5, TableInUse
  <2>2. NodeAt(T, i) = T.node[i]
    BY <2>1 DEF NodeAt, Nodes
  <2>3. ~ (i >= End(T))
    BY <1>1, <1>3, <2>1
  <2>4. CASE k \in S
    <3> DEFINE u == Removed(T, i)
               e == eraseAt(T, i)
               v == [table |-> e.table, pos |-> e.pos, seen |-> Append(w.seen, k)]
    <3>1. WalkOn(w, S) = v
      BY <2>1, <2>2, <2>3, <2>4 DEF WalkOn
    <3>2. e.table = u /\ e.pos = IF u.info[i] # 0 THEN i ELSE Increment(u, i)
      BY DEF eraseAt
    <3> HIDE DEF u, e
    <3>3. /\ Sound(u) /\ SameSize(u, T)
          /\ Entries(u) = Entries(T) \ {T.node[i]}
          /\ EntriesFrom(u, i) = EntriesFrom(T, i) \ {T.node[i]}
      BY <1>1, <2>1, RemovedKeeps DEF u
    <3>4. End(u) = End(T) /\ u.mask # 0
      BY <1>1, <3>3, SameEnd
    <3>5. KeysFrom(u, i) = KeysFrom(T, i) \ {k}
      BY <1>1, <2>1, <3>3, KeysFromNext DEF KeysFrom
    <3>6. KeysOf(u) = KeysOf(T) \ {k}
      <4>1. T.node[i] \in Entries(T)
        BY <2>1 DEF Entries
      <4>2. OneEach(Entries(T))
        BY <1>1, EntriesAreOneEach
      <4> QED BY <3>3, <4>1, <4>2, KeysOfEntries DEF OneEach
    <3>7. Nodes(u) = {x \in 0 .. End(u) - 1 : u.info[x] # 0} /\ Nodes(u) \subseteq Nat
      BY <3>3, NodesAre DEF Sound
    <3>8. /\ e.pos \in Nat /\ e.pos <= End(u)
          /\ e.pos \in Nodes(u) \/ e.pos = End(u)
          /\ KeysFrom(u, e.pos) = KeysFrom(u, i)
      <4>1. CASE u.info[i] # 0
        BY <1>1, <1>3, <2>1, <3>2, <3>4, <3>7, <4>1
      <4>2. CASE u.info[i] = 0
        <5>1. LandsAt(u, i + 1, e.pos)
          <6>1. e.pos = fastForward(u, i + 1)
            BY <3>2, <4>2 DEF Increment
          <6> QED BY <2>1, <3>3, <3>4, <6>1, FastForwardIs
        <5>2. {y \in Nodes(u) : y >= i + 1} = {y \in Nodes(u) : y >= i}
          <6>1. i \notin Nodes(u)
            BY <3>7, <4>2
          <6>2. \A y \in Nodes(u) : y >= i + 1 <=> y >= i
            BY <1>1, <3>7, <6>1
          <6> QED BY <6>2
        <5>3. KeysFrom(u, i + 1) = KeysFrom(u, i)
          BY <5>2, KeysFromIs
        <5>4. KeysFrom(u, e.pos) = KeysFrom(u, i + 1)
          BY <2>1, <3>3, <5>1, KeysFromLanding
        <5> QED BY <5>1, <5>3, <5>4 DEF LandsAt
      <4> QED BY <4>1, <4>2
    <3> DEFINE s == Append(w.seen, k)
    <3> HIDE DEF s
    <3>9. v = [table |-> u, pos |-> e.pos, seen |-> s]
      BY <3>2 DEF s
    <3> HIDE DEF v
    <3>11. IsWalk(v) /\ v.table = u /\ v.pos = e.pos /\ v.seen = Append(w.seen, k)
      BY <3>9, WalkOf DEF s
    <3>10. Walked(v, t, S, m + 1)
      <4>1. Turn(v, w, S, k)
        BY <1>5, <2>4, <3>3, <3>5, <3>6, <3>8, <3>11 DEF Turn
      <4> QED BY <4>1, TurnKeeps
    <3> QED BY <3>1, <3>10
  <2>5. CASE k \notin S
    <3> DEFINE f == Increment(T, i)
               v == WalkOn(w, S)
    <3>1. IsWalk(w)
      BY DEF Walked
    <3>4. IsWalk(v) /\ v.table = T /\ v.pos = f /\ v.seen = Append(w.seen, k)
      BY <2>1, <2>2, <2>3, <2>5, <3>1, WalkMovesOn
    <3> HIDE DEF v, f
    <3>5. LandsAt(T, i + 1, f)
      BY <1>1, <2>1, FastForwardIs DEF f, Increment
    <3>6. KeysFrom(T, f) = KeysFrom(T, i) \ {k}
      BY <1>1, <2>1, <3>5, KeysFromLanding, KeysFromNext
    <3>7. SameSize(T, T)
      BY DEF SameSize
    <3>8. f \in Nat /\ f <= End(T) /\ (f \in Nodes(T) \/ f = End(T))
      BY <3>5 DEF LandsAt
    <3>9. KeysOf(v.table) = KeysOf(T)
      BY <3>4
    <3>10. Walked(v, t, S, m + 1)
      <4>1. Turn(v, w, S, k)
        BY <1>1, <1>5, <2>5, <3>4, <3>6, <3>7, <3>8, <3>9 DEF Turn
      <4> QED BY <4>1, TurnKeeps
    <3> QED BY <3>10 DEF v
  <2> QED BY <2>4, <2>5
<1> QED BY <1>4, <1>5

(* So the loop meets every key once.                                       *)
LEMMA SoundErasingWalks ==
  ASSUME NEW t, Sound(t), NEW S
  PROVE  LET w == ErasingWalk(t, S) IN
         /\ w.pos = End(w.table)
         /\ {w.seen[i] : i \in DOMAIN w.seen} = KeysOf(t) /\ Len(w.seen) = t.num
         /\ KeysOf(w.table) = KeysOf(t) \ S
<1> DEFINE g == Walking(t, S)
           w == g[t.num + 1]
<1>1. IsTable(t) /\ BytesTell(t) /\ t.num \in Nat
  BY DEF Sound, IsTable
<1>2. IsWalking(g, t, S, t.num + 1)
  BY <1>1, WalkingIs
<1> HIDE DEF g
<1>3. \A i \in 0 .. t.num + 1 : g[i] = IF i = 0 THEN Start(t) ELSE WalkOn(g[i - 1], S)
  BY <1>2 DEF IsWalking
<1>4. CASE t.num = 0
  <2>1. Nodes(t) = {}
    BY <1>4, NoNodesAre
  <2>2. KeysOf(t) = {}
    BY <2>1 DEF KeysOf
  <2>3. g[0] = Start(t) /\ w = WalkOn(g[0], S)
    <3>1. 0 \in 0 .. t.num + 1 /\ 1 \in 0 .. t.num + 1 /\ t.num + 1 = 1 /\ 1 - 1 = 0 /\ 1 # 0
      BY <1>4
    <3> QED BY <1>3, <3>1
  <2>4. /\ Start(t) = [table |-> t, pos |-> End(t), seen |-> << >>]
        /\ End(t) >= End(t) /\ End(t) \in Nat
    <3>1. End(t) \in Nat
      BY <1>1, NodesAre
    <3> QED BY <1>4, <3>1 DEF Start, begin
  <2>5. w = [table |-> t, pos |-> End(t), seen |-> << >>]
    <3>1. Start(t).pos = End(t) /\ Start(t).table = t
      BY <2>4
    <3>2. WalkOn(Start(t), S) = Start(t)
      BY <2>4, <3>1, WalkEnds
    <3> QED BY <2>3, <2>4, <3>2
  <2>6. w.pos = End(w.table) /\ w.seen = << >> /\ w.table = t
    BY <2>5
  <2>7. {w.seen[i] : i \in DOMAIN w.seen} = {} /\ Len(w.seen) = 0
    BY <2>6
  <2> QED BY <1>4, <2>2, <2>6, <2>7 DEF ErasingWalk, g
<1>5. CASE t.num # 0
  <2>1. PICK i \in Nodes(t) : TRUE
    BY <1>5, NoNodesAre
  <2>2. t.mask # 0 /\ End(t) \in Nat
    BY <2>1, TableInUse
  <2>3. LandsAt(t, 0, begin(t))
    BY <1>5, <2>2, FastForwardIs DEF begin
  <2>4. KeysFrom(t, begin(t)) = KeysOf(t)
    <3>1. KeysFrom(t, begin(t)) = KeysFrom(t, 0)
      BY <2>3, KeysFromLanding
    <3>2. EntriesFrom(t, 0) = Entries(t)
      BY <1>1, EntriesFromStart
    <3> QED BY <3>1, <3>2, KeysOfEntries DEF KeysFrom
  <2>5. Walked(Start(t), t, S, 0)
    <3> DEFINE v == Start(t)
    <3>1. IsWalk(v) /\ v.table = t /\ v.pos = begin(t) /\ v.seen = << >>
      BY WalkOf DEF Start
    <3> HIDE DEF v
    <3>2. v.seen \in Seq(Keys) /\ Len(v.seen) = 0 /\ Met(v.seen) = {}
      BY <3>1 DEF Met
    <3>3. begin(t) \in Nat /\ begin(t) <= End(t) /\ (begin(t) \in Nodes(t) \/ begin(t) = End(t))
      BY <2>3 DEF LandsAt
    <3>4. Cardinality(KeysOf(t)) = t.num
      BY EntriesAreCounted
    <3> QED BY <1>1, <2>2, <2>4, <3>1, <3>2, <3>3, <3>4 DEF Walked, v
  <2> DEFINE N == {m \in Nat : m <= t.num + 1 => Walked(g[m], t, S, m)}
  <2>6. 0 \in N
    <3>1. 0 \in 0 .. t.num + 1
      BY <1>1
    <3> QED BY <1>3, <2>5, <3>1
  <2>7. ASSUME NEW m \in Nat, m \in N PROVE m + 1 \in N
    <3> SUFFICES ASSUME m + 1 <= t.num + 1 PROVE Walked(g[m + 1], t, S, m + 1)
      OBVIOUS
    <3>1. /\ m <= t.num + 1 /\ m + 1 \in 0 .. t.num + 1 /\ m + 1 # 0 /\ (m + 1) - 1 = m
      BY <1>1
    <3>2. g[m + 1] = WalkOn(g[m], S)
      BY <1>3, <3>1
    <3>3. Walked(g[m], t, S, m)
      BY <2>7, <3>1
    <3> QED BY <1>1, <3>2, <3>3, WalkOnKeeps
  <2> HIDE DEF N
  <2>8. Nat \subseteq N
    BY <2>6, <2>7, SetInduction
  <2>9. Walked(w, t, S, t.num + 1)
    <3>1. t.num + 1 \in Nat /\ t.num + 1 <= t.num + 1
      BY <1>1
    <3> QED BY <2>8, <3>1 DEF N
  <2> DEFINE met == Met(w.seen)
             ahead == KeysFrom(w.table, w.pos)
  <2> HIDE DEF w
  <2>10. /\ Sound(w.table) /\ w.seen \in Seq(Keys)
         /\ met \cup ahead = KeysOf(t)
         /\ Len(w.seen) + Cardinality(ahead) = t.num
         /\ KeysOf(w.table) = ahead \cup (met \ S)
         /\ w.pos = End(w.table) \/ Len(w.seen) = t.num + 1
    BY <2>9 DEF Walked
  <2>11. IsFiniteSet(ahead) /\ Cardinality(ahead) \in Nat
    BY <2>10, AheadIsFinite
  <2>12. w.pos = End(w.table)
    <3>1. Len(w.seen) \in Nat
      BY <2>10
    <3> QED BY <1>1, <2>10, <2>11, <3>1
  <2>13. ahead = {}
    <3>1. IsTable(w.table) /\ BytesTell(w.table)
      BY <2>10 DEF Sound
    <3>2. {y \in Nodes(w.table) : y >= w.pos} = {}
      BY <2>12, <3>1, NodesAre
    <3> QED BY <3>2, KeysFromIs
  <2>14. Len(w.seen) = t.num
    <3>1. Cardinality(ahead) = 0
      BY <2>13, FS_EmptySet
    <3>2. Len(w.seen) \in Nat
      BY <2>10
    <3> QED BY <2>10, <3>1, <3>2
  <2>15. w = ErasingWalk(t, S)
    BY DEF ErasingWalk, g, w
  <2>16. met = KeysOf(t) /\ KeysOf(w.table) = KeysOf(t) \ S
    BY <2>10, <2>13
  <2> QED BY <2>12, <2>14, <2>15, <2>16 DEF Met
<1> QED BY <1>4, <1>5

(***************************************************************************)
(* The invariants of the runs.                                             *)
(***************************************************************************)
(* The invariants of the runs, from TablesInv.                             *)

(* Every node of a table is the one a lookup finds for its key.            *)
THEOREM KeysStayFound == Spec => []KeysAreFound
<1>1. TablesInv => KeysAreFound
  <2> SUFFICES ASSUME TablesInv, NEW n \in Names, NEW i \in Nodes(tables[n])
               PROVE  findIdx(tables[n], tables[n].node[i].key) = i
    BY DEF KeysAreFound
  <2>1. Sound(tables[n])
    BY DEF TablesInv, TableOK
  <2>2. tables[n].node[i].key \in Keys
    BY <2>1, NodesAre DEF Sound
  <2> QED BY <2>1, <2>2, FindIs
<1> QED BY <1>1, TablesStaySound, PTL

(* The members of a table keep their ranges, and the unit of the info bytes *)
(* and the shift of the hash change together.                              *)
THEOREM TablesKeepTypes == Spec => []TablesTypeOK
<1>1. TablesInv => TablesTypeOK
  <2> SUFFICES ASSUME TablesInv, NEW n \in Names
               PROVE  /\ last \in Kinds
                      /\ tables[n].hash \in HashFunctions
                      /\ tables[n].mult \in 0 .. Multipliers - 1
                      /\ tables[n].mask \in 0 .. MaxBuckets - 1
                      /\ tables[n].max \in {0, calcMaxNumElementsAllowed(tables[n].mask + 1)}
                      /\ tables[n].inc * Pow2[tables[n].shift] = InitialInfoInc
    BY DEF TablesTypeOK, TablesInv
  <2> DEFINE t == tables[n]
  <2>1. Sound(t) /\ t.hash \in HashFunctions /\ t.mask < MaxBuckets /\ last \in Kinds
    BY DEF TablesInv, TableOK
  <2> HIDE DEF t
  <2>2. IsTable(t)
    BY <2>1 DEF Sound
  <2>3. /\ t.mult \in 0 .. Multipliers - 1 /\ t.mask \in Nat
        /\ t.max \in {0, calcMaxNumElementsAllowed(t.mask + 1)}
        /\ t.inc * Pow2[t.shift] = InitialInfoInc
    BY <2>2 DEF IsTable, UsesHash, UsesUnit
  <2>4. t.mask \in 0 .. MaxBuckets - 1
    BY <2>1, <2>3, ClientAssumption
  <2> QED BY <2>1, <2>3, <2>4 DEF t
<1> QED BY <1>1, TablesStaySound, PTL

(* An info byte tells how far its node is from its bucket and fits a byte,  *)
(* with room for one more displacement unless the table asks for more room. *)
THEOREM BytesTellDistance == Spec => []InfoTellsDistance
<1>1. TablesInv => InfoTellsDistance
  <2> SUFFICES ASSUME TablesInv, NEW n \in Names, NEW i \in Nodes(tables[n])
               PROVE  LET t == tables[n]
                          p == keyToIdx(t, t.node[i].key)
                      IN /\ t.info[i] = next(t, p, i - p.idx).info
                         /\ i >= p.idx /\ t.info[i] <= MaxInfo
                         /\ t.max # 0 => t.info[i] + t.inc <= MaxInfo
    BY DEF InfoTellsDistance
  <2>1. Sound(tables[n])
    BY DEF TablesInv, TableOK
  <2> QED BY <2>1, SoundTells
<1> QED BY <1>1, TablesStaySound, PTL

(* Iteration visits the slots that hold nodes, in order, and stops at the  *)
(* end; size() counts them.                                                *)
THEOREM WalksSeeEveryNode == Spec => []WalkSeesEveryNode
<1>1. TablesInv => WalkSeesEveryNode
  <2> SUFFICES ASSUME TablesInv, NEW n \in Names
               PROVE  LET t == tables[n] IN
                      /\ t.num = Cardinality(Nodes(t))
                      /\ \A i \in Nodes(t) : i < End(t)
                      /\ \A i \in {-1} \cup Nodes(t) :
                           LET after == {x \in Nodes(t) : x > i}
                               here == IF i = -1 THEN begin(t) ELSE Increment(t, i)
                           IN here = (IF after = {} THEN End(t) ELSE First(after))
    BY DEF WalkSeesEveryNode
  <2>1. Sound(tables[n])
    BY DEF TablesInv, TableOK
  <2> QED BY <2>1, SoundWalks
<1> QED BY <1>1, TablesStaySound, PTL

(* A loop that erases any of the keys through its iterator meets every key *)
(* of the table once and leaves those it was not to erase.                 *)
THEOREM ErasingWalksSeeAll == Spec => []ErasingWalkSeesAll
<1>1. TablesInv => ErasingWalkSeesAll
  <2> SUFFICES ASSUME TablesInv, NEW n \in Names, NEW S \in SUBSET KeysOf(tables[n])
               PROVE  LET t == tables[n]
                          w == ErasingWalk(t, S)
                      IN /\ w.pos = End(w.table)
                         /\ {w.seen[i] : i \in DOMAIN w.seen} = KeysOf(t) /\ Len(w.seen) = t.num
                         /\ KeysOf(w.table) = KeysOf(t) \ S
    BY DEF ErasingWalkSeesAll
  <2>1. Sound(tables[n])
    BY DEF TablesInv, TableOK
  <2> QED BY <2>1, SoundErasingWalks
<1> QED BY <1>1, TablesStaySound, PTL

(* operator== holds of two tables exactly when they answer alike.          *)
THEOREM EqualityStaysRight == Spec => []EqualityIgnoresOrder
<1>1. TablesInv => EqualityIgnoresOrder
  <2> SUFFICES ASSUME TablesInv, NEW n \in Names, NEW o \in Names
               PROVE  Equal(tables[n], tables[o]) <=> answers[n] = answers[o]
    BY DEF EqualityIgnoresOrder
  <2>1. Sound(tables[n]) /\ Sound(tables[o])
    BY DEF TablesInv, TableOK
  <2>2. answers[n] = Contents(tables[n]) /\ answers[o] = Contents(tables[o])
    BY DEF TablesInv
  <2> QED BY <2>1, <2>2, EqualIs
<1> QED BY <1>1, TablesStaySound, PTL

===============================================================================

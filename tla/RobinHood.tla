------------------------------ MODULE RobinHood ------------------------------
(***************************************************************************)
(* utility/robin_hood.hpp, class detail::Table: the open-addressing hash   *)
(* table under entity_index and component_map.  A table is a record of the *)
(* members of the class; an operator returns the table a member function   *)
(* leaves behind.  Nodes are kept in place (IsFlat).  The mixed product of *)
(* the hash and the multiplier is any number the functor `hash` gives for  *)
(* the multiplier in use.                                                  *)
(***************************************************************************)
EXTENDS Integers, Sequences, FiniteSets

CONSTANTS
  Keys, Values,
  blank,              \* the value mapped_type()
  none,               \* key and value of storage that holds no node
  InitialNumElements, \* 8 in the code: also the bytes of a word of info
  InitialInfoInc,     \* 32 in the code
  MaxInfo,            \* 255 in the code
  MaxLoadFactor100,   \* 80 in the code
  Rounds,             \* 256 in the code: attempts at an insertion
  Multipliers         \* number of hash multipliers before they repeat

(* `>> shift` divides by a power of two.                                   *)
Pow2[j \in Nat] == IF j = 0 THEN 1 ELSE 2 * Pow2[j - 1]

ASSUME TableAssumption ==
  /\ blank \in Values
  /\ none \notin Keys
  /\ InitialNumElements \in Nat \ 0 .. 2
  /\ \E j \in 1 .. InitialInfoInc : InitialInfoInc = Pow2[j]
  /\ InitialInfoInc \in Nat \ {0, 1}
  /\ MaxInfo \in Nat /\ MaxInfo >= 2 * InitialInfoInc - 1
  /\ MaxLoadFactor100 \in 11 .. 99
  /\ Rounds \in Nat \ {0} /\ Multipliers \in Nat \ {0}

First(S) == CHOOSE x \in S : \A y \in S : x <= y

(***************************************************************************)
(* Sizes.                                                                  *)
(***************************************************************************)
calcMaxNumElementsAllowed(n) == (n * MaxLoadFactor100) \div 100

calcNumElementsWithBuffer(n) == n + First({calcMaxNumElementsAllowed(n), MaxInfo})

calcNumBytesInfo(n) == n + InitialNumElements

(* distance(mKeyVals, mInfo): both point at mMask before the first insert. *)
End(t) == IF t.mask = 0 THEN 0 ELSE calcNumElementsWithBuffer(t.mask + 1)

NoNode == [key |-> none, value |-> none]

NodeAt(t, i) == IF i \in DOMAIN t.node THEN t.node[i] ELSE NoNode

Nodes(t) == {i \in DOMAIN t.node : t.node[i] # NoNode}

(***************************************************************************)
(* Construction.  init keeps the multiplier.                               *)
(***************************************************************************)
Fresh(hash) ==
  [hash |-> hash, mult |-> 0, num |-> 0, mask |-> 0, max |-> 0,
   inc |-> InitialInfoInc, shift |-> 0,
   info |-> [i \in 0 .. InitialNumElements - 1 |-> 0], node |-> << >>]

init(t) == [Fresh(t.hash) EXCEPT !.mult = t.mult]

(* Slip: the unit of the info bytes stays halved.                          *)
InitDataHalved(t, buckets) ==
  LET n == calcNumElementsWithBuffer(buckets) IN
  [t EXCEPT !.num = 0, !.mask = buckets - 1,
            !.max = calcMaxNumElementsAllowed(buckets), !.shift = 0,
            !.info = [i \in 0 .. calcNumBytesInfo(n) - 1 |-> IF i = n THEN 1 ELSE 0],
            !.node = [i \in 0 .. n - 1 |-> NoNode]]

initData(t, buckets) ==
  LET n == calcNumElementsWithBuffer(buckets) IN
  [t EXCEPT !.num = 0, !.mask = buckets - 1,
            !.max = calcMaxNumElementsAllowed(buckets),
            !.inc = InitialInfoInc, !.shift = 0,
            !.info = [i \in 0 .. calcNumBytesInfo(n) - 1 |-> IF i = n THEN 1 ELSE 0],
            !.node = [i \in 0 .. n - 1 |-> NoNode]]

(***************************************************************************)
(* Probing.  A probe is at index `idx` with the info byte the key would    *)
(* have there; `next` moves it by one slot without wrapping.               *)
(***************************************************************************)
keyToIdx(t, key) ==
  LET h == t.hash[t.mult][key] IN
  [idx  |-> (h \div InitialInfoInc) % (t.mask + 1),
   info |-> t.inc + (h % InitialInfoInc) \div Pow2[t.shift]]

next(t, p, steps) == [idx |-> p.idx + steps, info |-> p.info + steps * t.inc]

(* The bytes a probe from p can meet.                                      *)
Ahead(t, p) == 0 .. calcNumBytesInfo(End(t)) - 1 - p.idx

Holds(t, p, key) ==
  /\ p.info = t.info[p.idx]
  /\ NodeAt(t, p.idx).key = key

nextWhileLess(t, p) ==
  next(t, p, First({j \in Ahead(t, p) : next(t, p, j).info >= t.info[p.idx + j]}))

(* The loop of findIdx is unrolled twice: it looks at the end of the run   *)
(* at every second slot.                                                   *)
findIdx(t, key) ==
  LET p == keyToIdx(t, key)
      stop == First({j \in Ahead(t, p) :
                       j > 0 /\ j % 2 = 0 /\ next(t, p, j).info > t.info[p.idx + j]})
      hits == {j \in 0 .. stop - 1 : Holds(t, next(t, p, j), key)}
  IN IF hits = {} THEN End(t) ELSE p.idx + First(hits)

contains(t, key) == findIdx(t, key) # End(t)

at(t, key) == t.node[findIdx(t, key)].value

(***************************************************************************)
(* Insertion.                                                              *)
(***************************************************************************)
(* Moves the nodes of i .. e-1 up by one.  Alone it is a slip of shiftUp:   *)
(* the displaced nodes are not checked for the last distance they can have. *)
MovedUp(t, i, e) ==
  [t EXCEPT
     !.info = [x \in DOMAIN t.info |->
                 IF x \in i + 1 .. e THEN (t.info[x - 1] + t.inc) % (MaxInfo + 1)
                                     ELSE t.info[x]],
     !.node = [x \in DOMAIN t.node \cup {e} |->
                 NodeAt(t, IF x \in i + 1 .. e THEN x - 1 ELSE x)]]

shiftUp(t, i, e) ==
  LET u == MovedUp(t, i, e) IN
  IF \E x \in i + 1 .. e : u.info[x] + t.inc > MaxInfo THEN [u EXCEPT !.max = 0] ELSE u

(* Puts a new node at p, which the caller found, moving what is there up   *)
(* to the next empty slot.                                                 *)
Place(t, p, node) ==
  LET full == IF p.info + t.inc > MaxInfo THEN [t EXCEPT !.max = 0] ELSE t
      e == First({x \in DOMAIN t.info : x >= p.idx /\ t.info[x] = 0})
      room == shiftUp(full, p.idx, e)
  IN [room EXCEPT !.info[p.idx] = p.info % (MaxInfo + 1),
                  !.node[p.idx] = node,
                  !.num = @ + 1]

CanIncreaseInfo(t) == t.inc > 2

(* Slip: the sentinel is halved with the other bytes.                      *)
IncreaseNoSentinel(t) ==
  [t EXCEPT !.inc = @ \div 2, !.shift = @ + 1,
            !.info = [i \in DOMAIN t.info |-> t.info[i] \div 2],
            !.max = calcMaxNumElementsAllowed(t.mask + 1)]

(* Halves the distance unit and every info byte, drops a bit of the hash   *)
(* and sets the sentinel again.                                            *)
try_increase_info(t) ==
  [t EXCEPT !.inc = @ \div 2, !.shift = @ + 1,
            !.info = [i \in DOMAIN t.info |->
                        IF i = End(t) THEN 1 ELSE t.info[i] \div 2],
            !.max = calcMaxNumElementsAllowed(t.mask + 1)]

(* Every result of a call that may throw: the table and whether it threw.  *)
Done(t) == [table |-> t, threw |-> FALSE]
Thrown(t) == [table |-> t, threw |-> TRUE]

(* The probe's byte is narrowed before it is tested.                        *)
insert_move(t, node) ==
  IF t.max = 0 /\ ~CanIncreaseInfo(t) THEN Thrown(t)
  ELSE LET u == IF t.max = 0 THEN try_increase_info(t) ELSE t
           p == keyToIdx(u, node.key)
           free == First({j \in Ahead(u, p) : next(u, p, j).info > u.info[p.idx + j]})
       IN Done(Place(u, [next(u, p, free) EXCEPT !.info = @ % (MaxInfo + 1)], node))

(* Slip: the overflow is not reported and the moving goes on.               *)
MoveNodeSilently(acc, t, i) ==
  IF acc.threw \/ t.info[i] = 0 THEN acc ELSE Done(insert_move(acc.table, t.node[i]).table)

(* Moves the nodes in the order of the old slots; an overflow on the way   *)
(* leaves the rest behind in storage nobody holds any more.                *)
MoveNode(acc, t, i) ==
  IF acc.threw \/ t.info[i] = 0 THEN acc ELSE insert_move(acc.table, t.node[i])

Rehashing(t, buckets) ==
  LET moved[i \in 0 .. End(t)] ==
        IF i = 0 THEN Done(initData(t, buckets)) ELSE MoveNode(moved[i - 1], t, i - 1)
  IN moved

rehashPowerOfTwo(t, buckets) == Rehashing(t, buckets)[End(t)]

nextHashMultiplier(t) == [t EXCEPT !.mult = (@ + 1) % Multipliers]

increase_size(t) ==
  LET allowed == calcMaxNumElementsAllowed(t.mask + 1)
      u == nextHashMultiplier(t)
  IN CASE t.mask = 0 -> Done(initData(t, InitialNumElements))
       [] t.mask # 0 /\ t.num < allowed /\ CanIncreaseInfo(t) -> Done(try_increase_info(t))
       [] OTHER -> IF t.num * 2 < allowed THEN rehashPowerOfTwo(u, t.mask + 1)
                                          ELSE rehashPowerOfTwo(u, (t.mask + 1) * 2)

(* Where the probe for an insertion ends: past the slots of the same info  *)
(* unless one of them holds the key.                                       *)
ProbeFor(t, key) ==
  LET p == nextWhileLess(t, keyToIdx(t, key))
      past == First({j \in Ahead(t, p) : next(t, p, j).info # t.info[p.idx + j]})
      hits == {j \in 0 .. past - 1 : Holds(t, next(t, p, j), key)}
  IN [found |-> hits # {},
      probe |-> next(t, p, IF hits # {} THEN First(hits) ELSE past)]

(* The rounds of insertKeyPrepareEmptySpot: grow until there is room.      *)
Settled(r, key) ==
  r.threw \/ ProbeFor(r.table, key).found \/ r.table.num < r.table.max

GrowOnce(r, key) == IF Settled(r, key) THEN r ELSE increase_size(r.table)

Growing(t, key) ==
  LET grown[i \in 0 .. Rounds - 1] ==
        IF i = 0 THEN Done(t) ELSE GrowOnce(grown[i - 1], key)
  IN grown

(* The last round: it gives up where there is still no room.               *)
Concluded(r, key) ==
  IF Settled(r, key) THEN r ELSE Thrown(increase_size(r.table).table)

Grown(t, key) == Concluded(Growing(t, key)[Rounds - 1], key)

(* The node is put where the probe w ended, unless the key was found: then *)
(* its value is replaced if `assigns` says so.                             *)
Entered(r, w, node, assigns) ==
  CASE r.threw -> r
    [] ~r.threw /\ w.found ->
           Done(IF assigns THEN [r.table EXCEPT !.node[w.probe.idx] = node]
                           ELSE r.table)
    [] OTHER -> Done(Place(r.table, w.probe, node))

Inserted(t, node, assigns) ==
  LET r == Grown(t, node.key)
  IN Entered(r, ProbeFor(r.table, node.key), node, assigns)

(* emplace, insert and try_emplace keep what is there.                     *)
emplace(t, key, value) ==
  Inserted(t, [key |-> key, value |-> value], FALSE)

(* operator[] makes an entry where there is none.                          *)
subscript(t, key) ==
  Inserted(t, [key |-> key, value |-> blank], FALSE)

insert_or_assign(t, key, value) ==
  Inserted(t, [key |-> key, value |-> value], TRUE)

(***************************************************************************)
(* Removal.                                                                *)
(***************************************************************************)
(* Slip: it pulls down a node that is in its own bucket.                    *)
ShiftDownTooFar(t, i) ==
  LET e == First({x \in i .. End(t) - 1 : t.info[x + 1] < t.inc})
  IN [t EXCEPT
       !.info = [x \in DOMAIN t.info |->
                   CASE x \in i .. e - 1 -> t.info[x + 1] - t.inc
                     [] x = e -> 0
                     [] OTHER -> t.info[x]],
       !.node = [x \in DOMAIN t.node |->
                   CASE x \in i .. e - 1 -> t.node[x + 1]
                     [] x = e -> NoNode
                     [] OTHER -> t.node[x]],
       !.num = @ - 1]

(* shiftDown and the count: the run behind slot i moves down by one.       *)
Removed(t, i) ==
  LET e == First({x \in i .. End(t) - 1 : t.info[x + 1] < 2 * t.inc})
  IN [t EXCEPT
       !.info = [x \in DOMAIN t.info |->
                   CASE x \in i .. e - 1 -> t.info[x + 1] - t.inc
                     [] x = e -> 0
                     [] OTHER -> t.info[x]],
       !.node = [x \in DOMAIN t.node |->
                   CASE x \in i .. e - 1 -> t.node[x + 1]
                     [] x = e -> NoNode
                     [] OTHER -> t.node[x]],
       !.num = @ - 1]

eraseKey(t, key) ==
  LET p == keyToIdx(t, key)
      stop == First({j \in Ahead(t, p) : j > 0 /\ next(t, p, j).info > t.info[p.idx + j]})
      hits == {j \in 0 .. stop - 1 : Holds(t, next(t, p, j), key)}
  IN IF hits = {} THEN t ELSE Removed(t, p.idx + First(hits))

(* The bound on the number of elements and the multiplier stay.            *)
clear(t) ==
  IF t.num = 0 THEN t
  ELSE [t EXCEPT !.num = 0, !.inc = InitialInfoInc, !.shift = 0,
                 !.info = [i \in DOMAIN t.info |-> IF i = End(t) THEN 1 ELSE 0],
                 !.node = [i \in DOMAIN t.node |-> NoNode]]

(***************************************************************************)
(* Iteration.  fastForward reads whole words of info; it ends at the first *)
(* byte that is not 0, at the latest at the sentinel.                      *)
(***************************************************************************)
(* A walk that meets no such byte leaves the bytes of the table.           *)
fastForward(t, i) ==
  LET bytes == {x \in DOMAIN t.info : x >= i /\ t.info[x] # 0}
  IN IF bytes = {} THEN calcNumBytesInfo(End(t)) ELSE First(bytes)

begin(t) == IF t.num = 0 THEN End(t) ELSE fastForward(t, 0)
Increment(t, i) == fastForward(t, i + 1)

(* Slip: the iterator moves on although a node was shifted under it.       *)
EraseAtSkipping(t, i) ==
  LET u == Removed(t, i) IN [table |-> u, pos |-> Increment(u, i)]

eraseAt(t, i) ==
  LET u == Removed(t, i)
  IN [table |-> u, pos |-> IF u.info[i] # 0 THEN i ELSE Increment(u, i)]

has(t, node) ==
  LET i == findIdx(t, node.key) IN i # End(t) /\ t.node[i].value = node.value

(* Slip: the sizes are not compared.                                       *)
EqualUpTo(t, other) == \A i \in Nodes(other) : has(t, other.node[i])

(* operator==: as many elements, and every one of `other` is in t.         *)
Equal(t, other) ==
  /\ t.num = other.num
  /\ \A i \in Nodes(other) : has(t, other.node[i])

(***************************************************************************)
(* Sizes on request, copies and moves.                                     *)
(***************************************************************************)
(* The smallest power of two, from the initial size, that may hold c.      *)
SizeFor(c) ==
  LET sizes == {InitialNumElements * Pow2[j] : j \in 0 .. c + 4}
  IN First({n \in sizes : calcMaxNumElementsAllowed(n) >= c})

(* reserve(c) and, with force, rehash(c).                                  *)
reserve(t, c, force) ==
  LET size == SizeFor(IF c > t.num THEN c ELSE t.num)
  IN IF force \/ size > t.mask + 1 THEN rehashPowerOfTwo(t, size) ELSE Done(t)

compact(t) ==
  LET size == SizeFor(t.num)
  IN IF size < t.mask + 1 THEN rehashPowerOfTwo(t, size) ELSE Done(t)

CopyConstructed(o) == IF o.num = 0 THEN Fresh(o.hash) ELSE o

CopyAssigned(t, o) ==
  CASE o.num = 0 /\ t.mask = 0 -> t
    [] o.num = 0 /\ t.mask # 0 -> init([t EXCEPT !.hash = o.hash])
    [] OTHER -> o

(* What becomes of the target and of the source of a move.                 *)
MoveConstructed(o) == IF o.mask # 0 THEN o ELSE Fresh(o.hash)
MoveAssigned(t, o) == IF o.mask # 0 THEN o ELSE clear(t)
MovedFrom(o) == IF o.mask # 0 THEN init(o) ELSE o

(* swap goes through std::swap: three moves over a third table.            *)
Swapped(t, o) ==
  LET tmp == MoveConstructed(o)
      o2 == MoveAssigned(MovedFrom(o), t)
  IN <<MoveAssigned(MovedFrom(t), tmp), o2>>

===============================================================================

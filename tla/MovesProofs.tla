----------------------------- MODULE MovesProofs ------------------------------
(***************************************************************************)
(* What holds of the calls of the registry object by object, for any       *)
(* components, any number of objects and arrays of any size: the types of  *)
(* ArrayMoves, that no object is lost, doubled or overwritten, that only   *)
(* remove touches objects that are dead, and that the steps come to what   *)
(* ArrayCalls says of whole arrays.                                        *)
(*                                                                         *)
(* Between two steps of a call its arrays are related to what they were    *)
(* when the call began.  An array ahead of the call is as it was, one      *)
(* behind it is what the operation of ByteArray makes of it, and the one   *)
(* the call is at is what its phase says.                                  *)
(***************************************************************************)
EXTENDS ArrayMoves, StorageProofs

Blocks == Arrays \cup {fresh}

Adds == call.name = "add"
Removes == call.name = "remove"
Cleans == call.name = "clean"

(* Objects are in just the slots of entities, and no other memory is held. *)
AllExact(memories) ==
  /\ DOMAIN memories = Blocks
  /\ memories[fresh] = NewArray
  /\ \A a \in Arrays :
       /\ IsByteArray(memories[a], Objects)
       /\ Entities(a) <= memories[a].size
       /\ Exact(memories[a], Entities(a))
       /\ Entities(a) = 0 => memories[a] = NewArray

CallOK ==
  /\ call \in [name : {"add", "remove", "clean"}, from : SUBSET Components,
               to : SUBSET Components, id : Nat, index : Nat]
  /\ Adds => /\ call.id \in call.to /\ call.from = call.to \ {call.id}
             /\ call.from # {} => call.index < counts[call.from]
  /\ Removes => /\ call.to = {} /\ call.id \in Components
                /\ call.from = {call.id} /\ call.index < counts[call.from]
  /\ Cleans => call.from = {} /\ call.to = {}

Visited(a) == \/ Adds /\ a[1] = call.to
              \/ Removes /\ a[1] = call.from
              \/ Cleans /\ Entities(a) > 0

(* The array from which an added entity brings the component of a.         *)
Partner(a) == <<call.from, a[2]>>

Brought(a) == Adds /\ a[2] # call.id

Incoming(a) == saved[Partner(a)].data[call.index]

Emptied(b, j) ==
  [size |-> b.size,
   data |-> [i \in 0 .. b.size - 1 |-> IF i < j THEN raw ELSE b.data[i]]]

(* What resize is given, to which size, and what it or its omission leaves.*)
Old(a) == IF Removes THEN destroy_data(saved[a], call.index) ELSE saved[a]
Resizes(a) == IF Adds THEN needs_space(saved[a], Entities(a))
                      ELSE needs_shrinking(Old(a), Entities(a))
Big(a) == IF Adds THEN 2 * saved[a].size + 1 ELSE Entities(a)
Roomy(a) == IF Adds THEN auto_allocate(saved[a], Entities(a))
                    ELSE auto_shrink(Old(a), Entities(a))

(* The array that the last object fills up, while it has a hole.           *)
Hollow(a) == IF Adds THEN destroy_data(saved[Partner(a)], call.index)
                     ELSE Roomy(a)

Ahead(a) ==
  /\ blocks[a] = saved[a]
  /\ Brought(a) => blocks[Partner(a)] = saved[Partner(a)]

Behind(a) ==
  /\ Adds /\ a[2] = call.id =>
       \E v \in Objects : blocks[a] = emplace_component(saved[a], Entities(a), v)
  /\ Brought(a) =>
       /\ blocks[a] = emplace_component(saved[a], Entities(a), Incoming(a))
       /\ blocks[Partner(a)] =
            move_out(saved[Partner(a)], call.index, Entities(Partner(a)))
  /\ Removes => blocks[a] = erase_component(saved[a], call.index, Entities(a))
  /\ Cleans => blocks[a] = NewArray

Elsewhere ==
  \A a \in Arrays : ~ Visited(a) /\ a[1] # call.from => blocks[a] = saved[a]

(* The array a of the call, in each phase.                                 *)
Resizing(a) ==
  /\ ~ Cleans /\ Resizes(a)
  /\ Brought(a) => blocks[Partner(a)] = saved[Partner(a)]
  /\ phase = "allocate" => blocks[a] = Old(a) /\ blocks[fresh] = NewArray
  /\ phase = "refill" => /\ e \in Nat /\ e < Entities(a)
                         /\ blocks[a] = Emptied(Old(a), e)
                         /\ blocks[fresh] = resize(Old(a), e, Big(a))
  /\ phase = "leave" => /\ e \in Nat /\ e < Entities(a)
                        /\ blocks[a] = construct(Emptied(Old(a), e), e,
                             IF Old(a).data[e] = raw THEN raw ELSE husk)
                        /\ blocks[fresh] = resize(Old(a), e + 1, Big(a))
  /\ phase = "install" => /\ blocks[a] = Emptied(Old(a), Entities(a))
                          /\ blocks[fresh] = resize(Old(a), Entities(a), Big(a))

Placed(a) == blocks[a] = construct(Roomy(a), Entities(a), Incoming(a))

Moving(a) ==
  /\ phase = "construct" => Adds /\ ~ Brought(a) /\ blocks[a] = Roomy(a)
  /\ phase = "move" => /\ Brought(a) /\ blocks[a] = Roomy(a)
                       /\ blocks[Partner(a)] = saved[Partner(a)]
  /\ phase = "moved" =>
       /\ Brought(a) /\ Placed(a)
       /\ blocks[Partner(a)] = construct(saved[Partner(a)], call.index, husk)
  /\ phase = "fill" =>
       /\ Last # call.index
       /\ Removes \/ (Brought(a) /\ Placed(a))
       /\ blocks[Partner(a)] = Hollow(a)
  /\ phase = "filled" =>
       /\ Last # call.index
       /\ Removes \/ (Brought(a) /\ Placed(a))
       /\ blocks[Partner(a)] =
            construct(construct(Hollow(a), call.index, Hollow(a).data[Last]),
                      Last, husk)

Here(a) ==
  /\ phase \in {"erase", "allocate", "refill", "leave", "install", "construct",
                "move", "moved", "fill", "filled", "clean", "free"}
  /\ phase = "erase" => Removes /\ Ahead(a)
  /\ phase \in {"allocate", "refill", "leave", "install"} => Resizing(a)
  /\ phase \in {"construct", "move", "moved", "fill", "filled"} => Moving(a)
  /\ phase = "clean" => /\ Cleans /\ e \in Nat /\ e < Entities(a)
                        /\ blocks[a] = Emptied(saved[a], e)
  /\ phase = "free" => Cleans /\ blocks[a] = Emptied(saved[a], Entities(a))
  /\ phase \notin {"refill", "leave", "install"} => blocks[fresh] = NewArray

Busy == phase \notin {"idle", "thrown"}

Progress ==
  /\ AllExact(saved) /\ CallOK
  /\ pending \subseteq {a \in Arrays : Visited(a)}
  /\ \A a \in pending : Ahead(a)
  /\ \A a \in Arrays :
       Visited(a) /\ a \notin pending /\ ~ (a = array /\ phase # "next")
         => Behind(a)
  /\ Elsewhere
  /\ phase = "next" => blocks[fresh] = NewArray
  /\ phase # "next" => \E a \in Arrays : /\ a = array /\ Visited(a)
                                          /\ a \notin pending /\ Here(a)

MovesInv ==
  /\ MovesTypeOK /\ ObjectsAreConserved /\ OnlyRemoveTouchesDead
  /\ phase = "idle" => AllExact(blocks)
  /\ Busy => Progress

(***************************************************************************)
(* The slots that steps assign to.                                         *)
(***************************************************************************)
(* One step of the loop of resize copies one more slot to the new block.   *)
LEMMA OneMoreCopied ==
  ASSUME NEW V, NEW b, IsByteArray(b, V), NEW j \in Nat, j < b.size,
         NEW n \in Nat, j < n
  PROVE  construct(resize(b, j, n), j, b.data[j]) = resize(b, j + 1, n)
<1> DEFINE r == resize(b, j, n).data
           q == resize(b, j + 1, n).data
<1>1. /\ r = [i \in 0 .. n - 1 |-> IF i < j THEN b.data[i] ELSE raw]
      /\ q = [i \in 0 .. n - 1 |-> IF i < j + 1 THEN b.data[i] ELSE raw]
      /\ resize(b, j + 1, n) = [size |-> n, data |-> q]
      /\ construct(resize(b, j, n), j, b.data[j]) =
           [size |-> n, data |-> [r EXCEPT ![j] = b.data[j]]]
  BY DEF resize, construct
<1> HIDE DEF r, q
<1>2. ASSUME NEW i \in 0 .. n - 1
      PROVE  [r EXCEPT ![j] = b.data[j]][i] = q[i]
  <2>1. i < j + 1 <=> i < j \/ i = j
    OBVIOUS
  <2> QED BY <1>1, <2>1
<1>3. [r EXCEPT ![j] = b.data[j]] = q
  BY <1>1, <1>2
<1> QED BY <1>1, <1>3

(* It takes one more from the old block.                                   *)
LEMMA OneMoreEmptied ==
  ASSUME NEW V, NEW b, IsByteArray(b, V), NEW j \in Nat, j < b.size, NEW v
  PROVE  destroy_data(construct(Emptied(b, j), j, v), j) = Emptied(b, j + 1)
<1> DEFINE r == Emptied(b, j).data
           q == Emptied(b, j + 1).data
           d == destroy_data(construct(Emptied(b, j), j, v), j).data
<1>1. /\ r = [i \in 0 .. b.size - 1 |-> IF i < j THEN raw ELSE b.data[i]]
      /\ q = [i \in 0 .. b.size - 1 |-> IF i < j + 1 THEN raw ELSE b.data[i]]
      /\ d = [[r EXCEPT ![j] = v] EXCEPT ![j] = raw]
      /\ Emptied(b, j + 1) = [size |-> b.size, data |-> q]
      /\ destroy_data(construct(Emptied(b, j), j, v), j) =
           [size |-> b.size, data |-> d]
  BY DEF Emptied, construct, destroy_data
<1>2. b.size \in Nat
  BY DEF IsByteArray
<1> HIDE DEF r, q, d
<1>3. ASSUME NEW i \in 0 .. b.size - 1
      PROVE  d[i] = q[i]
  <2>1. i < j + 1 <=> i < j \/ i = j
    BY <1>2
  <2> QED BY <1>1, <2>1
<1>4. d = q
  BY <1>1, <1>3
<1> QED BY <1>1, <1>4

(* clean destroys without moving.                                          *)
LEMMA OneMoreDestroyed ==
  ASSUME NEW V, NEW b, IsByteArray(b, V), NEW j \in Nat, j < b.size
  PROVE  destroy_data(Emptied(b, j), j) = Emptied(b, j + 1)
<1> DEFINE r == Emptied(b, j).data
<1>1. /\ r = [i \in 0 .. b.size - 1 |-> IF i < j THEN raw ELSE b.data[i]]
      /\ Emptied(b, j) = [size |-> b.size, data |-> r]
      /\ construct(Emptied(b, j), j, r[j]) =
           [size |-> b.size, data |-> [r EXCEPT ![j] = r[j]]]
  BY DEF Emptied, construct
<1>2. construct(Emptied(b, j), j, r[j]) = Emptied(b, j)
  <2> HIDE DEF r
  <2>1. [r EXCEPT ![j] = r[j]] = r
    BY <1>1
  <2> QED BY <1>1, <2>1
<1> QED BY <1>2, OneMoreEmptied

(* Of two assignments to a slot the second counts.                         *)
LEMMA SecondConstruct ==
  ASSUME NEW b, NEW i, NEW u, NEW v
  PROVE  construct(construct(b, i, u), i, v) = construct(b, i, v)
<1> DEFINE d == b.data
<1>1. [[d EXCEPT ![i] = u] EXCEPT ![i] = v] = [d EXCEPT ![i] = v]
  OBVIOUS
<1> QED BY <1>1 DEF construct

(* Assignments to two slots may be swapped.                                *)
LEMMA ConstructsCommute ==
  ASSUME NEW b, NEW i, NEW u, NEW j, NEW v, i # j
  PROVE  construct(construct(b, i, u), j, v) = construct(construct(b, j, v), i, u)
<1> DEFINE d == b.data
<1>1. [[d EXCEPT ![i] = u] EXCEPT ![j] = v] = [[d EXCEPT ![j] = v] EXCEPT ![i] = u]
  OBVIOUS
<1> QED BY <1>1 DEF construct

(* Nothing has left the old block yet.                                     *)
LEMMA EmptiedOfNone ==
  ASSUME NEW V, NEW b, IsByteArray(b, V)
  PROVE  Emptied(b, 0) = b
<1>1. /\ b = [size |-> b.size, data |-> b.data]
      /\ b.size \in Nat
      /\ b.data \in [0 .. b.size - 1 -> V \cup {raw}]
  BY DEF IsByteArray
<1> DEFINE d == b.data
<1>2. d = [i \in 0 .. b.size - 1 |-> IF i < 0 THEN raw ELSE d[i]]
  BY <1>1
<1> QED BY <1>1, <1>2 DEF Emptied

(* Nothing has come to the new block yet.                                  *)
LEMMA NoneResized ==
  ASSUME NEW V, NEW b, IsByteArray(b, V), NEW n \in Nat
  PROVE  IsByteArray(resize(b, 0, n), V)
<1>1. b.size \in Nat
  BY DEF IsByteArray
<1> QED BY <1>1, ResizeArray

(* What memory there is, by the sets of what may lie in it.                *)
LEMMA EmptiedArray ==
  ASSUME NEW V, NEW b, IsByteArray(b, V), NEW j \in Nat
  PROVE  /\ IsByteArray(Emptied(b, j), V)
         /\ Emptied(b, j).size = b.size
         /\ \A i \in 0 .. b.size - 1 :
              Emptied(b, j).data[i] = IF i < j THEN raw ELSE b.data[i]
BY DEF IsByteArray, Emptied

(* An array without memory is one of any kind of objects.                  *)
LEMMA NewArrayArray ==
  ASSUME NEW V
  PROVE  /\ IsByteArray(NewArray, V)
         /\ NewArray.size = 0
         /\ DOMAIN NewArray.data = {}
<1>1. 0 .. 0 - 1 = {}
  OBVIOUS
<1> QED BY <1>1 DEF IsByteArray, NewArray

(* A kind of objects may be widened.                                       *)
LEMMA MoreKinds ==
  ASSUME NEW V, NEW W, NEW b, IsByteArray(b, V), V \subseteq W
  PROVE  IsByteArray(b, W)
BY DEF IsByteArray

(***************************************************************************)
(* Objects in blocks: each of a set in one slot of one block, and no other *)
(* in any.                                                                 *)
(***************************************************************************)
Conserved(memories, objects) ==
  /\ \A object \in objects : \E a \in Blocks :
       \E i \in DOMAIN memories[a].data : memories[a].data[i] = object
  /\ \A a, b \in Blocks :
       \A i \in DOMAIN memories[a].data, j \in DOMAIN memories[b].data :
         memories[a].data[i] \in Objects =>
           /\ memories[a].data[i] \in objects
           /\ memories[a].data[i] = memories[b].data[j] => a = b /\ i = j

(* ObjectsAreConserved says this of the blocks there are.                  *)
LEMMA ConservedIsConserved == ObjectsAreConserved <=> Conserved(blocks, owned)
BY DEF ObjectsAreConserved, Conserved, At, Blocks

(* An object moves to a slot without one, and leaves none where it was.    *)
LEMMA MoveConserves ==
  ASSUME NEW B, NEW C, NEW O, Conserved(B, O), O \subseteq Objects,
         NEW a \in Blocks, NEW i \in DOMAIN B[a].data,
         NEW b \in Blocks, NEW j \in DOMAIN B[b].data,
         ~ (a = b /\ i = j), B[b].data[j] \notin Objects,
         \A c \in Blocks : DOMAIN C[c].data = DOMAIN B[c].data,
         C[b].data[j] = B[a].data[i], C[a].data[i] \notin Objects,
         \A c \in Blocks : \A k \in DOMAIN B[c].data :
           \/ c = a /\ k = i
           \/ c = b /\ k = j
           \/ C[c].data[k] = B[c].data[k]
  PROVE  Conserved(C, O)
<1>1. ASSUME NEW o \in O
      PROVE  \E c \in Blocks : \E k \in DOMAIN C[c].data : C[c].data[k] = o
  <2>1. PICK c \in Blocks : \E k \in DOMAIN B[c].data : B[c].data[k] = o
    BY DEF Conserved
  <2>2. PICK k \in DOMAIN B[c].data : B[c].data[k] = o
    BY <2>1
  <2>3. CASE c = a /\ k = i
    BY <2>2, <2>3
  <2>4. CASE ~ (c = a /\ k = i)
    <3>1. C[c].data[k] = o
      BY <2>2, <2>4
    <3> QED BY <3>1
  <2> QED BY <2>3, <2>4
<1>2. ASSUME NEW c \in Blocks, NEW k \in DOMAIN C[c].data,
             C[c].data[k] \in Objects
      PROVE  /\ ~ (c = a /\ k = i)
             /\ k \in DOMAIN B[c].data
             /\ c = b /\ k = j => C[c].data[k] = B[a].data[i]
             /\ ~ (c = b /\ k = j) => C[c].data[k] = B[c].data[k]
  BY <1>2
<1>3. ASSUME NEW c \in Blocks, NEW d \in Blocks,
             NEW k \in DOMAIN C[c].data, NEW l \in DOMAIN C[d].data,
             C[c].data[k] \in Objects
      PROVE  /\ C[c].data[k] \in O
             /\ C[c].data[k] = C[d].data[l] => c = d /\ k = l
  <2>1. C[c].data[k] \in O
    <3>1. CASE c = b /\ k = j
      BY <1>2, <1>3, <3>1 DEF Conserved
    <3>2. CASE ~ (c = b /\ k = j)
      BY <1>2, <1>3, <3>2 DEF Conserved
    <3> QED BY <3>1, <3>2
  <2>2. ASSUME C[c].data[k] = C[d].data[l]
        PROVE  c = d /\ k = l
    <3>1. C[d].data[l] \in Objects
      BY <1>3, <2>2
    <3>2. CASE (c = b /\ k = j) /\ (d = b /\ l = j)
      BY <3>2
    <3>3. CASE (c = b /\ k = j) /\ ~ (d = b /\ l = j)
      <4>1. B[d].data[l] = B[a].data[i] /\ l \in DOMAIN B[d].data
            /\ B[a].data[i] \in Objects
        BY <1>2, <1>3, <2>2, <3>1, <3>3
      <4>2. d = a /\ l = i
        BY <4>1 DEF Conserved
      <4> QED BY <1>2, <3>1, <4>2
    <3>4. CASE ~ (c = b /\ k = j) /\ (d = b /\ l = j)
      <4>1. B[c].data[k] = B[a].data[i] /\ k \in DOMAIN B[c].data
            /\ B[a].data[i] \in Objects
        BY <1>2, <1>3, <2>2, <3>1, <3>4
      <4>2. c = a /\ k = i
        BY <4>1 DEF Conserved
      <4> QED BY <1>2, <1>3, <4>2
    <3>5. CASE ~ (c = b /\ k = j) /\ ~ (d = b /\ l = j)
      <4>1. /\ B[c].data[k] = B[d].data[l] /\ B[c].data[k] \in Objects
            /\ k \in DOMAIN B[c].data /\ l \in DOMAIN B[d].data
        BY <1>2, <1>3, <2>2, <3>1, <3>5
      <4> QED BY <4>1 DEF Conserved
    <3> QED BY <3>2, <3>3, <3>4, <3>5
  <2> QED BY <2>1, <2>2
<1> QED BY <1>1, <1>3 DEF Conserved

(* A slot is left without an object, and what it had is gone.              *)
LEMMA DropConserves ==
  ASSUME NEW B, NEW C, NEW O, Conserved(B, O),
         NEW a \in Blocks, NEW i \in DOMAIN B[a].data,
         \A c \in Blocks : DOMAIN C[c].data = DOMAIN B[c].data,
         C[a].data[i] \notin Objects,
         \A c \in Blocks : \A k \in DOMAIN B[c].data :
           (c = a /\ k = i) \/ C[c].data[k] = B[c].data[k]
  PROVE  Conserved(C, O \ {B[a].data[i]})
<1> DEFINE P == O \ {B[a].data[i]}
<1>1. ASSUME NEW o \in P
      PROVE  \E c \in Blocks : \E k \in DOMAIN C[c].data : C[c].data[k] = o
  <2>1. PICK c \in Blocks : \E k \in DOMAIN B[c].data : B[c].data[k] = o
    BY DEF Conserved
  <2>2. PICK k \in DOMAIN B[c].data : B[c].data[k] = o
    BY <2>1
  <2>3. ~ (c = a /\ k = i)
    BY <2>2
  <2>4. C[c].data[k] = o
    BY <2>2, <2>3
  <2> QED BY <2>4
<1>2. ASSUME NEW c \in Blocks, NEW k \in DOMAIN C[c].data,
             C[c].data[k] \in Objects
      PROVE  /\ ~ (c = a /\ k = i)
             /\ k \in DOMAIN B[c].data
             /\ C[c].data[k] = B[c].data[k]
  BY <1>2
<1>3. ASSUME NEW c \in Blocks, NEW d \in Blocks,
             NEW k \in DOMAIN C[c].data, NEW l \in DOMAIN C[d].data,
             C[c].data[k] \in Objects
      PROVE  /\ C[c].data[k] \in P
             /\ C[c].data[k] = C[d].data[l] => c = d /\ k = l
  <2>1. /\ k \in DOMAIN B[c].data /\ C[c].data[k] = B[c].data[k]
        /\ ~ (c = a /\ k = i)
    BY <1>2, <1>3
  <2>2. C[c].data[k] \in O /\ C[c].data[k] # B[a].data[i]
    BY <1>3, <2>1 DEF Conserved
  <2>3. ASSUME C[c].data[k] = C[d].data[l]
        PROVE  c = d /\ k = l
    <3>1. /\ l \in DOMAIN B[d].data /\ C[d].data[l] = B[d].data[l]
      BY <1>2, <1>3, <2>3
    <3> QED BY <1>3, <2>1, <2>3, <3>1 DEF Conserved
  <2> QED BY <2>2, <2>3
<1> QED BY <1>1, <1>3 DEF Conserved

(* An object is constructed in a slot without one.                         *)
LEMMA ConstructConserves ==
  ASSUME NEW B, NEW C, NEW O, Conserved(B, O), O \subseteq Objects,
         NEW a \in Blocks, NEW i \in DOMAIN B[a].data,
         B[a].data[i] \notin Objects,
         \A c \in Blocks : DOMAIN C[c].data = DOMAIN B[c].data,
         NEW v, C[a].data[i] = v, v \in Objects, v \notin O,
         \A c \in Blocks : \A k \in DOMAIN B[c].data :
           (c = a /\ k = i) \/ C[c].data[k] = B[c].data[k]
  PROVE  Conserved(C, O \cup {v})
<1> DEFINE P == O \cup {v}
<1>1. ASSUME NEW o \in P
      PROVE  \E c \in Blocks : \E k \in DOMAIN C[c].data : C[c].data[k] = o
  <2>1. CASE o = v
    BY <2>1
  <2>2. CASE o \in O
    <3>1. PICK c \in Blocks : \E k \in DOMAIN B[c].data : B[c].data[k] = o
      BY <2>2 DEF Conserved
    <3>2. PICK k \in DOMAIN B[c].data : B[c].data[k] = o
      BY <3>1
    <3>3. ~ (c = a /\ k = i)
      BY <2>2, <3>2
    <3>4. C[c].data[k] = o
      BY <3>2, <3>3
    <3> QED BY <3>4
  <2> QED BY <2>1, <2>2
<1>2. ASSUME NEW c \in Blocks, NEW k \in DOMAIN C[c].data,
             C[c].data[k] \in Objects, ~ (c = a /\ k = i)
      PROVE  /\ k \in DOMAIN B[c].data
             /\ C[c].data[k] = B[c].data[k]
             /\ C[c].data[k] \in O
  BY <1>2 DEF Conserved
<1>3. ASSUME NEW c \in Blocks, NEW d \in Blocks,
             NEW k \in DOMAIN C[c].data, NEW l \in DOMAIN C[d].data,
             C[c].data[k] \in Objects
      PROVE  /\ C[c].data[k] \in P
             /\ C[c].data[k] = C[d].data[l] => c = d /\ k = l
  <2>1. CASE c = a /\ k = i
    BY <1>2, <1>3, <2>1
  <2>2. CASE ~ (c = a /\ k = i)
    <3>1. /\ k \in DOMAIN B[c].data /\ C[c].data[k] = B[c].data[k]
          /\ C[c].data[k] \in O
      BY <1>2, <1>3, <2>2
    <3>2. ASSUME C[c].data[k] = C[d].data[l]
          PROVE  c = d /\ k = l
      <4>1. ~ (d = a /\ l = i)
        BY <3>1, <3>2
      <4>2. l \in DOMAIN B[d].data /\ C[d].data[l] = B[d].data[l]
        BY <1>2, <1>3, <3>2, <4>1
      <4> QED BY <1>3, <3>1, <3>2, <4>2 DEF Conserved
    <3> QED BY <3>1, <3>2
  <2> QED BY <2>1, <2>2
<1> QED BY <1>1, <1>3 DEF Conserved

(* Blocks are freed or allocated that have no objects.                     *)
LEMMA RenewingConserves ==
  ASSUME NEW B, NEW C, NEW O, Conserved(B, O), O \subseteq Objects,
         \A c \in Blocks :
           \/ C[c] = B[c]
           \/ /\ \A k \in DOMAIN B[c].data : B[c].data[k] \notin Objects
              /\ \A k \in DOMAIN C[c].data : C[c].data[k] \notin Objects
  PROVE  Conserved(C, O)
<1>1. ASSUME NEW o \in O
      PROVE  \E c \in Blocks : \E k \in DOMAIN C[c].data : C[c].data[k] = o
  <2>1. PICK c \in Blocks : \E k \in DOMAIN B[c].data : B[c].data[k] = o
    BY DEF Conserved
  <2>2. C[c] = B[c]
    BY <2>1
  <2> QED BY <2>1, <2>2
<1>2. ASSUME NEW c \in Blocks, NEW k \in DOMAIN C[c].data,
             C[c].data[k] \in Objects
      PROVE  C[c] = B[c]
  BY <1>2
<1>3. ASSUME NEW c \in Blocks, NEW d \in Blocks,
             NEW k \in DOMAIN C[c].data, NEW l \in DOMAIN C[d].data,
             C[c].data[k] \in Objects
      PROVE  /\ C[c].data[k] \in O
             /\ C[c].data[k] = C[d].data[l] => c = d /\ k = l
  <2>1. C[c] = B[c]
    BY <1>2, <1>3
  <2>2. C[c].data[k] = C[d].data[l] => C[d] = B[d]
    BY <1>2, <1>3
  <2> QED BY <1>3, <2>1, <2>2 DEF Conserved
<1> QED BY <1>1, <1>3 DEF Conserved

(* A block without objects is replaced with another, which is let go.      *)
LEMMA ReplacingConserves ==
  ASSUME NEW B, NEW C, NEW O, Conserved(B, O),
         NEW a \in Blocks, NEW b \in Blocks, a # b,
         \A k \in DOMAIN B[a].data : B[a].data[k] \notin Objects,
         C[a] = B[b],
         \A k \in DOMAIN C[b].data : C[b].data[k] \notin Objects,
         \A c \in Blocks : c = a \/ c = b \/ C[c] = B[c],
         O \subseteq Objects
  PROVE  Conserved(C, O)
<1>1. ASSUME NEW o \in O
      PROVE  \E c \in Blocks : \E k \in DOMAIN C[c].data : C[c].data[k] = o
  <2>1. PICK c \in Blocks : \E k \in DOMAIN B[c].data : B[c].data[k] = o
    BY DEF Conserved
  <2>2. c # a
    BY <2>1
  <2>3. CASE c = b
    BY <2>1, <2>3
  <2>4. CASE c # b
    BY <2>1, <2>2, <2>4
  <2> QED BY <2>3, <2>4
<1>2. ASSUME NEW c \in Blocks, NEW k \in DOMAIN C[c].data,
             C[c].data[k] \in Objects
      PROVE  c # b /\ (c = a => C[c] = B[b]) /\ (c # a => C[c] = B[c])
  BY <1>2
<1>3. ASSUME NEW c \in Blocks, NEW d \in Blocks,
             NEW k \in DOMAIN C[c].data, NEW l \in DOMAIN C[d].data,
             C[c].data[k] \in Objects
      PROVE  /\ C[c].data[k] \in O
             /\ C[c].data[k] = C[d].data[l] => c = d /\ k = l
  <2> DEFINE Was(c0) == IF c0 = a THEN b ELSE c0
  <2>1. C[c] = B[Was(c)] /\ c # b /\ Was(c) \in Blocks
    BY <1>2, <1>3
  <2>2. C[c].data[k] \in O
    BY <1>3, <2>1 DEF Conserved
  <2>3. ASSUME C[c].data[k] = C[d].data[l]
        PROVE  c = d /\ k = l
    <3>1. C[d] = B[Was(d)] /\ d # b /\ Was(d) \in Blocks
      BY <1>2, <1>3, <2>3
    <3>2. Was(c) = Was(d) /\ k = l
      BY <1>3, <2>1, <2>3, <3>1 DEF Conserved
    <3> QED BY <2>1, <3>1, <3>2
  <2> QED BY <2>2, <2>3
<1> QED BY <1>1, <1>3 DEF Conserved

(***************************************************************************)
(* The arrays a call visits, and those it takes components from.           *)
(***************************************************************************)
(* An array is one of an archetype and a component it has.                 *)
LEMMA ArrayFacts ==
  /\ fresh \notin Arrays
  /\ \A a \in Arrays : /\ a = <<a[1], a[2]>> /\ a \in Blocks
                       /\ a[1] \in Archetypes /\ a[1] \subseteq Components
                       /\ a[1] # {} /\ a[2] \in a[1] /\ a[2] \in Components
  /\ \A k \in SUBSET Components : \A c \in k :
       <<k, c>> \in Arrays /\ k \in Archetypes
BY DEF Arrays, Archetypes, Blocks, fresh

(* What an added entity brings along it had in its old archetype; an       *)
(* entity that loses its only component leaves a hole in that array.       *)
LEMMA PartnerFacts ==
  ASSUME CallOK, counts \in [Archetypes -> Nat], NEW a \in Arrays, Visited(a)
  PROVE  /\ Entities(a) \in Nat
         /\ Partner(a)[1] = call.from
         /\ Brought(a) => /\ Partner(a) \in Arrays /\ ~ Visited(Partner(a))
                          /\ Partner(a) # a
                          /\ Entities(Partner(a)) \in Nat
                          /\ call.index \in Nat
                          /\ call.index < Entities(Partner(a))
         /\ Removes => /\ Partner(a) = a
                       /\ call.index \in Nat /\ call.index < Entities(a)
<1>1. /\ a = <<a[1], a[2]>> /\ a[1] \in Archetypes /\ a[2] \in a[1]
      /\ a[1] \subseteq Components /\ a[2] \in Components
  BY ArrayFacts
<1>2. Partner(a)[1] = call.from /\ Entities(a) \in Nat
  BY <1>1 DEF Partner, Entities
<1>3. ASSUME Brought(a)
      PROVE  /\ Partner(a) \in Arrays /\ ~ Visited(Partner(a))
             /\ Partner(a) # a
             /\ Entities(Partner(a)) \in Nat
             /\ call.index \in Nat
             /\ call.index < Entities(Partner(a))
  <2>1. /\ Adds /\ ~ Removes /\ ~ Cleans /\ a[2] # call.id
        /\ a[1] = call.to /\ call.index \in Nat
    BY <1>3 DEF Brought, Visited, Adds, Removes, Cleans, CallOK
  <2>2. /\ call.from = call.to \ {call.id} /\ call.id \in call.to
        /\ call.from # {} => call.index < counts[call.from]
    BY <2>1 DEF CallOK
  <2>3. a[2] \in call.from /\ call.from \in SUBSET Components
    BY <1>1, <2>1, <2>2
  <2>4. Partner(a) \in Arrays /\ call.from \in Archetypes
    BY <2>3, ArrayFacts DEF Partner
  <2>5. call.from # call.to
    BY <2>2
  <2>6. ~ Visited(Partner(a)) /\ Partner(a) # a
    BY <1>2, <2>1, <2>5 DEF Visited
  <2> QED BY <1>2, <2>1, <2>2, <2>3, <2>4, <2>6 DEF Entities
<1>4. ASSUME Removes
      PROVE  /\ Partner(a) = a
             /\ call.index \in Nat /\ call.index < Entities(a)
  <2>1. a[1] = call.from
    BY <1>4 DEF Visited, Adds, Removes, Cleans
  <2> QED BY <1>1, <1>4, <2>1 DEF CallOK, Partner, Entities
<1> QED BY <1>2, <1>3, <1>4

(* Two visits have no array in common.                                     *)
LEMMA VisitsAreApart ==
  ASSUME CallOK, counts \in [Archetypes -> Nat],
         NEW a \in Arrays, Visited(a), NEW b \in Arrays, Visited(b), a # b
  PROVE  /\ b # Partner(a)
         /\ Brought(b) => Partner(b) # a /\ Partner(b) # Partner(a)
<1>1. /\ a = <<a[1], a[2]>> /\ b = <<b[1], b[2]>> /\ b[1] # {}
  BY ArrayFacts
<1>2. CASE Adds
  <2>1. ~ Removes /\ ~ Cleans
    BY <1>2 DEF Adds, Removes, Cleans
  <2>2. a[1] = call.to /\ b[1] = call.to /\ call.from # call.to
    BY <1>2, <2>1 DEF Visited, CallOK
  <2> QED BY <1>1, <2>2 DEF Partner
<1>3. CASE Removes
  BY <1>3, PartnerFacts DEF Brought, Adds, Removes
<1>4. CASE Cleans
  BY <1>1, <1>4 DEF Brought, Adds, Cleans, CallOK, Partner
<1> QED BY <1>2, <1>3, <1>4 DEF CallOK, Adds, Removes, Cleans

(* A step that is about the array of the call.                             *)
AtArray ==
  /\ UNCHANGED <<counts, control>>
  /\ \A c \in Blocks :
       c \notin {array, Partner(array), fresh} => blocks'[c] = blocks[c]

(* Such a step leaves what is ahead of the call and what is behind it.     *)
LEMMA OthersStay ==
  ASSUME Progress, counts \in [Archetypes -> Nat], phase # "next", AtArray
  PROVE  /\ AllExact(saved)' /\ CallOK'
         /\ pending' \subseteq {a \in Arrays : Visited(a)'}
         /\ \A a \in pending' : Ahead(a)'
         /\ \A a \in Arrays :
              Visited(a)' /\ a \notin pending' /\ a # array' => Behind(a)'
         /\ Elsewhere'
<1>1. /\ counts' = counts /\ call' = call /\ pending' = pending
      /\ array' = array /\ saved' = saved
  BY DEF AtArray, control
<1>2. AllExact(saved) /\ CallOK /\ array \in Arrays /\ Visited(array)
      /\ array \notin pending
  BY DEF Progress
<1>3. AllExact(saved)' /\ CallOK'
  BY <1>1, <1>2 DEF AllExact, Entities, CallOK, Adds, Removes, Cleans
<1>4. \A a \in Arrays : Visited(a)' = Visited(a)
  BY <1>1 DEF Visited, Adds, Removes, Cleans, Entities
<1>5. pending' \subseteq {a \in Arrays : Visited(a)'}
  BY <1>1, <1>4 DEF Progress
<1>6. ASSUME NEW a \in Arrays, Visited(a), a # array
      PROVE  /\ blocks'[a] = blocks[a]
             /\ Brought(a) => blocks'[Partner(a)] = blocks[Partner(a)]
  <2>1. a # Partner(array) /\ a # fresh /\ a \in Blocks
    BY <1>2, <1>6, VisitsAreApart, ArrayFacts
  <2>2. ASSUME Brought(a)
        PROVE  /\ Partner(a) \in Blocks /\ Partner(a) # array
               /\ Partner(a) # Partner(array) /\ Partner(a) # fresh
    BY <1>2, <1>6, <2>2, VisitsAreApart, PartnerFacts, ArrayFacts
  <2> QED BY <1>6, <2>1, <2>2 DEF AtArray
<1>7. ASSUME NEW a \in pending
      PROVE  Ahead(a)'
  <2>1. a \in Arrays /\ Visited(a) /\ a # array /\ Ahead(a)
    BY <1>2 DEF Progress
  <2> QED BY <1>1, <1>6, <2>1 DEF Ahead, Brought, Adds, Partner
<1>8. ASSUME NEW a \in Arrays, Visited(a), a \notin pending, a # array
      PROVE  Behind(a)'
  <2>1. Behind(a)
    BY <1>8 DEF Progress
  <2>2. /\ blocks'[a] = blocks[a]
        /\ Brought(a) => blocks'[Partner(a)] = blocks[Partner(a)]
    BY <1>6, <1>8
  <2>3. /\ Brought(a)' = Brought(a) /\ Partner(a)' = Partner(a)
        /\ Incoming(a)' = Incoming(a) /\ Adds' = Adds /\ Removes' = Removes
        /\ Cleans' = Cleans /\ Entities(a)' = Entities(a)
        /\ Entities(Partner(a))' = Entities(Partner(a))
    BY <1>1 DEF Brought, Partner, Incoming, Adds, Removes, Cleans, Entities
  <2> QED BY <1>1, <2>1, <2>2, <2>3 DEF Behind
<1>9. Elsewhere'
  <2> SUFFICES ASSUME NEW a \in Arrays, ~ Visited(a)', a[1] # call'.from
               PROVE  blocks'[a] = saved'[a]
    BY DEF Elsewhere
  <2>1. ~ Visited(a) /\ a[1] # call.from
    BY <1>1, <1>4
  <2>2. blocks[a] = saved[a]
    BY <2>1 DEF Progress, Elsewhere
  <2>3. a # array /\ a # Partner(array) /\ a # fresh /\ a \in Blocks
    BY <1>2, <2>1, ArrayFacts, PartnerFacts
  <2> QED BY <1>1, <2>2, <2>3 DEF AtArray
<1>10. \A a \in pending' : Ahead(a)'
  BY <1>1, <1>7
<1>11. \A a \in Arrays :
         Visited(a)' /\ a \notin pending' /\ a # array' => Behind(a)'
  BY <1>1, <1>4, <1>8
<1> QED BY <1>3, <1>5, <1>9, <1>10, <1>11

(* It keeps the correspondence if it keeps the array of the call as its    *)
(* next phase says.                                                        *)
LEMMA ArrayKeepsProgress ==
  ASSUME Progress, counts \in [Archetypes -> Nat], phase # "next", AtArray,
         NEW a \in Arrays, a = array,
         phase' # "next" => Here(a)',
         phase' = "next" => Behind(a)' /\ blocks'[fresh] = NewArray
  PROVE  Progress'
<1>1. array' = array /\ pending' = pending
  BY DEF AtArray, control
<1>2. Visited(a) /\ a \notin pending
  BY DEF Progress
<1>3. Visited(a)' = Visited(a)
  BY DEF AtArray, control, Visited, Adds, Removes, Cleans, Entities
<1> QED BY <1>1, <1>2, <1>3, OthersStay DEF Progress

(***************************************************************************)
(* What single moves and destructions keep.                                *)
(***************************************************************************)
Held == MovesTypeOK /\ ObjectsAreConserved /\ OnlyRemoveTouchesDead

(* Only blocks, owned, used and dead matter to the three.                  *)
LEMMA HeldAfter ==
  ASSUME Held, UNCHANGED <<counts, used>>, owned' \subseteq owned,
         DOMAIN blocks' = Blocks,
         \A c \in Blocks : IsByteArray(blocks'[c], Objects \cup {husk}),
         Conserved(blocks', owned'),
         dead' \subseteq dead \cup {"remove"}
  PROVE  Held'
<1>1. MovesTypeOK'
  BY DEF Held, MovesTypeOK, Blocks
<1>2. ObjectsAreConserved'
  BY DEF ObjectsAreConserved, Conserved, At, Blocks
<1>3. OnlyRemoveTouchesDead'
  BY DEF Held, OnlyRemoveTouchesDead
<1> QED BY <1>1, <1>2, <1>3 DEF Held

(* So a step that leaves them keeps the three.                             *)
LEMMA HeldUnchanged ==
  ASSUME Held, counts' = counts, blocks' = blocks, owned' = owned,
         used' = used, dead' = dead
  PROVE  Held'
<1>1. /\ DOMAIN blocks' = Blocks
      /\ \A c \in Blocks : IsByteArray(blocks'[c], Objects \cup {husk})
  BY DEF Held, MovesTypeOK, Blocks
<1>2. Conserved(blocks', owned')
  BY ConservedIsConserved DEF Held
<1> QED BY <1>1, <1>2, HeldAfter

(* move_data into a slot without an object; only remove may move from one. *)
LEMMA MoveKeeps ==
  ASSUME Held, NEW a \in Blocks, NEW i \in DOMAIN blocks[a].data,
         NEW b \in Blocks, NEW j \in DOMAIN blocks[b].data,
         ~ (a = b /\ i = j), At(b, j) \notin Objects,
         At(a, i) \in Objects \/ Removes,
         MoveData(a, i, b, j)
  PROVE  /\ Held'
         /\ \A c \in Blocks : c # a /\ c # b => blocks'[c] = blocks[c]
         /\ a # b =>
              /\ blocks'[a] = construct(blocks[a], i,
                                IF At(a, i) = raw THEN raw ELSE husk)
              /\ blocks'[b] = construct(blocks[b], j, At(a, i))
         /\ a = b =>
              blocks'[a] = construct(construct(blocks[a], i,
                                       IF At(a, i) = raw THEN raw ELSE husk),
                                     j, At(a, i))
<1> DEFINE V == Objects \cup {husk}
           left == IF At(a, i) = raw THEN raw ELSE husk
           there == At(a, i)
<1>1. /\ DOMAIN blocks = Blocks
      /\ \A c \in Blocks : IsByteArray(blocks[c], V)
      /\ owned \subseteq Objects
      /\ Conserved(blocks, owned)
  BY ConservedIsConserved DEF Held, MovesTypeOK, Blocks
<1>2. there \in V \cup {raw} /\ left \in V \cup {raw} /\ left \notin Objects
  BY <1>1, SlotAssumption DEF IsByteArray, At
<1>3. /\ blocks' = [[blocks EXCEPT ![a] = construct(blocks[a], i, left)]
                      EXCEPT ![b] = construct(@, j, there)]
      /\ dead' = IF there \notin Objects THEN dead \cup {call.name} ELSE dead
      /\ UNCHANGED <<counts, owned, used>>
  BY DEF MoveData, Blamed
<1>4. there = blocks[a].data[i] /\ blocks[b].data[j] \notin Objects
  BY DEF At
<1> HIDE DEF left, there
<1>5. /\ DOMAIN blocks' = Blocks
      /\ \A c \in Blocks : c # a /\ c # b => blocks'[c] = blocks[c]
      /\ a # b => /\ blocks'[a] = construct(blocks[a], i, left)
                  /\ blocks'[b] = construct(blocks[b], j, there)
      /\ a = b =>
           blocks'[a] = construct(construct(blocks[a], i, left), j, there)
  <2> DEFINE g == [blocks EXCEPT ![a] = construct(blocks[a], i, left)]
  <2>1. /\ DOMAIN g = Blocks
        /\ g[a] = construct(blocks[a], i, left)
        /\ \A c \in Blocks : c # a => g[c] = blocks[c]
    BY <1>1
  <2>2. blocks' = [g EXCEPT ![b] = construct(g[b], j, there)]
    BY <1>3
  <2> HIDE DEF g
  <2>3. /\ DOMAIN blocks' = Blocks
        /\ blocks'[b] = construct(g[b], j, there)
        /\ \A c \in Blocks : c # b => blocks'[c] = g[c]
    BY <2>1, <2>2
  <2> QED BY <2>1, <2>3
<1>6. ASSUME NEW c \in Blocks
      PROVE  /\ IsByteArray(blocks'[c], V)
             /\ DOMAIN blocks'[c].data = DOMAIN blocks[c].data
  <2>1. /\ IsByteArray(construct(blocks[c], i, left), V)
        /\ IsByteArray(construct(blocks[c], j, there), V)
        /\ IsByteArray(construct(construct(blocks[c], i, left), j, there), V)
    BY <1>1, <1>2, ConstructArray
  <2>2. /\ DOMAIN construct(blocks[c], i, left).data = DOMAIN blocks[c].data
        /\ DOMAIN construct(blocks[c], j, there).data = DOMAIN blocks[c].data
        /\ DOMAIN construct(construct(blocks[c], i, left), j, there).data
             = DOMAIN blocks[c].data
    BY DEF construct
  <2> QED BY <1>1, <1>5, <2>1, <2>2
<1>7. /\ blocks'[b].data[j] = there
      /\ blocks'[a].data[i] = left
      /\ \A c \in Blocks : \A k \in DOMAIN blocks[c].data :
           \/ c = a /\ k = i
           \/ c = b /\ k = j
           \/ blocks'[c].data[k] = blocks[c].data[k]
  <2>1. /\ construct(blocks[b], j, there).data = [blocks[b].data EXCEPT ![j] = there]
        /\ construct(blocks[a], i, left).data = [blocks[a].data EXCEPT ![i] = left]
        /\ construct(construct(blocks[a], i, left), j, there).data
             = [[blocks[a].data EXCEPT ![i] = left] EXCEPT ![j] = there]
    BY DEF construct
  <2>2. CASE a # b
    <3>1. /\ blocks'[b].data = [blocks[b].data EXCEPT ![j] = there]
          /\ blocks'[a].data = [blocks[a].data EXCEPT ![i] = left]
      BY <1>5, <2>1, <2>2
    <3> QED BY <1>5, <2>2, <3>1
  <2>3. CASE a = b
    <3>1. /\ blocks'[a].data
               = [[blocks[a].data EXCEPT ![i] = left] EXCEPT ![j] = there]
          /\ i # j
      BY <1>5, <2>1, <2>3
    <3> QED BY <1>5, <2>3, <3>1
  <2> QED BY <2>2, <2>3
<1>8. Conserved(blocks', owned)
  BY <1>1, <1>2, <1>4, <1>6, <1>7, MoveConserves
<1>9. dead' \subseteq dead \cup {"remove"}
  BY <1>3, <1>4 DEF Removes, At
<1>10. Held'
  BY <1>3, <1>5, <1>6, <1>8, <1>9, HeldAfter
<1> QED BY <1>5, <1>10 DEF left, there

(* destroy_data; only remove may destroy what is no object.                *)
LEMMA DestroyKeeps ==
  ASSUME Held, NEW a \in Blocks, NEW i \in DOMAIN blocks[a].data,
         At(a, i) # raw \/ Removes,
         DestroyData(a, i),
         owned' = owned \ {At(a, i)} \/ (owned' = owned /\ At(a, i) \notin Objects)
  PROVE  /\ Held'
         /\ \A c \in Blocks : c # a => blocks'[c] = blocks[c]
         /\ blocks'[a] = destroy_data(blocks[a], i)
<1> DEFINE V == Objects \cup {husk}
<1>1. /\ DOMAIN blocks = Blocks
      /\ \A c \in Blocks : IsByteArray(blocks[c], V)
      /\ owned \subseteq Objects
      /\ Conserved(blocks, owned)
  BY ConservedIsConserved DEF Held, MovesTypeOK, Blocks
<1>2. /\ blocks' = [blocks EXCEPT ![a] = destroy_data(@, i)]
      /\ dead' = IF At(a, i) = raw THEN dead \cup {call.name} ELSE dead
      /\ UNCHANGED <<counts, used>>
  BY DEF DestroyData, Blamed
<1>3. owned' = owned \ {blocks[a].data[i]}
  BY <1>1 DEF At
<1>4. /\ DOMAIN blocks' = Blocks
      /\ \A c \in Blocks : c # a => blocks'[c] = blocks[c]
      /\ blocks'[a] = destroy_data(blocks[a], i)
  BY <1>1, <1>2
<1>5. /\ IsByteArray(destroy_data(blocks[a], i), V)
      /\ destroy_data(blocks[a], i).data = [blocks[a].data EXCEPT ![i] = raw]
  BY <1>1, DestroyArray DEF destroy_data, construct
<1>6. \A c \in Blocks : /\ IsByteArray(blocks'[c], V)
                        /\ DOMAIN blocks'[c].data = DOMAIN blocks[c].data
  BY <1>1, <1>4, <1>5
<1>7. /\ blocks'[a].data[i] \notin Objects
      /\ \A c \in Blocks : \A k \in DOMAIN blocks[c].data :
           (c = a /\ k = i) \/ blocks'[c].data[k] = blocks[c].data[k]
  BY <1>4, <1>5, SlotAssumption
<1>8. Conserved(blocks', owned')
  BY <1>1, <1>3, <1>6, <1>7, DropConserves
<1>9. dead' \subseteq dead \cup {"remove"}
  BY <1>2 DEF Removes
<1>10. Held'
  BY <1>2, <1>3, <1>4, <1>6, <1>8, <1>9, HeldAfter
<1> QED BY <1>4, <1>10

(***************************************************************************)
(* The array a call visits, before and after it has been resized.          *)
(***************************************************************************)
(* Its entities are objects, but for the one that remove has destroyed;    *)
(* resize is asked for room for all.                                       *)
LEMMA OldFacts ==
  ASSUME AllExact(saved), CallOK, counts \in [Archetypes -> Nat],
         NEW a \in Arrays, Visited(a)
  PROVE  /\ Entities(a) \in Nat /\ saved[a].size \in Nat
         /\ Entities(a) <= saved[a].size
         /\ IsByteArray(saved[a], Objects)
         /\ \A i \in 0 .. saved[a].size - 1 :
              IF i < Entities(a) THEN saved[a].data[i] \in Objects
                                 ELSE saved[a].data[i] = raw
         /\ IsByteArray(Old(a), Objects) /\ Old(a).size = saved[a].size
         /\ DOMAIN Old(a).data = 0 .. saved[a].size - 1
         /\ \A i \in 0 .. saved[a].size - 1 :
              IF i < Entities(a) /\ ~ (Removes /\ i = call.index)
              THEN Old(a).data[i] \in Objects ELSE Old(a).data[i] = raw
         /\ Big(a) \in Nat /\ Entities(a) <= Big(a)
<1>1. /\ Entities(a) \in Nat /\ Entities(a) <= saved[a].size
      /\ IsByteArray(saved[a], Objects) /\ Exact(saved[a], Entities(a))
      /\ Removes => call.index \in Nat /\ call.index < Entities(a)
  BY PartnerFacts DEF AllExact
<1>2. saved[a].size \in Nat
      /\ saved[a].data \in [0 .. saved[a].size - 1 -> Objects \cup {raw}]
  BY <1>1 DEF IsByteArray
<1>3. \A i \in 0 .. saved[a].size - 1 :
        IF i < Entities(a) THEN saved[a].data[i] \in Objects
                           ELSE saved[a].data[i] = raw
  BY <1>1, <1>2 DEF Exact
<1>4. /\ IsByteArray(Old(a), Objects) /\ Old(a).size = saved[a].size
      /\ \A i \in 0 .. saved[a].size - 1 :
           Old(a).data[i] = IF Removes /\ i = call.index THEN raw
                                                       ELSE saved[a].data[i]
  <2>1. CASE Removes
    <3>1. Old(a) = destroy_data(saved[a], call.index)
      BY <2>1 DEF Old
    <3>2. destroy_data(saved[a], call.index).data =
            [saved[a].data EXCEPT ![call.index] = raw]
      BY DEF destroy_data, construct
    <3> QED BY <1>1, <1>2, <2>1, <3>1, <3>2, DestroyArray
  <2>2. CASE ~ Removes
    BY <1>1, <2>2 DEF Old
  <2> QED BY <2>1, <2>2
<1>5. DOMAIN Old(a).data = 0 .. saved[a].size - 1
  BY <1>4 DEF IsByteArray
<1>6. \A i \in 0 .. saved[a].size - 1 :
        IF i < Entities(a) /\ ~ (Removes /\ i = call.index)
        THEN Old(a).data[i] \in Objects ELSE Old(a).data[i] = raw
  BY <1>3, <1>4
<1>7. Big(a) \in Nat /\ Entities(a) <= Big(a)
  BY <1>1, <1>2 DEF Big
<1> QED BY <1>1, <1>2, <1>3, <1>4, <1>5, <1>6, <1>7

(* Resized or not, it has its entities where they were, and raw memory     *)
(* behind them, enough for the one that add brings.                        *)
LEMMA RoomyFacts ==
  ASSUME AllExact(saved), CallOK, counts \in [Archetypes -> Nat],
         NEW a \in Arrays, Visited(a)
  PROVE  /\ Roomy(a) = IF Resizes(a) THEN resize(Old(a), Entities(a), Big(a))
                                     ELSE Old(a)
         /\ IsByteArray(Roomy(a), Objects)
         /\ Roomy(a).size \in Nat
         /\ DOMAIN Roomy(a).data = 0 .. Roomy(a).size - 1
         /\ Entities(a) <= Roomy(a).size
         /\ Adds => Entities(a) < Roomy(a).size
         /\ \A i \in 0 .. Roomy(a).size - 1 :
              IF i < Entities(a) /\ ~ (Removes /\ i = call.index)
              THEN Roomy(a).data[i] \in Objects ELSE Roomy(a).data[i] = raw
<1> DEFINE n == Entities(a)
<1>1. /\ n \in Nat /\ saved[a].size \in Nat /\ n <= saved[a].size
      /\ IsByteArray(Old(a), Objects) /\ Old(a).size = saved[a].size
      /\ \A i \in 0 .. saved[a].size - 1 :
           IF i < n /\ ~ (Removes /\ i = call.index)
           THEN Old(a).data[i] \in Objects ELSE Old(a).data[i] = raw
      /\ Big(a) \in Nat /\ n <= Big(a)
  BY OldFacts
<1>2. Adds => Old(a) = saved[a]
  BY DEF Old, Adds, Removes
<1>3. Roomy(a) = IF Resizes(a) THEN resize(Old(a), n, Big(a)) ELSE Old(a)
  BY <1>2 DEF Roomy, Resizes, Big, auto_allocate, double_allocation,
              auto_shrink, shrink_to_fit
<1>4. CASE Resizes(a)
  <2>1. /\ IsByteArray(Roomy(a), Objects) /\ Roomy(a).size = Big(a)
        /\ \A i \in 0 .. Big(a) - 1 :
             Roomy(a).data[i] = IF i < n THEN Old(a).data[i] ELSE raw
    <3>1. Roomy(a) = resize(Old(a), n, Big(a))
      BY <1>3, <1>4
    <3>2. /\ IsByteArray(resize(Old(a), n, Big(a)), Objects)
          /\ resize(Old(a), n, Big(a)).size = Big(a)
      BY <1>1, ResizeArray
    <3>3. \A i \in 0 .. Big(a) - 1 :
            resize(Old(a), n, Big(a)).data[i] =
              IF i < n THEN Old(a).data[i] ELSE raw
      BY DEF resize
    <3> QED BY <3>1, <3>2, <3>3
  <2>2. Adds => n < Big(a)
    BY <1>1 DEF Big
  <2> HIDE DEF n
  <2>3. ASSUME NEW i \in 0 .. Big(a) - 1
        PROVE  IF i < n /\ ~ (Removes /\ i = call.index)
               THEN Roomy(a).data[i] \in Objects ELSE Roomy(a).data[i] = raw
    <3>1. i < n => i \in 0 .. saved[a].size - 1
      BY <1>1
    <3> QED BY <1>1, <2>1, <3>1
  <2>4. DOMAIN Roomy(a).data = 0 .. Roomy(a).size - 1
    BY <2>1 DEF IsByteArray
  <2> QED BY <1>1, <1>3, <2>1, <2>2, <2>3, <2>4 DEF n
<1>5. CASE ~ Resizes(a)
  <2>1. Roomy(a) = Old(a)
    BY <1>3, <1>5
  <2>2. Adds => n < saved[a].size
    BY <1>1, <1>5 DEF Resizes, needs_space
  <2>3. DOMAIN Roomy(a).data = 0 .. Roomy(a).size - 1
    BY <1>1, <2>1 DEF IsByteArray
  <2> QED BY <1>1, <1>3, <2>1, <2>2, <2>3
<1> QED BY <1>4, <1>5

(* The array with the hole that the last of its m objects is to fill.      *)
LEMMA HollowFacts ==
  ASSUME AllExact(saved), CallOK, counts \in [Archetypes -> Nat],
         NEW a \in Arrays, Visited(a), Brought(a) \/ Removes,
         NEW m, m = Entities(Partner(a))
  PROVE  /\ m \in Nat /\ call.index \in Nat /\ call.index < m
         /\ IsByteArray(Hollow(a), Objects) /\ Hollow(a).size \in Nat
         /\ m <= Hollow(a).size
         /\ DOMAIN Hollow(a).data = 0 .. Hollow(a).size - 1
         /\ \A i \in 0 .. Hollow(a).size - 1 :
              IF i < m /\ i # call.index THEN Hollow(a).data[i] \in Objects
                                         ELSE Hollow(a).data[i] = raw
<1>1. CASE Removes
  <2>1. Partner(a) = a /\ call.index \in Nat /\ call.index < Entities(a)
    BY <1>1, PartnerFacts
  <2>2. Hollow(a) = Roomy(a)
    BY <1>1 DEF Hollow, Adds, Removes
  <2> QED BY <1>1, <2>1, <2>2, OldFacts, RoomyFacts
<1>2. CASE Brought(a)
  <2> DEFINE b == saved[Partner(a)]
  <2>1. /\ Partner(a) \in Arrays /\ m \in Nat
        /\ call.index \in Nat /\ call.index < m
    BY <1>2, PartnerFacts
  <2>2. IsByteArray(b, Objects) /\ m <= b.size /\ Exact(b, m)
    BY <2>1 DEF AllExact
  <2>3. Hollow(a) = destroy_data(b, call.index)
    BY <1>2 DEF Hollow, Brought
  <2>4. destroy_data(b, call.index).data = [b.data EXCEPT ![call.index] = raw]
    BY DEF destroy_data, construct
  <2>5. /\ IsByteArray(Hollow(a), Objects) /\ Hollow(a).size = b.size
    BY <2>2, <2>3, DestroyArray
  <2>6. /\ b.size \in Nat
        /\ b.data \in [0 .. b.size - 1 -> Objects \cup {raw}]
        /\ DOMAIN Hollow(a).data = 0 .. Hollow(a).size - 1
    BY <2>2, <2>5 DEF IsByteArray
  <2> HIDE DEF b
  <2>7. \A i \in 0 .. b.size - 1 :
          IF i < m /\ i # call.index THEN Hollow(a).data[i] \in Objects
                                     ELSE Hollow(a).data[i] = raw
    BY <2>1, <2>2, <2>3, <2>4, <2>6 DEF Exact
  <2> QED BY <2>1, <2>2, <2>5, <2>6, <2>7
<1> QED BY <1>1, <1>2

(***************************************************************************)
(* One step of a call.                                                     *)
(***************************************************************************)
(* What is true while a call is at an array.                               *)
LEMMA StepFacts ==
  ASSUME MovesInv, phase \notin {"idle", "thrown", "next"}
  PROVE  /\ Held /\ Progress /\ AllExact(saved) /\ CallOK
         /\ counts \in [Archetypes -> Nat] /\ DOMAIN blocks = Blocks
         /\ \A c \in Blocks : IsByteArray(blocks[c], Objects \cup {husk})
         /\ owned \subseteq used /\ used \subseteq Objects
         /\ Conserved(blocks, owned)
         /\ \E a \in Arrays : a = array /\ Visited(a) /\ Here(a)
BY ConservedIsConserved
   DEF MovesInv, Held, Busy, Progress, MovesTypeOK, Blocks

(* What is left to show of each of them.                                   *)
LEMMA StepKeeps ==
  ASSUME MovesInv, phase \notin {"idle", "thrown", "next"},
         AtArray, Held', phase' \notin {"idle", "thrown"},
         NEW a \in Arrays, a = array,
         phase' # "next" => Here(a)',
         phase' = "next" => Behind(a)' /\ blocks'[fresh] = NewArray
  PROVE  MovesInv'
<1>1. Progress'
  BY StepFacts, ArrayKeepsProgress
<1> QED BY <1>1 DEF MovesInv, Held, Busy

(* What the correspondence is stated with does not change during a call.   *)
LEMMA SameTerms ==
  ASSUME counts' = counts, call' = call, saved' = saved, NEW a \in Arrays
  PROVE  /\ Adds' = Adds /\ Removes' = Removes /\ Cleans' = Cleans
         /\ Entities(a)' = Entities(a) /\ Partner(a)' = Partner(a)
         /\ Entities(Partner(a))' = Entities(Partner(a))
         /\ Visited(a)' = Visited(a) /\ Brought(a)' = Brought(a)
         /\ Incoming(a)' = Incoming(a) /\ Old(a)' = Old(a)
         /\ Resizes(a)' = Resizes(a) /\ Big(a)' = Big(a)
         /\ Roomy(a)' = Roomy(a) /\ Hollow(a)' = Hollow(a)
<1>1. /\ Adds' = Adds /\ Removes' = Removes /\ Cleans' = Cleans
      /\ Entities(a)' = Entities(a) /\ Partner(a)' = Partner(a)
      /\ Entities(Partner(a))' = Entities(Partner(a))
  BY DEF Adds, Removes, Cleans, Entities, Partner
<1>2. /\ Visited(a)' = Visited(a) /\ Brought(a)' = Brought(a)
      /\ Incoming(a)' = Incoming(a) /\ Old(a)' = Old(a)
  BY <1>1 DEF Visited, Brought, Incoming, Old
<1>3. Resizes(a)' = Resizes(a) /\ Big(a)' = Big(a) /\ Roomy(a)' = Roomy(a)
  BY <1>1, <1>2 DEF Resizes, Big, Roomy
<1>4. Hollow(a)' = Hollow(a)
  BY <1>1, <1>3 DEF Hollow
<1> QED BY <1>1, <1>2, <1>3, <1>4

(* The index of the last slot that may have to fill a hole.                *)
LEMMA LastIs ==
  ASSUME NEW a \in Arrays, a = array
  PROVE  Source = Partner(a) /\ Last = Entities(Partner(a)) - 1
BY DEF Source, Partner, Last

(* With room for it, the added component is constructed, or the one that   *)
(* is brought along moves in.                                              *)
LEMMA ReachesPlacing ==
  ASSUME counts' = counts, call' = call, saved' = saved, NEW a \in Arrays,
         Adds, phase' = Placing(a), blocks'[a] = Roomy(a),
         Brought(a) => blocks'[Partner(a)] = saved[Partner(a)],
         blocks'[fresh] = NewArray
  PROVE  phase' # "next" /\ phase' \notin {"idle", "thrown"} /\ Here(a)'
<1>1. /\ Adds' = Adds /\ Partner(a)' = Partner(a) /\ Brought(a)' = Brought(a)
      /\ Roomy(a)' = Roomy(a)
  BY SameTerms
<1>2. phase' = IF Brought(a) THEN "move" ELSE "construct"
  BY DEF Placing, Brought
<1>3. CASE Brought(a)
  BY <1>1, <1>2, <1>3 DEF Here, Moving
<1>4. CASE ~ Brought(a)
  BY <1>1, <1>2, <1>4 DEF Here, Moving
<1> QED BY <1>2, <1>3, <1>4

(* With a hole in an array, its last object moves there; with the hole in  *)
(* the last slot the call is done with the array.                          *)
LEMMA ReachesFilling ==
  ASSUME AllExact(saved), CallOK, counts \in [Archetypes -> Nat],
         counts' = counts, call' = call, saved' = saved,
         NEW a \in Arrays, Visited(a), a = array, array' = array,
         phase' = Filling,
         Removes \/ (Brought(a) /\ blocks'[a] =
                       construct(Roomy(a), Entities(a), Incoming(a))),
         blocks'[Partner(a)] = Hollow(a),
         blocks'[fresh] = NewArray
  PROVE  /\ phase' \notin {"idle", "thrown"}
         /\ phase' # "next" => Here(a)'
         /\ phase' = "next" => Behind(a)'
<1> DEFINE m == Entities(Partner(a))
<1>1. /\ Adds' = Adds /\ Removes' = Removes /\ Cleans' = Cleans
      /\ Partner(a)' = Partner(a) /\ Brought(a)' = Brought(a)
      /\ Entities(a)' = Entities(a) /\ m' = m /\ Incoming(a)' = Incoming(a)
      /\ Roomy(a)' = Roomy(a) /\ Hollow(a)' = Hollow(a)
  BY SameTerms
<1>2. Last = m - 1 /\ Last' = Last
  BY LastIs DEF Last, Source, Entities
<1>3. phase' = IF Last # call.index THEN "fill" ELSE "next"
  BY DEF Filling
<1>4. CASE Last # call.index
  <2>1. phase' = "fill"
    BY <1>3, <1>4
  <2>2. Moving(a)'
    BY <1>1, <1>2, <1>4, <2>1 DEF Moving, Placed
  <2> QED BY <2>1, <2>2 DEF Here
<1>5. CASE Last = call.index
  <2>1. CASE Removes
    <3>1. /\ Partner(a) = a /\ ~ Adds /\ ~ Cleans /\ ~ Brought(a)
      BY <2>1, PartnerFacts DEF Adds, Removes, Cleans, Brought
    <3>2. Hollow(a) = auto_shrink(destroy_data(saved[a], call.index), Entities(a))
      BY <2>1, <3>1 DEF Hollow, Roomy, Old
    <3>3. Hollow(a) = erase_component(saved[a], call.index, Entities(a))
      BY <1>2, <1>5, <3>1, <3>2 DEF erase_component, move_last_component
    <3> QED BY <1>1, <1>3, <1>5, <2>1, <3>1, <3>3 DEF Behind
  <2>2. CASE ~ Removes
    <3>1. Brought(a) /\ Adds /\ ~ Cleans /\ a[2] # call.id
      BY <2>2 DEF Brought, Adds, Cleans
    <3>2. Hollow(a) = move_out(saved[Partner(a)], call.index, m)
      BY <1>2, <1>5, <3>1 DEF Hollow, move_out, move_last_component
    <3>3. blocks'[a] = emplace_component(saved[a], Entities(a), Incoming(a))
      BY <2>2, <3>1 DEF Roomy, emplace_component
    <3> QED BY <1>1, <1>3, <1>5, <2>2, <3>1, <3>2, <3>3 DEF Behind
  <2> QED BY <2>1, <2>2
<1> QED BY <1>4, <1>5

(* erase_component destroys the component.                                 *)
LEMMA EraseComponentKeeps ==
  ASSUME MovesInv, EraseComponent
  PROVE  MovesInv'
<1> DEFINE x == call.index
<1>1. /\ phase = "erase" /\ phase' = AutoShrink(array)
      /\ DestroyData(array, x)
      /\ owned' = owned \ {At(array, x)}
  BY DEF EraseComponent
<1>2. UNCHANGED <<counts, control>>
  BY <1>1 DEF DestroyData
<1>3. /\ Held /\ AllExact(saved) /\ CallOK
      /\ counts \in [Archetypes -> Nat]
  BY <1>1, StepFacts
<1>4. PICK a \in Arrays : a = array /\ Visited(a) /\ Here(a)
  BY <1>1, StepFacts
<1>5. /\ Removes /\ blocks[a] = saved[a] /\ blocks[fresh] = NewArray
  BY <1>1, <1>4 DEF Here, Ahead
<1>6. /\ Partner(a) = a /\ x \in Nat /\ x < Entities(a)
      /\ a \in Blocks /\ a # fresh /\ ~ Adds /\ ~ Cleans /\ ~ Brought(a)
  BY <1>3, <1>4, <1>5, PartnerFacts, ArrayFacts
     DEF Adds, Removes, Cleans, Brought
<1>7. /\ Entities(a) \in Nat /\ saved[a].size \in Nat
      /\ Entities(a) <= saved[a].size
      /\ IsByteArray(saved[a], Objects)
  BY <1>3, <1>4, OldFacts
<1>8. x \in DOMAIN blocks[a].data
  BY <1>5, <1>6, <1>7 DEF IsByteArray
<1>9. /\ Held'
      /\ \A c \in Blocks : c # a => blocks'[c] = blocks[c]
      /\ blocks'[a] = destroy_data(blocks[a], x)
  <2>1. DestroyData(a, x) /\ owned' = owned \ {At(a, x)}
    BY <1>1, <1>4
  <2> HIDE DEF x
  <2> QED BY <1>3, <1>5, <1>6, <1>8, <2>1, DestroyKeeps
<1>10. blocks'[a] = Old(a) /\ blocks'[fresh] = NewArray
  BY <1>4, <1>5, <1>9, ArrayFacts DEF Old, Blocks
<1>11. AtArray
  BY <1>2, <1>4, <1>9 DEF AtArray
<1>12. /\ counts' = counts /\ call' = call /\ saved' = saved /\ array' = array
  BY <1>2 DEF control
<1>13. needs_shrinking(blocks[a], Entities(a)) <=> Resizes(a)
  BY <1>3, <1>4, <1>5, <1>6, OldFacts DEF needs_shrinking, Resizes
<1>14. CASE Resizes(a)
  <2>1. phase' = "allocate"
    BY <1>1, <1>4, <1>13, <1>14 DEF AutoShrink
  <2>2. /\ Cleans' = Cleans /\ Resizes(a)' = Resizes(a)
        /\ Brought(a)' = Brought(a) /\ Old(a)' = Old(a)
    BY <1>12, SameTerms
  <2>3. Here(a)'
    BY <1>6, <1>10, <1>14, <2>1, <2>2 DEF Here, Resizing
  <2> QED BY <1>1, <1>4, <1>9, <1>11, <2>1, <2>3, StepKeeps
<1>15. CASE ~ Resizes(a)
  <2>1. phase' = Filling
    BY <1>1, <1>4, <1>13, <1>15 DEF AutoShrink
  <2>2. blocks'[Partner(a)] = Hollow(a)
    BY <1>3, <1>4, <1>6, <1>10, <1>15, RoomyFacts DEF Hollow
  <2>3. /\ phase' \notin {"idle", "thrown"}
        /\ phase' # "next" => Here(a)'
        /\ phase' = "next" => Behind(a)'
    BY <1>3, <1>4, <1>5, <1>10, <1>12, <2>1, <2>2, ReachesFilling
  <2> QED BY <1>1, <1>4, <1>9, <1>10, <1>11, <2>3, StepKeeps
<1> QED BY <1>14, <1>15

(* Where the loop of resize goes on, or ends.                              *)
LEMMA ReachesRefilling ==
  ASSUME counts' = counts, call' = call, saved' = saved, NEW a \in Arrays,
         Entities(a) \in Nat, NEW j \in Nat, j <= Entities(a), e' = j,
         phase' = IF j < Entities(a) THEN "refill" ELSE "install",
         Resizes(a), ~ Cleans,
         Brought(a) => blocks'[Partner(a)] = saved[Partner(a)],
         blocks'[a] = Emptied(Old(a), j),
         blocks'[fresh] = resize(Old(a), j, Big(a))
  PROVE  /\ phase' \notin {"idle", "thrown", "next"}
         /\ Here(a)'
<1>1. /\ Cleans' = Cleans /\ Resizes(a)' = Resizes(a) /\ Big(a)' = Big(a)
      /\ Brought(a)' = Brought(a) /\ Old(a)' = Old(a)
      /\ Partner(a)' = Partner(a) /\ Entities(a)' = Entities(a)
  BY SameTerms
<1>2. CASE j < Entities(a)
  <2>1. phase' = "refill"
    BY <1>2
  <2>2. Resizing(a)'
    BY <1>1, <1>2, <2>1 DEF Resizing
  <2> QED BY <2>1, <2>2 DEF Here
<1>3. CASE ~ (j < Entities(a))
  <2>1. phase' = "install" /\ j = Entities(a)
    BY <1>3
  <2>2. Resizing(a)'
    BY <1>1, <2>1 DEF Resizing
  <2> QED BY <2>1, <2>2 DEF Here
<1> QED BY <1>2, <1>3

(* Before its loop, resize allocates the new block.                        *)
LEMMA AllocateBlockKeeps ==
  ASSUME MovesInv, AllocateBlock
  PROVE  MovesInv'
<1>1. /\ phase = "allocate" /\ phase' = Refilling(0) /\ e' = 0
      /\ blocks' = [blocks EXCEPT ![fresh] =
           [size |-> NewSize(array),
            data |-> [i \in 0 .. NewSize(array) - 1 |-> raw]]]
      /\ UNCHANGED <<counts, owned, used, dead, control>>
  BY DEF AllocateBlock
<1>2. /\ Held /\ AllExact(saved) /\ CallOK
      /\ counts \in [Archetypes -> Nat] /\ DOMAIN blocks = Blocks
      /\ \A c \in Blocks : IsByteArray(blocks[c], Objects \cup {husk})
      /\ owned \subseteq Objects
      /\ Conserved(blocks, owned)
  BY <1>1, StepFacts
<1>3. PICK a \in Arrays : a = array /\ Visited(a) /\ Here(a)
  BY <1>1, StepFacts
<1>4. /\ ~ Cleans /\ Resizes(a)
      /\ Brought(a) => blocks[Partner(a)] = saved[Partner(a)]
      /\ blocks[a] = Old(a) /\ blocks[fresh] = NewArray
  BY <1>1, <1>3 DEF Here, Resizing
<1>5. /\ Entities(a) \in Nat /\ Big(a) \in Nat
      /\ IsByteArray(Old(a), Objects) /\ Old(a).size = saved[a].size
  BY <1>2, <1>3, OldFacts
<1>6. NewSize(array) = Big(a)
  BY <1>3, <1>4, <1>5 DEF NewSize, Big, Adds
<1>7. [size |-> Big(a), data |-> [i \in 0 .. Big(a) - 1 |-> raw]]
        = resize(Old(a), 0, Big(a))
  <2> DEFINE d == [i \in 0 .. Big(a) - 1 |-> IF i < 0 THEN Old(a).data[i] ELSE raw]
  <2>1. d = [i \in 0 .. Big(a) - 1 |-> raw]
    BY <1>5
  <2> QED BY <2>1 DEF resize
<1>8. /\ blocks'[fresh] = resize(Old(a), 0, Big(a))
      /\ \A c \in Blocks : c # fresh => blocks'[c] = blocks[c]
      /\ DOMAIN blocks' = Blocks
  BY <1>1, <1>2, <1>6, <1>7 DEF Blocks
<1>9. /\ IsByteArray(blocks'[fresh], Objects)
      /\ IsByteArray(blocks'[fresh], Objects \cup {husk})
  BY <1>5, <1>8, NoneResized, MoreKinds
<1>10. \A k \in DOMAIN blocks'[fresh].data : blocks'[fresh].data[k] \notin Objects
  <2>1. \A k \in DOMAIN resize(Old(a), 0, Big(a)).data :
          resize(Old(a), 0, Big(a)).data[k] = raw
    BY <1>5 DEF resize
  <2> QED BY <1>8, <2>1, SlotAssumption
<1>11. Conserved(blocks', owned)
  <2>1. \A k \in DOMAIN blocks[fresh].data : blocks[fresh].data[k] \notin Objects
    BY <1>4, NewArrayArray
  <2> QED BY <1>2, <1>8, <1>10, <2>1, RenewingConserves
<1>12. Held'
  BY <1>1, <1>2, <1>8, <1>9, <1>11, HeldAfter
<1>13. AtArray
  BY <1>1, <1>8 DEF AtArray
<1>14. /\ counts' = counts /\ call' = call /\ saved' = saved
  BY <1>1 DEF control
<1>15. blocks'[a] = Emptied(Old(a), 0)
  BY <1>3, <1>4, <1>5, <1>8, ArrayFacts, EmptiedOfNone
<1>16. Brought(a) => blocks'[Partner(a)] = saved[Partner(a)]
  BY <1>2, <1>3, <1>4, <1>8, ArrayFacts, PartnerFacts
<1>17. phase' = IF 0 < Entities(a) THEN "refill" ELSE "install"
  BY <1>1, <1>3 DEF Refilling
<1>18. phase' \notin {"idle", "thrown", "next"} /\ Here(a)'
  <2>1. 0 \in Nat /\ 0 <= Entities(a)
    BY <1>5
  <2> QED BY <2>1, <1>1, <1>4, <1>5, <1>8, <1>14, <1>15, <1>16, <1>17, ReachesRefilling
<1> QED BY <1>1, <1>3, <1>12, <1>13, <1>18, StepKeeps

(* The loop of resize moves an object.                                     *)
LEMMA RefillBlockKeeps ==
  ASSUME MovesInv, RefillBlock
  PROVE  MovesInv'
<1>1. /\ phase = "refill" /\ phase' = "leave" /\ e' = e
      /\ MoveData(array, e, fresh, e)
  BY DEF RefillBlock
<1>2. UNCHANGED <<counts, control>>
  BY <1>1 DEF MoveData
<1>3. /\ Held /\ AllExact(saved) /\ CallOK
      /\ counts \in [Archetypes -> Nat]
  BY <1>1, StepFacts
<1>4. PICK a \in Arrays : a = array /\ Visited(a) /\ Here(a)
  BY <1>1, StepFacts
<1>5. /\ ~ Cleans /\ Resizes(a)
      /\ Brought(a) => blocks[Partner(a)] = saved[Partner(a)]
      /\ e \in Nat /\ e < Entities(a)
      /\ blocks[a] = Emptied(Old(a), e)
      /\ blocks[fresh] = resize(Old(a), e, Big(a))
  BY <1>1, <1>4 DEF Here, Resizing
<1>6. PICK j \in Nat : j = e
  BY <1>5
<1> DEFINE o == Old(a).data[j]
<1>7. /\ Entities(a) \in Nat /\ Big(a) \in Nat /\ Entities(a) <= Big(a)
      /\ IsByteArray(Old(a), Objects) /\ Old(a).size \in Nat
      /\ Entities(a) <= Old(a).size
      /\ o \in Objects \/ Removes
  <2>1. \A i \in 0 .. saved[a].size - 1 :
          IF i < Entities(a) /\ ~ (Removes /\ i = call.index)
          THEN Old(a).data[i] \in Objects ELSE Old(a).data[i] = raw
    BY <1>3, <1>4, OldFacts
  <2>2. /\ Entities(a) \in Nat /\ Big(a) \in Nat /\ Entities(a) <= Big(a)
        /\ IsByteArray(Old(a), Objects) /\ Old(a).size = saved[a].size
        /\ saved[a].size \in Nat /\ Entities(a) <= saved[a].size
    BY <1>3, <1>4, OldFacts
  <2>3. j \in 0 .. saved[a].size - 1 /\ j < Entities(a)
    BY <1>5, <1>6, <2>2
  <2> QED BY <2>1, <2>2, <2>3
<1>8. /\ j \in DOMAIN blocks[a].data /\ At(a, j) = o
  <2>1. DOMAIN Emptied(Old(a), j).data = 0 .. Old(a).size - 1
    BY DEF Emptied
  <2>2. j \in 0 .. Old(a).size - 1 /\ ~ (j < j)
    BY <1>5, <1>6, <1>7
  <2>3. Emptied(Old(a), j).data[j] = o
    BY <2>2 DEF Emptied
  <2> QED BY <1>5, <1>6, <2>1, <2>2, <2>3 DEF At
<1>9. /\ j \in DOMAIN blocks[fresh].data /\ At(fresh, j) \notin Objects
  <2>1. j \in 0 .. Big(a) - 1 /\ ~ (j < j)
    BY <1>5, <1>6, <1>7
  <2>2. /\ DOMAIN resize(Old(a), j, Big(a)).data = 0 .. Big(a) - 1
        /\ resize(Old(a), j, Big(a)).data[j] = raw
    BY <2>1 DEF resize
  <2> QED BY <1>5, <1>6, <2>1, <2>2, SlotAssumption DEF At
<1>10. a \in Blocks /\ fresh \in Blocks /\ a # fresh
  BY ArrayFacts DEF Blocks
<1> HIDE DEF o
<1>11. /\ Held'
       /\ \A c \in Blocks : c # a /\ c # fresh => blocks'[c] = blocks[c]
       /\ blocks'[a] = construct(blocks[a], j, IF o = raw THEN raw ELSE husk)
       /\ blocks'[fresh] = construct(blocks[fresh], j, o)
  <2>1. MoveData(a, j, fresh, j)
    BY <1>1, <1>4, <1>6
  <2>2. At(a, j) \in Objects \/ Removes
    BY <1>7, <1>8
  <2> QED BY <1>3, <1>8, <1>9, <1>10, <2>1, <2>2, MoveKeeps
<1>12. blocks'[fresh] = resize(Old(a), j + 1, Big(a))
  <2>1. j < Old(a).size /\ j < Big(a)
    BY <1>5, <1>6, <1>7
  <2> QED BY <1>5, <1>6, <1>7, <1>11, <2>1, OneMoreCopied DEF o
<1>13. AtArray
  BY <1>2, <1>4, <1>11 DEF AtArray
<1>14. /\ Cleans' = Cleans /\ Resizes(a)' = Resizes(a) /\ Big(a)' = Big(a)
       /\ Brought(a)' = Brought(a) /\ Old(a)' = Old(a)
       /\ Partner(a)' = Partner(a) /\ Entities(a)' = Entities(a)
       /\ saved' = saved
  BY <1>2, SameTerms DEF control
<1>15. Brought(a) => blocks'[Partner(a)] = blocks[Partner(a)]
  BY <1>3, <1>4, <1>11, ArrayFacts, PartnerFacts
<1>16. Resizing(a)'
  BY <1>1, <1>5, <1>6, <1>11, <1>12, <1>14, <1>15 DEF Resizing, o
<1>17. Here(a)'
  BY <1>1, <1>16 DEF Here
<1> QED BY <1>1, <1>4, <1>11, <1>13, <1>17, StepKeeps

(* And destroys what it has moved from.                                    *)
LEMMA LeaveBlockKeeps ==
  ASSUME MovesInv, LeaveBlock
  PROVE  MovesInv'
<1>1. /\ phase = "leave" /\ phase' = Refilling(e + 1) /\ e' = e + 1
      /\ DestroyData(array, e) /\ owned' = owned
  BY DEF LeaveBlock
<1>2. UNCHANGED <<counts, control>>
  BY <1>1 DEF DestroyData
<1>3. /\ Held /\ AllExact(saved) /\ CallOK
      /\ counts \in [Archetypes -> Nat]
  BY <1>1, StepFacts
<1>4. PICK a \in Arrays : a = array /\ Visited(a) /\ Here(a)
  BY <1>1, StepFacts
<1> DEFINE h == IF Old(a).data[e] = raw THEN raw ELSE husk
<1>5. /\ ~ Cleans /\ Resizes(a)
      /\ Brought(a) => blocks[Partner(a)] = saved[Partner(a)]
      /\ e \in Nat /\ e < Entities(a)
      /\ blocks[a] = construct(Emptied(Old(a), e), e, h)
      /\ blocks[fresh] = resize(Old(a), e + 1, Big(a))
  BY <1>1, <1>4 DEF Here, Resizing
<1>6. PICK j \in Nat : j = e
  BY <1>5
<1>7. /\ Entities(a) \in Nat /\ j < Old(a).size /\ j < Entities(a)
      /\ IsByteArray(Old(a), Objects) /\ Old(a).size \in Nat
      /\ h # raw \/ Removes
  <2>1. \A i \in 0 .. saved[a].size - 1 :
          IF i < Entities(a) /\ ~ (Removes /\ i = call.index)
          THEN Old(a).data[i] \in Objects ELSE Old(a).data[i] = raw
    BY <1>3, <1>4, OldFacts
  <2>2. /\ Entities(a) \in Nat
        /\ IsByteArray(Old(a), Objects) /\ Old(a).size = saved[a].size
        /\ saved[a].size \in Nat /\ Entities(a) <= saved[a].size
    BY <1>3, <1>4, OldFacts
  <2>3. j \in 0 .. saved[a].size - 1 /\ j < Entities(a)
    BY <1>5, <1>6, <2>2
  <2>4. Old(a).data[j] \in Objects \/ Removes
    BY <2>1, <2>3
  <2> QED BY <1>6, <2>2, <2>3, <2>4, SlotAssumption
<1>8. h \notin Objects
  BY SlotAssumption
<1> HIDE DEF h
<1>9. j \in DOMAIN blocks[a].data /\ At(a, j) = h
  <2>1. /\ DOMAIN Emptied(Old(a), j).data = 0 .. Old(a).size - 1
        /\ construct(Emptied(Old(a), j), j, h).data =
             [Emptied(Old(a), j).data EXCEPT ![j] = h]
    BY DEF Emptied, construct
  <2>2. j \in 0 .. Old(a).size - 1
    BY <1>7
  <2>3. /\ DOMAIN construct(Emptied(Old(a), j), j, h).data = 0 .. Old(a).size - 1
        /\ construct(Emptied(Old(a), j), j, h).data[j] = h
    BY <2>1, <2>2
  <2> QED BY <1>5, <1>6, <2>2, <2>3 DEF At
<1>10. a \in Blocks /\ a # fresh /\ fresh \in Blocks
  BY ArrayFacts DEF Blocks
<1>11. /\ Held'
       /\ \A c \in Blocks : c # a => blocks'[c] = blocks[c]
       /\ blocks'[a] = destroy_data(blocks[a], j)
  <2>1. DestroyData(a, j)
    BY <1>1, <1>4, <1>6
  <2>2. /\ At(a, j) # raw \/ Removes
        /\ owned' = owned /\ At(a, j) \notin Objects
    BY <1>1, <1>7, <1>8, <1>9
  <2> QED BY <1>3, <1>9, <1>10, <2>1, <2>2, DestroyKeeps
<1>12. blocks'[a] = Emptied(Old(a), j + 1)
  BY <1>5, <1>6, <1>7, <1>11, OneMoreEmptied
<1>13. AtArray
  BY <1>2, <1>4, <1>11 DEF AtArray
<1>14. counts' = counts /\ call' = call /\ saved' = saved
  BY <1>2 DEF control
<1>15. Brought(a) => blocks'[Partner(a)] = saved[Partner(a)]
  BY <1>3, <1>4, <1>5, <1>11, ArrayFacts, PartnerFacts
<1>16. phase' \notin {"idle", "thrown", "next"} /\ Here(a)'
  <2>1. j + 1 \in Nat /\ j + 1 <= Entities(a)
    BY <1>7
  <2>2. phase' = IF j + 1 < Entities(a) THEN "refill" ELSE "install"
    BY <1>1, <1>4, <1>6 DEF Refilling
  <2>3. e' = j + 1 /\ blocks'[fresh] = resize(Old(a), j + 1, Big(a))
    BY <1>1, <1>5, <1>6, <1>10, <1>11
  <2> QED BY <1>5, <1>7, <1>12, <1>14, <1>15, <2>1, <2>2, <2>3,
             ReachesRefilling
<1> QED BY <1>1, <1>4, <1>11, <1>13, <1>16, StepKeeps

(* resize lets go of the old block.                                        *)
LEMMA InstallBlockKeeps ==
  ASSUME MovesInv, InstallBlock
  PROVE  MovesInv'
<1>1. /\ phase = "install"
      /\ phase' = IF call.name = "add" THEN Placing(array) ELSE Filling
      /\ blocks' = [blocks EXCEPT ![array] = blocks[fresh], ![fresh] = NewArray]
      /\ UNCHANGED <<counts, owned, used, dead, control, e>>
  BY DEF InstallBlock
<1>2. /\ Held /\ AllExact(saved) /\ CallOK
      /\ counts \in [Archetypes -> Nat] /\ DOMAIN blocks = Blocks
      /\ \A c \in Blocks : IsByteArray(blocks[c], Objects \cup {husk})
      /\ owned \subseteq Objects
      /\ Conserved(blocks, owned)
  BY <1>1, StepFacts
<1>3. PICK a \in Arrays : a = array /\ Visited(a) /\ Here(a)
  BY <1>1, StepFacts
<1>4. /\ ~ Cleans /\ Resizes(a)
      /\ Brought(a) => blocks[Partner(a)] = saved[Partner(a)]
      /\ blocks[a] = Emptied(Old(a), Entities(a))
      /\ blocks[fresh] = resize(Old(a), Entities(a), Big(a))
  BY <1>1, <1>3 DEF Here, Resizing
<1>5. a \in Blocks /\ a # fresh /\ fresh \in Blocks
  BY ArrayFacts DEF Blocks
<1>6. /\ DOMAIN blocks' = Blocks
      /\ blocks'[a] = blocks[fresh] /\ blocks'[fresh] = NewArray
      /\ \A c \in Blocks : c = a \/ c = fresh \/ blocks'[c] = blocks[c]
  BY <1>1, <1>2, <1>3, <1>5
<1>7. \A k \in DOMAIN blocks[a].data : blocks[a].data[k] \notin Objects
  <2>1. /\ Entities(a) \in Nat /\ Old(a).size = saved[a].size
        /\ IsByteArray(Old(a), Objects)
        /\ \A i \in 0 .. saved[a].size - 1 :
             IF i < Entities(a) /\ ~ (Removes /\ i = call.index)
             THEN Old(a).data[i] \in Objects ELSE Old(a).data[i] = raw
    BY <1>2, <1>3, OldFacts
  <2>2. \A i \in 0 .. Old(a).size - 1 :
          blocks[a].data[i] = IF i < Entities(a) THEN raw ELSE Old(a).data[i]
    BY <1>4 DEF Emptied
  <2>3. DOMAIN blocks[a].data = 0 .. Old(a).size - 1
    BY <1>4 DEF Emptied
  <2> QED BY <2>1, <2>2, <2>3, SlotAssumption
<1>8. Conserved(blocks', owned)
  <2>1. \A k \in DOMAIN blocks'[fresh].data : blocks'[fresh].data[k] \notin Objects
    BY <1>6, NewArrayArray
  <2> QED BY <1>2, <1>5, <1>6, <1>7, <2>1, ReplacingConserves
<1>9. Held'
  <2>1. \A c \in Blocks : IsByteArray(blocks'[c], Objects \cup {husk})
    BY <1>2, <1>5, <1>6, NewArrayArray
  <2> QED BY <1>1, <1>2, <1>6, <1>8, <2>1, HeldAfter
<1>10. blocks'[a] = Roomy(a)
  BY <1>2, <1>3, <1>4, <1>6, RoomyFacts
<1>11. AtArray
  BY <1>1, <1>3, <1>6 DEF AtArray
<1>12. counts' = counts /\ call' = call /\ saved' = saved /\ array' = array
  BY <1>1 DEF control
<1>13. CASE Adds
  <2>1. phase' = Placing(a)
    BY <1>1, <1>3, <1>13 DEF Adds
  <2>2. Brought(a) => blocks'[Partner(a)] = saved[Partner(a)]
    BY <1>2, <1>3, <1>4, <1>6, ArrayFacts, PartnerFacts
  <2>3. phase' # "next" /\ phase' \notin {"idle", "thrown"} /\ Here(a)'
    BY <1>6, <1>10, <1>12, <1>13, <2>1, <2>2, ReachesPlacing
  <2> QED BY <1>1, <1>3, <1>9, <1>11, <2>3, StepKeeps
<1>14. CASE Removes
  <2>1. phase' = Filling
    BY <1>1, <1>14 DEF Removes
  <2>2. blocks'[Partner(a)] = Hollow(a)
    BY <1>2, <1>3, <1>10, <1>14, PartnerFacts DEF Hollow, Adds, Removes
  <2>3. /\ phase' \notin {"idle", "thrown"}
        /\ phase' # "next" => Here(a)'
        /\ phase' = "next" => Behind(a)'
    BY <1>2, <1>3, <1>6, <1>12, <1>14, <2>1, <2>2, ReachesFilling
  <2> QED BY <1>1, <1>3, <1>6, <1>9, <1>11, <2>3, StepKeeps
<1> QED BY <1>2, <1>4, <1>13, <1>14 DEF CallOK, Adds, Removes, Cleans

(* The added component is constructed.                                     *)
LEMMA ConstructDataKeeps ==
  ASSUME MovesInv, ConstructData
  PROVE  MovesInv'
<1>1. /\ phase = "construct" /\ phase' = "next"
      /\ UNCHANGED <<counts, dead, control, e>>
  BY DEF ConstructData
<1>2. PICK v \in Objects \ used :
        /\ blocks' = [blocks EXCEPT ![array] =
                        construct(@, Entities(array), v)]
        /\ owned' = owned \cup {v}
        /\ used' = used \cup {v}
  BY DEF ConstructData
<1>3. /\ Held /\ AllExact(saved) /\ CallOK
      /\ counts \in [Archetypes -> Nat] /\ DOMAIN blocks = Blocks
      /\ \A c \in Blocks : IsByteArray(blocks[c], Objects \cup {husk})
      /\ owned \subseteq used /\ used \subseteq Objects
      /\ Conserved(blocks, owned)
  BY <1>1, StepFacts
<1>4. PICK a \in Arrays : a = array /\ Visited(a) /\ Here(a)
  BY <1>1, StepFacts
<1> DEFINE n == Entities(a)
<1>5. Adds /\ ~ Brought(a) /\ blocks[a] = Roomy(a) /\ blocks[fresh] = NewArray
  BY <1>1, <1>4 DEF Here, Moving
<1>6. a \in Blocks /\ a # fresh /\ fresh \in Blocks
  BY ArrayFacts DEF Blocks
<1>7. n \in DOMAIN blocks[a].data /\ blocks[a].data[n] = raw
  <2>1. /\ Roomy(a).size \in Nat
        /\ DOMAIN Roomy(a).data = 0 .. Roomy(a).size - 1
        /\ Adds => n < Roomy(a).size
        /\ \A i \in 0 .. Roomy(a).size - 1 :
             IF i < n /\ ~ (Removes /\ i = call.index)
             THEN Roomy(a).data[i] \in Objects ELSE Roomy(a).data[i] = raw
    BY <1>3, <1>4, RoomyFacts
  <2>2. n \in Nat
    BY <1>3, <1>4, PartnerFacts
  <2> HIDE DEF n
  <2>3. n \in 0 .. Roomy(a).size - 1 /\ ~ (n < n)
    BY <1>5, <2>1, <2>2
  <2> QED BY <1>5, <2>1, <2>3
<1> HIDE DEF n
<1>8. /\ DOMAIN blocks' = Blocks
      /\ \A c \in Blocks : c # a => blocks'[c] = blocks[c]
      /\ blocks'[a] = construct(blocks[a], n, v)
  <2>1. blocks' = [blocks EXCEPT ![a] = construct(blocks[a], n, v)]
    BY <1>2, <1>4 DEF n
  <2> QED BY <1>3, <1>6, <2>1
<1>9. /\ IsByteArray(construct(blocks[a], n, v), Objects \cup {husk})
      /\ construct(blocks[a], n, v).data = [blocks[a].data EXCEPT ![n] = v]
  BY <1>3, <1>6, ConstructArray DEF construct
<1>10. MovesTypeOK'
  <2>1. \A c \in Blocks : IsByteArray(blocks'[c], Objects \cup {husk})
    BY <1>3, <1>8, <1>9
  <2> QED BY <1>1, <1>2, <1>3, <1>8, <2>1 DEF MovesTypeOK, Blocks
<1>11. Conserved(blocks', owned')
  <2>1. /\ blocks'[a].data[n] = v /\ v \in Objects /\ v \notin owned
        /\ \A c \in Blocks : DOMAIN blocks'[c].data = DOMAIN blocks[c].data
        /\ \A c \in Blocks : \A k \in DOMAIN blocks[c].data :
             (c = a /\ k = n) \/ blocks'[c].data[k] = blocks[c].data[k]
    BY <1>2, <1>3, <1>7, <1>8, <1>9
  <2>2. owned \subseteq Objects /\ blocks[a].data[n] \notin Objects
    BY <1>3, <1>7, SlotAssumption
  <2>3. Conserved(blocks', owned \cup {v})
    BY <1>3, <1>6, <1>7, <2>1, <2>2, ConstructConserves
  <2> QED BY <1>2, <2>3
<1>12. Held'
  <2>1. ObjectsAreConserved'
    BY <1>11 DEF ObjectsAreConserved, Conserved, At, Blocks
  <2>2. OnlyRemoveTouchesDead'
    BY <1>1, <1>3 DEF Held, OnlyRemoveTouchesDead
  <2> QED BY <1>10, <2>1, <2>2 DEF Held
<1>13. AtArray
  BY <1>1, <1>4, <1>8 DEF AtArray
<1>14. Behind(a)'
  <2>1. /\ Adds' = Adds /\ Removes' = Removes /\ Cleans' = Cleans
        /\ Brought(a)' = Brought(a) /\ Entities(a)' = Entities(a)
        /\ saved' = saved
    BY <1>1, SameTerms DEF control
  <2>2. ~ Removes /\ ~ Cleans
    BY <1>5 DEF Adds, Removes, Cleans
  <2>3. blocks'[a] = emplace_component(saved[a], Entities(a), v)
    BY <1>5, <1>8 DEF Roomy, emplace_component, n
  <2>4. \E w \in Objects :
          blocks'[a] = emplace_component(saved'[a], Entities(a)', w)
    BY <2>1, <2>3
  <2> QED BY <1>5, <2>1, <2>2, <2>4 DEF Behind
<1> QED BY <1>1, <1>4, <1>5, <1>6, <1>8, <1>12, <1>13, <1>14, StepKeeps

(* A component that is brought along moves in.                             *)
LEMMA MoveComponentKeeps ==
  ASSUME MovesInv, MoveComponent
  PROVE  MovesInv'
<1> DEFINE x == call.index
<1>1. /\ phase = "move" /\ phase' = "moved" /\ e' = e
      /\ MoveData(Source, x, array, Entities(array))
  BY DEF MoveComponent
<1>2. UNCHANGED <<counts, control>>
  BY <1>1 DEF MoveData
<1>3. /\ Held /\ AllExact(saved) /\ CallOK
      /\ counts \in [Archetypes -> Nat]
  BY <1>1, StepFacts
<1>4. PICK a \in Arrays : a = array /\ Visited(a) /\ Here(a)
  BY <1>1, StepFacts
<1> DEFINE n == Entities(a)
           P == Partner(a)
<1>5. /\ Brought(a) /\ blocks[a] = Roomy(a) /\ blocks[P] = saved[P]
      /\ blocks[fresh] = NewArray
  BY <1>1, <1>4 DEF Here, Moving
<1>6. /\ P \in Arrays /\ P # a /\ n \in Nat /\ Entities(P) \in Nat
      /\ x \in Nat /\ x < Entities(P) /\ Adds /\ ~ Removes /\ ~ Cleans
  BY <1>3, <1>4, <1>5, PartnerFacts DEF Brought, Adds, Removes, Cleans
<1>7. a \in Blocks /\ P \in Blocks /\ fresh \in Blocks /\ a # fresh /\ P # fresh
  BY <1>6, ArrayFacts DEF Blocks
<1>8. x \in DOMAIN blocks[P].data /\ At(P, x) = Incoming(a) /\ At(P, x) \in Objects
  <2>1. /\ IsByteArray(saved[P], Objects) /\ Entities(P) <= saved[P].size
        /\ Exact(saved[P], Entities(P))
    BY <1>3, <1>6 DEF AllExact
  <2>2. /\ saved[P].size \in Nat
        /\ saved[P].data \in [0 .. saved[P].size - 1 -> Objects \cup {raw}]
    BY <2>1 DEF IsByteArray
  <2>3. x \in 0 .. saved[P].size - 1
    BY <1>6, <2>1, <2>2
  <2>4. saved[P].data[x] \in Objects
    BY <1>6, <2>1, <2>2, <2>3 DEF Exact
  <2> QED BY <1>5, <2>2, <2>3, <2>4 DEF At, Incoming
<1>9. n \in DOMAIN blocks[a].data /\ At(a, n) \notin Objects
  <2>1. /\ Roomy(a).size \in Nat
        /\ DOMAIN Roomy(a).data = 0 .. Roomy(a).size - 1
        /\ Adds => n < Roomy(a).size
        /\ \A i \in 0 .. Roomy(a).size - 1 :
             IF i < n /\ ~ (Removes /\ i = call.index)
             THEN Roomy(a).data[i] \in Objects ELSE Roomy(a).data[i] = raw
    BY <1>3, <1>4, RoomyFacts
  <2> HIDE DEF n
  <2>2. n \in 0 .. Roomy(a).size - 1 /\ ~ (n < n)
    BY <1>6, <2>1
  <2> QED BY <1>5, <2>1, <2>2, SlotAssumption DEF At
<1>10. MoveData(P, x, a, n)
  BY <1>1, <1>4, LastIs
<1> HIDE DEF n, P, x
<1>11. /\ Held'
       /\ \A c \in Blocks : c # P /\ c # a => blocks'[c] = blocks[c]
       /\ blocks'[P] = construct(blocks[P], x,
                                 IF At(P, x) = raw THEN raw ELSE husk)
       /\ blocks'[a] = construct(blocks[a], n, At(P, x))
  BY <1>3, <1>6, <1>7, <1>8, <1>9, <1>10, MoveKeeps
<1>12. /\ blocks'[a] = construct(Roomy(a), n, Incoming(a))
       /\ blocks'[P] = construct(saved[P], x, husk)
       /\ blocks'[fresh] = NewArray
  BY <1>5, <1>7, <1>8, <1>11, SlotAssumption
<1>13. AtArray
  BY <1>2, <1>4, <1>11 DEF AtArray, P
<1>14. /\ Brought(a)' = Brought(a) /\ Roomy(a)' = Roomy(a)
       /\ Partner(a)' = Partner(a) /\ Entities(a)' = Entities(a)
       /\ Incoming(a)' = Incoming(a) /\ saved' = saved /\ call' = call
  BY <1>2, SameTerms DEF control
<1>15. Moving(a)'
  BY <1>1, <1>5, <1>12, <1>14 DEF Moving, Placed, n, P, x
<1>16. Here(a)'
  BY <1>1, <1>12, <1>15 DEF Here
<1> QED BY <1>1, <1>4, <1>11, <1>13, <1>16, StepKeeps

(* What it was moved from is destroyed.                                    *)
LEMMA LeaveSlotKeeps ==
  ASSUME MovesInv, LeaveSlot
  PROVE  MovesInv'
<1> DEFINE x == call.index
<1>1. /\ phase = "moved" /\ phase' = Filling
      /\ DestroyData(Source, x) /\ UNCHANGED <<owned, e>>
  BY DEF LeaveSlot
<1>2. UNCHANGED <<counts, control>>
  BY <1>1 DEF DestroyData
<1>3. /\ Held /\ AllExact(saved) /\ CallOK
      /\ counts \in [Archetypes -> Nat]
  BY <1>1, StepFacts
<1>4. PICK a \in Arrays : a = array /\ Visited(a) /\ Here(a)
  BY <1>1, StepFacts
<1> DEFINE P == Partner(a)
<1>5. /\ Brought(a)
      /\ blocks[a] = construct(Roomy(a), Entities(a), Incoming(a))
      /\ blocks[P] = construct(saved[P], x, husk)
      /\ blocks[fresh] = NewArray
  BY <1>1, <1>4 DEF Here, Moving, Placed
<1>6. /\ P \in Arrays /\ P # a /\ Entities(P) \in Nat
      /\ x \in Nat /\ x < Entities(P)
  BY <1>3, <1>4, <1>5, PartnerFacts
<1>7. a \in Blocks /\ P \in Blocks /\ fresh \in Blocks /\ a # fresh /\ P # fresh
  BY <1>6, ArrayFacts DEF Blocks
<1>8. x \in DOMAIN blocks[P].data /\ At(P, x) = husk
  <2>1. IsByteArray(saved[P], Objects) /\ Entities(P) <= saved[P].size
    BY <1>3, <1>6 DEF AllExact
  <2>2. /\ saved[P].size \in Nat
        /\ saved[P].data \in [0 .. saved[P].size - 1 -> Objects \cup {raw}]
    BY <2>1 DEF IsByteArray
  <2>3. x \in 0 .. saved[P].size - 1
    BY <1>6, <2>1, <2>2
  <2>4. construct(saved[P], x, husk).data = [saved[P].data EXCEPT ![x] = husk]
    BY DEF construct
  <2>5. /\ x \in DOMAIN construct(saved[P], x, husk).data
        /\ construct(saved[P], x, husk).data[x] = husk
    BY <2>2, <2>3, <2>4
  <2> QED BY <1>5, <2>5 DEF At
<1>9. DestroyData(P, x)
  BY <1>1, <1>4, LastIs
<1> HIDE DEF P, x
<1>10. /\ Held'
       /\ \A c \in Blocks : c # P => blocks'[c] = blocks[c]
       /\ blocks'[P] = destroy_data(blocks[P], x)
  <2>1. /\ At(P, x) # raw \/ Removes
        /\ owned' = owned /\ At(P, x) \notin Objects
    BY <1>1, <1>8, SlotAssumption
  <2> QED BY <1>3, <1>7, <1>8, <1>9, <2>1, DestroyKeeps
<1>11. blocks'[Partner(a)] = Hollow(a)
  <2>1. blocks'[P] = destroy_data(saved[P], x)
    BY <1>5, <1>10, SecondConstruct DEF destroy_data
  <2> QED BY <1>5, <2>1 DEF Hollow, Brought, P, x
<1>12. /\ blocks'[a] = construct(Roomy(a), Entities(a), Incoming(a))
       /\ blocks'[fresh] = NewArray
  BY <1>5, <1>6, <1>7, <1>10
<1>13. AtArray
  BY <1>2, <1>4, <1>10 DEF AtArray, P
<1>14. counts' = counts /\ call' = call /\ saved' = saved /\ array' = array
  BY <1>2 DEF control
<1>15. /\ phase' \notin {"idle", "thrown"}
       /\ phase' # "next" => Here(a)'
       /\ phase' = "next" => Behind(a)'
  BY <1>1, <1>3, <1>4, <1>5, <1>11, <1>12, <1>14, ReachesFilling
<1> QED BY <1>1, <1>4, <1>10, <1>12, <1>13, <1>15, StepKeeps

(* The array with the hole, as fill and filled find it.                    *)
LEMMA HoleFacts ==
  ASSUME AllExact(saved), CallOK, counts \in [Archetypes -> Nat],
         NEW a \in Arrays, a = array, Visited(a), Brought(a) \/ Removes,
         Last # call.index
  PROVE  /\ Partner(a) \in Arrays /\ Last \in Nat /\ call.index \in Nat
         /\ Last = Entities(Partner(a)) - 1
         /\ DOMAIN Hollow(a).data = 0 .. Hollow(a).size - 1
         /\ Last \in DOMAIN Hollow(a).data
         /\ call.index \in DOMAIN Hollow(a).data
         /\ Hollow(a).data[Last] \in Objects
         /\ Hollow(a).data[call.index] = raw
<1> DEFINE m == Entities(Partner(a))
<1>1. /\ m \in Nat /\ call.index \in Nat /\ call.index < m
      /\ Hollow(a).size \in Nat /\ m <= Hollow(a).size
      /\ DOMAIN Hollow(a).data = 0 .. Hollow(a).size - 1
      /\ \A i \in 0 .. Hollow(a).size - 1 :
           IF i < m /\ i # call.index THEN Hollow(a).data[i] \in Objects
                                      ELSE Hollow(a).data[i] = raw
  BY HollowFacts
<1>2. Last = m - 1
  BY LastIs
<1>3. Partner(a) \in Arrays
  BY PartnerFacts
<1> HIDE DEF m
<1>4. /\ Last \in 0 .. Hollow(a).size - 1 /\ Last < m /\ Last \in Nat
      /\ call.index \in 0 .. Hollow(a).size - 1
  BY <1>1, <1>2
<1> QED BY <1>1, <1>2, <1>3, <1>4 DEF m

(* The last object moves into the hole.                                    *)
LEMMA FillSlotKeeps ==
  ASSUME MovesInv, FillSlot
  PROVE  MovesInv'
<1> DEFINE x == call.index
<1>1. /\ phase = "fill" /\ phase' = "filled" /\ e' = e
      /\ MoveData(Source, Last, Source, x)
  BY DEF FillSlot
<1>2. UNCHANGED <<counts, control>>
  BY <1>1 DEF MoveData
<1>3. /\ Held /\ AllExact(saved) /\ CallOK
      /\ counts \in [Archetypes -> Nat]
  BY <1>1, StepFacts
<1>4. PICK a \in Arrays : a = array /\ Visited(a) /\ Here(a)
  BY <1>1, StepFacts
<1> DEFINE P == Partner(a)
<1>5. /\ Last # x
      /\ Removes \/ (Brought(a) /\ Placed(a))
      /\ blocks[P] = Hollow(a) /\ blocks[fresh] = NewArray
  BY <1>1, <1>4 DEF Here, Moving
<1>6. /\ P \in Arrays /\ Last \in Nat /\ x \in Nat
      /\ Last \in DOMAIN Hollow(a).data /\ x \in DOMAIN Hollow(a).data
      /\ Hollow(a).data[Last] \in Objects /\ Hollow(a).data[x] = raw
  <2>1. Last # call.index /\ (Brought(a) \/ Removes)
    BY <1>5
  <2> QED BY <1>3, <1>4, <2>1, HoleFacts
<1>7. a \in Blocks /\ P \in Blocks /\ fresh \in Blocks /\ P # fresh
  BY <1>6, ArrayFacts DEF Blocks
<1>8. PICK l \in Nat : l = Last
  BY <1>6
<1>9. MoveData(P, l, P, x)
  BY <1>1, <1>4, <1>8, LastIs
<1>10. /\ l \in DOMAIN blocks[P].data /\ x \in DOMAIN blocks[P].data
       /\ At(P, l) = Hollow(a).data[l] /\ At(P, l) \in Objects
       /\ At(P, x) \notin Objects /\ l # x
  BY <1>5, <1>6, <1>8, SlotAssumption DEF At
<1> HIDE DEF P, x
<1>11. /\ Held'
       /\ \A c \in Blocks : c # P => blocks'[c] = blocks[c]
       /\ blocks'[P] = construct(construct(blocks[P], l,
                                   IF At(P, l) = raw THEN raw ELSE husk),
                                 x, At(P, l))
  BY <1>3, <1>7, <1>9, <1>10, MoveKeeps
<1>12. blocks'[P] = construct(construct(Hollow(a), x, Hollow(a).data[l]), l, husk)
  <2>1. blocks'[P] = construct(construct(Hollow(a), l, husk), x, Hollow(a).data[l])
    BY <1>5, <1>10, <1>11, SlotAssumption
  <2> QED BY <1>10, <2>1, ConstructsCommute
<1>13. AtArray
  BY <1>2, <1>4, <1>11 DEF AtArray, P
<1>14. counts' = counts /\ call' = call /\ saved' = saved /\ array' = array
  BY <1>2 DEF control
<1>15. /\ Removes' = Removes /\ Brought(a)' = Brought(a)
       /\ Roomy(a)' = Roomy(a) /\ Hollow(a)' = Hollow(a)
       /\ Partner(a)' = Partner(a) /\ Entities(a)' = Entities(a)
       /\ Incoming(a)' = Incoming(a)
  BY <1>14, SameTerms
<1>16. Last' = Last
  BY <1>14 DEF Last, Source, Entities
<1>17. Removes' \/ (Brought(a)' /\ Placed(a)')
  <2>1. ASSUME Brought(a), Placed(a)
        PROVE  Placed(a)'
    <3>1. a # P
      BY <1>3, <1>4, <2>1, PartnerFacts DEF P
    <3> QED BY <1>7, <1>11, <1>15, <2>1, <3>1 DEF Placed
  <2> QED BY <1>5, <1>15, <2>1
<1>18. Moving(a)'
  <2>1. Last' # call'.index
    BY <1>5, <1>14, <1>16 DEF x
  <2>2. blocks'[Partner(a)'] =
          construct(construct(Hollow(a)', call'.index, Hollow(a)'.data[Last']),
                    Last', husk)
    BY <1>8, <1>12, <1>14, <1>15, <1>16 DEF P, x
  <2> QED BY <1>1, <1>17, <2>1, <2>2 DEF Moving
<1>19. Here(a)'
  BY <1>1, <1>5, <1>7, <1>11, <1>18 DEF Here
<1> QED BY <1>1, <1>4, <1>11, <1>13, <1>19, StepKeeps

(* What is left of it in the last slot is destroyed.                       *)
LEMMA LeaveLastKeeps ==
  ASSUME MovesInv, LeaveLast
  PROVE  MovesInv'
<1> DEFINE x == call.index
<1>1. /\ phase = "filled" /\ phase' = "next" /\ UNCHANGED <<owned, e>>
      /\ DestroyData(Source, Last)
  BY DEF LeaveLast
<1>2. UNCHANGED <<counts, control>>
  BY <1>1 DEF DestroyData
<1>3. /\ Held /\ AllExact(saved) /\ CallOK
      /\ counts \in [Archetypes -> Nat]
  BY <1>1, StepFacts
<1>4. PICK a \in Arrays : a = array /\ Visited(a) /\ Here(a)
  BY <1>1, StepFacts
<1> DEFINE P == Partner(a)
           H == Hollow(a)
<1>5. /\ Last # x
      /\ Removes \/ (Brought(a) /\ Placed(a))
      /\ blocks[P] = construct(construct(H, x, H.data[Last]), Last, husk)
      /\ blocks[fresh] = NewArray
  BY <1>1, <1>4 DEF Here, Moving
<1>6. /\ P \in Arrays /\ Last \in Nat /\ Last = Entities(P) - 1
      /\ Last \in DOMAIN H.data
  <2>1. Last # call.index /\ (Brought(a) \/ Removes)
    BY <1>5
  <2> QED BY <1>3, <1>4, <2>1, HoleFacts
<1>7. a \in Blocks /\ P \in Blocks /\ fresh \in Blocks /\ P # fresh
  BY <1>6, ArrayFacts DEF Blocks
<1>8. PICK l \in Nat : l = Last
  BY <1>6
<1>9. DestroyData(P, l)
  BY <1>1, <1>4, <1>8, LastIs
<1>10. l \in DOMAIN blocks[P].data /\ At(P, l) = husk
  <2>1. construct(construct(H, x, H.data[l]), l, husk).data =
          [[H.data EXCEPT ![x] = H.data[l]] EXCEPT ![l] = husk]
    BY DEF construct
  <2> HIDE DEF H
  <2>2. l \in DOMAIN H.data
    BY <1>6, <1>8
  <2>3. /\ l \in DOMAIN construct(construct(H, x, H.data[l]), l, husk).data
        /\ construct(construct(H, x, H.data[l]), l, husk).data[l] = husk
    BY <2>1, <2>2
  <2> QED BY <1>5, <1>8, <2>3 DEF At
<1> HIDE DEF P, x, H
<1>11. /\ Held'
       /\ \A c \in Blocks : c # P => blocks'[c] = blocks[c]
       /\ blocks'[P] = destroy_data(blocks[P], l)
  <2>1. /\ At(P, l) # raw \/ Removes
        /\ owned' = owned /\ At(P, l) \notin Objects
    BY <1>1, <1>10, SlotAssumption
  <2> QED BY <1>3, <1>7, <1>9, <1>10, <2>1, DestroyKeeps
<1>12. blocks'[P] = move_last_component(H, x, Entities(P))
  <2>1. blocks'[P] = destroy_data(construct(H, x, H.data[l]), l)
    BY <1>5, <1>8, <1>11, SecondConstruct DEF destroy_data
  <2>2. l = Entities(P) - 1 /\ Entities(P) - 1 # x
    <3>1. Last # x
      BY <1>5
    <3>2. Last = Entities(P) - 1
      BY <1>6
    <3> QED BY <1>8, <3>1, <3>2
  <2> QED BY <2>1, <2>2 DEF move_last_component
<1>13. AtArray
  BY <1>2, <1>4, <1>11 DEF AtArray, P
<1>14. counts' = counts /\ call' = call /\ saved' = saved
  BY <1>2 DEF control
<1>15. /\ Adds' = Adds /\ Removes' = Removes /\ Cleans' = Cleans
       /\ Brought(a)' = Brought(a)
       /\ Partner(a)' = Partner(a) /\ Entities(a)' = Entities(a)
       /\ Entities(Partner(a))' = Entities(Partner(a))
       /\ Incoming(a)' = Incoming(a)
  BY <1>14, SameTerms
<1>16. Behind(a)'
  <2>1. CASE Removes
    <3>1. /\ Partner(a) = a /\ ~ Adds /\ ~ Cleans /\ ~ Brought(a)
      BY <1>3, <1>4, <2>1, PartnerFacts DEF Adds, Removes, Cleans, Brought
    <3>2. H = auto_shrink(destroy_data(saved[a], call.index), Entities(a))
      BY <2>1, <3>1 DEF Hollow, Roomy, Old, H
    <3>3. blocks'[a] = erase_component(saved[a], call.index, Entities(a))
      BY <1>12, <3>1, <3>2 DEF erase_component, P, x
    <3> QED BY <1>14, <1>15, <2>1, <3>1, <3>3 DEF Behind
  <2>2. CASE ~ Removes
    <3>1. /\ Brought(a) /\ Adds /\ ~ Cleans /\ a[2] # call.id
          /\ blocks[a] = construct(Roomy(a), Entities(a), Incoming(a))
      BY <1>5, <2>2 DEF Brought, Adds, Cleans, Placed
    <3>2. a # P
      BY <1>3, <1>4, <3>1, PartnerFacts DEF P
    <3>3. blocks'[a] = emplace_component(saved[a], Entities(a), Incoming(a))
      BY <1>7, <1>11, <3>1, <3>2 DEF Roomy, emplace_component
    <3>4. H = destroy_data(saved[P], x)
      BY <3>1 DEF Hollow, H, P, x
    <3>5. blocks'[P] = move_out(saved[P], x, Entities(P))
      BY <1>12, <3>4 DEF move_out
    <3> QED BY <1>14, <1>15, <2>2, <3>1, <3>3, <3>5 DEF Behind, P, x
  <2> QED BY <2>1, <2>2
<1> QED BY <1>1, <1>4, <1>5, <1>7, <1>11, <1>13, <1>16, StepKeeps

(* clean destroys one component after the other.                           *)
LEMMA CleanSlotKeeps ==
  ASSUME MovesInv, CleanSlot
  PROVE  MovesInv'
<1>1. /\ phase = "clean" /\ phase' = Cleaning(e + 1) /\ e' = e + 1
      /\ DestroyData(array, e) /\ owned' = owned \ {At(array, e)}
  BY DEF CleanSlot
<1>2. UNCHANGED <<counts, control>>
  BY <1>1 DEF DestroyData
<1>3. /\ Held /\ AllExact(saved) /\ CallOK
      /\ counts \in [Archetypes -> Nat]
  BY <1>1, StepFacts
<1>4. PICK a \in Arrays : a = array /\ Visited(a) /\ Here(a)
  BY <1>1, StepFacts
<1>5. /\ Cleans /\ e \in Nat /\ e < Entities(a)
      /\ blocks[a] = Emptied(saved[a], e) /\ blocks[fresh] = NewArray
  BY <1>1, <1>4 DEF Here
<1>6. PICK j \in Nat : j = e
  BY <1>5
<1>7. /\ Entities(a) \in Nat /\ j < saved[a].size /\ j < Entities(a)
      /\ IsByteArray(saved[a], Objects) /\ saved[a].size \in Nat
      /\ saved[a].data[j] \in Objects
  <2>1. /\ Entities(a) \in Nat /\ saved[a].size \in Nat
        /\ Entities(a) <= saved[a].size /\ IsByteArray(saved[a], Objects)
        /\ \A i \in 0 .. saved[a].size - 1 :
             IF i < Entities(a) THEN saved[a].data[i] \in Objects
                                ELSE saved[a].data[i] = raw
    BY <1>3, <1>4, OldFacts
  <2>2. j \in 0 .. saved[a].size - 1 /\ j < Entities(a)
    BY <1>5, <1>6, <2>1
  <2> QED BY <2>1, <2>2
<1>8. j \in DOMAIN blocks[a].data /\ At(a, j) # raw
  <2>1. /\ DOMAIN Emptied(saved[a], j).data = 0 .. saved[a].size - 1
        /\ j \in 0 .. saved[a].size - 1 /\ ~ (j < j)
    BY <1>7 DEF Emptied
  <2>2. Emptied(saved[a], j).data[j] = saved[a].data[j]
    BY <2>1 DEF Emptied
  <2> QED BY <1>5, <1>6, <1>7, <2>1, <2>2, SlotAssumption DEF At
<1>9. a \in Blocks /\ a # fresh /\ fresh \in Blocks
  BY ArrayFacts DEF Blocks
<1>10. /\ Held'
       /\ \A c \in Blocks : c # a => blocks'[c] = blocks[c]
       /\ blocks'[a] = destroy_data(blocks[a], j)
  <2>1. DestroyData(a, j) /\ owned' = owned \ {At(a, j)}
    BY <1>1, <1>4, <1>6
  <2> QED BY <1>3, <1>8, <1>9, <2>1, DestroyKeeps
<1>11. blocks'[a] = Emptied(saved[a], j + 1) /\ blocks'[fresh] = NewArray
  <2>1. blocks'[a] = destroy_data(Emptied(saved[a], j), j)
    BY <1>5, <1>6, <1>10
  <2> QED BY <1>5, <1>7, <1>9, <1>10, <2>1, OneMoreDestroyed
<1>12. AtArray
  BY <1>2, <1>4, <1>10 DEF AtArray
<1>13. /\ Cleans' = Cleans /\ Entities(a)' = Entities(a) /\ saved' = saved
  BY <1>2, SameTerms DEF control
<1>14. phase' = IF j + 1 < Entities(a) THEN "clean" ELSE "free"
  BY <1>1, <1>4, <1>6 DEF Cleaning
<1>15. Here(a)'
  <2>1. CASE j + 1 < Entities(a)
    <3>1. phase' = "clean" /\ e' = j + 1 /\ e' \in Nat
      BY <1>1, <1>6, <1>14, <2>1
    <3> QED BY <1>5, <1>11, <1>13, <2>1, <3>1 DEF Here
  <2>2. CASE ~ (j + 1 < Entities(a))
    <3>1. phase' = "free" /\ j + 1 = Entities(a)
      BY <1>7, <1>14, <2>2
    <3> QED BY <1>5, <1>11, <1>13, <3>1 DEF Here
  <2> QED BY <2>1, <2>2
<1>16. phase' \notin {"idle", "thrown", "next"}
  BY <1>14
<1> QED BY <1>1, <1>4, <1>10, <1>12, <1>15, <1>16, StepKeeps

(* And frees the array.                                                    *)
LEMMA FreeArrayKeeps ==
  ASSUME MovesInv, FreeArray
  PROVE  MovesInv'
<1>1. /\ phase = "free" /\ phase' = "next"
      /\ blocks' = [blocks EXCEPT ![array] = NewArray]
      /\ UNCHANGED <<counts, owned, used, dead, control, e>>
  BY DEF FreeArray
<1>2. /\ Held /\ AllExact(saved) /\ CallOK
      /\ counts \in [Archetypes -> Nat] /\ DOMAIN blocks = Blocks
      /\ \A c \in Blocks : IsByteArray(blocks[c], Objects \cup {husk})
      /\ owned \subseteq Objects
      /\ Conserved(blocks, owned)
  BY <1>1, StepFacts
<1>3. PICK a \in Arrays : a = array /\ Visited(a) /\ Here(a)
  BY <1>1, StepFacts
<1>4. /\ Cleans /\ blocks[a] = Emptied(saved[a], Entities(a))
      /\ blocks[fresh] = NewArray
  BY <1>1, <1>3 DEF Here
<1>5. a \in Blocks /\ a # fresh /\ fresh \in Blocks
  BY ArrayFacts DEF Blocks
<1>6. /\ DOMAIN blocks' = Blocks
      /\ blocks'[a] = NewArray
      /\ \A c \in Blocks : c # a => blocks'[c] = blocks[c]
  BY <1>1, <1>2, <1>3, <1>5
<1>7. \A k \in DOMAIN blocks[a].data : blocks[a].data[k] \notin Objects
  <2>1. \A i \in 0 .. saved[a].size - 1 :
          IF i < Entities(a) THEN saved[a].data[i] \in Objects
                             ELSE saved[a].data[i] = raw
    BY <1>2, <1>3, OldFacts
  <2>2. DOMAIN blocks[a].data = 0 .. saved[a].size - 1
    BY <1>4 DEF Emptied
  <2>3. \A i \in 0 .. saved[a].size - 1 : blocks[a].data[i] =
          IF i < Entities(a) THEN raw ELSE saved[a].data[i]
    BY <1>4 DEF Emptied
  <2> QED BY <2>1, <2>2, <2>3, SlotAssumption
<1>8. Conserved(blocks', owned)
  <2>1. \A k \in DOMAIN blocks'[a].data : blocks'[a].data[k] \notin Objects
    BY <1>6, NewArrayArray
  <2>2. \A c \in Blocks :
          \/ blocks'[c] = blocks[c]
          \/ /\ \A k \in DOMAIN blocks[c].data : blocks[c].data[k] \notin Objects
             /\ \A k \in DOMAIN blocks'[c].data : blocks'[c].data[k] \notin Objects
    BY <1>6, <1>7, <2>1
  <2> QED BY <1>2, <2>2, RenewingConserves
<1>9. Held'
  <2>1. \A c \in Blocks : IsByteArray(blocks'[c], Objects \cup {husk})
    BY <1>2, <1>6, NewArrayArray
  <2> QED BY <1>1, <1>2, <1>6, <1>8, <2>1, HeldAfter
<1>10. AtArray
  BY <1>1, <1>3, <1>6 DEF AtArray
<1>11. Behind(a)'
  <2>1. ~ Adds' /\ ~ Removes' /\ ~ Brought(a)'
    BY <1>1, <1>4 DEF control, Adds, Removes, Cleans, Brought
  <2> QED BY <1>6, <2>1 DEF Behind
<1> QED BY <1>1, <1>3, <1>4, <1>5, <1>6, <1>9, <1>10, <1>11, StepKeeps

(* The next array is taken.                                                *)
LEMMA TakeArrayKeeps ==
  ASSUME MovesInv, NEW a \in Arrays, TakeArray(a)
  PROVE  MovesInv'
<1>1. /\ phase = "next" /\ a \in pending
      /\ pending' = pending \ {a} /\ array' = a /\ e' = 0
      /\ phase' = CASE call.name = "add" -> AutoAllocate(a)
                    [] call.name = "remove" -> "erase"
                    [] call.name = "clean" -> "clean"
      /\ counts' = counts /\ call' = call /\ saved' = saved
      /\ blocks' = blocks /\ owned' = owned /\ used' = used /\ dead' = dead
  BY DEF TakeArray, memory
<1>2. /\ Held /\ Progress /\ AllExact(saved) /\ CallOK
      /\ counts \in [Archetypes -> Nat] /\ blocks[fresh] = NewArray
  BY <1>1 DEF MovesInv, Held, Busy, Progress, MovesTypeOK
<1>3. Visited(a) /\ Ahead(a)
  BY <1>1, <1>2 DEF Progress
<1>4. /\ blocks[a] = saved[a]
      /\ Brought(a) => blocks[Partner(a)] = saved[Partner(a)]
  BY <1>3 DEF Ahead
<1>5. Held'
  BY <1>1, <1>2, HeldUnchanged
<1>6. /\ Adds' = Adds /\ Removes' = Removes /\ Cleans' = Cleans
      /\ Entities(a)' = Entities(a) /\ Partner(a)' = Partner(a)
      /\ Brought(a)' = Brought(a) /\ Old(a)' = Old(a)
      /\ Resizes(a)' = Resizes(a)
  BY <1>1, SameTerms
<1>7. phase' \notin {"idle", "thrown", "next"} /\ Here(a)'
  <2>1. CASE Adds
    <3>1. phase' = IF Resizes(a) THEN "allocate" ELSE Placing(a)
      BY <1>1, <1>4, <2>1 DEF Adds, AutoAllocate, Resizes
    <3>2. ~ Removes /\ ~ Cleans /\ Old(a) = saved[a]
      BY <2>1 DEF Adds, Removes, Cleans, Old
    <3>3. CASE Resizes(a)
      <4>1. Resizing(a)'
        BY <1>1, <1>2, <1>4, <1>6, <3>1, <3>2, <3>3 DEF Resizing
      <4> QED BY <1>1, <1>2, <3>1, <3>3, <4>1 DEF Here
    <3>4. CASE ~ Resizes(a)
      <4>1. blocks'[a] = Roomy(a)
        BY <1>1, <1>2, <1>3, <1>4, <3>2, <3>4, RoomyFacts
      <4>2. phase' = Placing(a)
        BY <3>1, <3>4
      <4>3. /\ Brought(a) => blocks'[Partner(a)] = saved[Partner(a)]
            /\ blocks'[fresh] = NewArray
        BY <1>1, <1>2, <1>4
      <4> QED BY <1>1, <2>1, <4>1, <4>2, <4>3, ReachesPlacing
    <3> QED BY <3>3, <3>4
  <2>2. CASE Removes
    <3>1. phase' = "erase"
      BY <1>1, <2>2 DEF Removes
    <3>2. Ahead(a)'
      BY <1>1, <1>4, <1>6 DEF Ahead
    <3> QED BY <1>1, <1>2, <1>6, <2>2, <3>1, <3>2 DEF Here
  <2>3. CASE Cleans
    <3>1. phase' = "clean"
      BY <1>1, <2>3 DEF Cleans
    <3>2. 0 < Entities(a) /\ ~ Adds /\ ~ Removes
      BY <1>3, <2>3 DEF Visited, Adds, Removes, Cleans
    <3>3. blocks'[a] = Emptied(saved'[a], e')
      BY <1>1, <1>2, <1>3, <1>4, OldFacts, EmptiedOfNone
    <3>4. e' \in Nat /\ e' < Entities(a)'
      BY <1>1, <1>6, <3>2
    <3>5. blocks'[fresh] = NewArray
      BY <1>1, <1>2
    <3> QED BY <1>6, <2>3, <3>1, <3>3, <3>4, <3>5 DEF Here
  <2> QED BY <1>2, <2>1, <2>2, <2>3 DEF CallOK, Adds, Removes, Cleans
<1>8. Progress'
  <2>1. AllExact(saved)' /\ CallOK'
    BY <1>1, <1>2 DEF AllExact, Entities, CallOK, Adds, Removes, Cleans
  <2>2. \A b \in Arrays : /\ Visited(b)' = Visited(b)
                          /\ Ahead(b)' = Ahead(b) /\ Behind(b)' = Behind(b)
    <3> SUFFICES ASSUME NEW b \in Arrays
                 PROVE  /\ Visited(b)' = Visited(b)
                        /\ Ahead(b)' = Ahead(b) /\ Behind(b)' = Behind(b)
      OBVIOUS
    <3>1. /\ Adds' = Adds /\ Removes' = Removes /\ Cleans' = Cleans
          /\ Entities(b)' = Entities(b) /\ Partner(b)' = Partner(b)
          /\ Entities(Partner(b))' = Entities(Partner(b))
          /\ Visited(b)' = Visited(b) /\ Brought(b)' = Brought(b)
          /\ Incoming(b)' = Incoming(b)
      BY <1>1, SameTerms
    <3> QED BY <1>1, <3>1 DEF Ahead, Behind
  <2>3. pending' \subseteq {b \in Arrays : Visited(b)'}
    BY <1>1, <1>2, <2>2 DEF Progress
  <2>4. \A b \in pending' : Ahead(b)'
    BY <1>1, <1>2, <2>2, <2>3 DEF Progress
  <2>5. \A b \in Arrays :
          Visited(b)' /\ b \notin pending' /\ ~ (b = array' /\ phase' # "next")
            => Behind(b)'
    BY <1>1, <1>2, <1>7, <2>2 DEF Progress
  <2>6. Elsewhere'
    BY <1>1, <1>2, <2>2 DEF Progress, Elsewhere
  <2>7. \E b \in Arrays : b = array' /\ Visited(b)' /\ b \notin pending' /\ Here(b)'
    BY <1>1, <1>3, <1>7, <2>2
  <2> QED BY <1>7, <2>1, <2>3, <2>4, <2>5, <2>6, <2>7 DEF Progress
<1> QED BY <1>5, <1>7, <1>8 DEF MovesInv, Held, Busy

(* An exception ends the call as it stands.                                *)
LEMMA ThrowKeeps ==
  ASSUME MovesInv, Throw
  PROVE  MovesInv'
<1>1. /\ phase' = "thrown" /\ counts' = counts /\ blocks' = blocks
      /\ owned' = owned /\ used' = used /\ dead' = dead
  BY DEF Throw, memory
<1>2. Held'
  <2>1. Held
    BY DEF MovesInv, Held
  <2> QED BY <1>1, <2>1, HeldUnchanged
<1> QED BY <1>1, <1>2 DEF MovesInv, Held, Busy

(***************************************************************************)
(* Where calls begin.                                                      *)
(***************************************************************************)
(* All arrays that a call visits are ahead of it.                          *)
LEMMA BeginningKeeps ==
  ASSUME MovesInv, phase = "idle", phase' = "next", saved' = blocks,
         UNCHANGED <<counts, memory>>, CallOK',
         pending' = {a \in Arrays : Visited(a)'}
  PROVE  MovesInv'
<1>1. /\ counts' = counts /\ blocks' = blocks /\ owned' = owned
      /\ used' = used /\ dead' = dead
  BY DEF memory
<1>2. Held'
  <2>1. Held
    BY DEF MovesInv, Held
  <2> QED BY <1>1, <2>1, HeldUnchanged
<1>3. AllExact(saved)'
  BY <1>1 DEF MovesInv, AllExact, Entities
<1>4. blocks'[fresh] = NewArray
  BY <1>1 DEF MovesInv, AllExact
<1>5. \A a \in Arrays : Ahead(a)'
  BY <1>1 DEF Ahead
<1>6. Elsewhere'
  BY <1>1 DEF Elsewhere
<1>7. Progress'
  BY <1>3, <1>4, <1>5, <1>6 DEF Progress
<1> QED BY <1>2, <1>7 DEF MovesInv, Held, Busy

(* add, for an entity without an archetype.                                *)
LEMMA AddFirstKeeps ==
  ASSUME MovesInv, NEW c \in Components, AddFirst(c)
  PROVE  MovesInv'
<1>1. /\ phase = "idle" /\ phase' = "next" /\ saved' = blocks
      /\ call' = [name |-> "add", from |-> {}, to |-> {c}, id |-> c, index |-> 0]
      /\ pending' = {a \in Arrays : a[1] = {c}}
      /\ UNCHANGED <<counts, memory>>
  BY DEF AddFirst, Called, ArraysOf
<1>2. Adds' /\ ~ Removes' /\ ~ Cleans'
  BY <1>1 DEF Adds, Removes, Cleans
<1>3. CallOK'
  BY <1>1, <1>2, ComponentIdsAssumption DEF CallOK
<1>4. pending' = {a \in Arrays : Visited(a)'}
  BY <1>1, <1>2 DEF Visited
<1> QED BY <1>1, <1>3, <1>4, BeginningKeeps

(* add, for the entity in slot x of k.                                     *)
LEMMA AddNextKeeps ==
  ASSUME MovesInv, NEW k \in Archetypes, NEW c \in Components \ k,
         NEW x \in 0 .. counts[k] - 1, AddNext(k, c, x)
  PROVE  MovesInv'
<1>1. /\ phase = "idle" /\ phase' = "next" /\ saved' = blocks
      /\ call' = [name |-> "add", from |-> k, to |-> k \cup {c}, id |-> c,
                  index |-> x]
      /\ pending' = {a \in Arrays : a[1] = k \cup {c}}
      /\ UNCHANGED <<counts, memory>>
  BY DEF AddNext, Called, ArraysOf
<1>2. Adds' /\ ~ Removes' /\ ~ Cleans'
  BY <1>1 DEF Adds, Removes, Cleans
<1>3. counts[k] \in Nat /\ k \subseteq Components
  BY DEF MovesInv, MovesTypeOK, Archetypes
<1>4. x \in Nat /\ x < counts[k] /\ c \in Nat
  <2>1. PICK n \in Nat : n = counts[k]
    BY <1>3
  <2>2. x \in 0 .. n - 1
    BY <2>1
  <2>3. x \in Nat /\ x < n
    BY <2>2
  <2> QED BY <2>1, <2>3, ComponentIdsAssumption
<1>5. k = (k \cup {c}) \ {c} /\ k \cup {c} \in SUBSET Components
  BY <1>3
<1>6. CallOK'
  BY <1>1, <1>2, <1>3, <1>4, <1>5 DEF CallOK
<1>7. pending' = {a \in Arrays : Visited(a)'}
  BY <1>1, <1>2 DEF Visited
<1> QED BY <1>1, <1>6, <1>7, BeginningKeeps

(* remove, for the entity in slot x that has c alone.                      *)
LEMMA RemoveOnlyKeeps ==
  ASSUME MovesInv, NEW c \in Components, NEW x \in 0 .. counts[{c}] - 1,
         RemoveOnly(c, x)
  PROVE  MovesInv'
<1>1. /\ phase = "idle" /\ phase' = "next" /\ saved' = blocks
      /\ call' = [name |-> "remove", from |-> {c}, to |-> {}, id |-> c,
                  index |-> x]
      /\ pending' = {a \in Arrays : a[1] = {c}}
      /\ UNCHANGED <<counts, memory>>
  BY DEF RemoveOnly, Called, ArraysOf
<1>2. ~ Adds' /\ Removes' /\ ~ Cleans'
  BY <1>1 DEF Adds, Removes, Cleans
<1>3. {c} \in Archetypes /\ counts[{c}] \in Nat
  BY DEF MovesInv, MovesTypeOK, Archetypes
<1>4. x \in Nat /\ x < counts[{c}] /\ c \in Nat
  BY <1>3, ComponentIdsAssumption
<1>5. CallOK'
  BY <1>1, <1>2, <1>4 DEF CallOK
<1>6. pending' = {a \in Arrays : Visited(a)'}
  BY <1>1, <1>2 DEF Visited
<1> QED BY <1>1, <1>5, <1>6, BeginningKeeps

(* ~registry.                                                              *)
LEMMA CleanKeeps ==
  ASSUME MovesInv, Clean
  PROVE  MovesInv'
<1>1. /\ phase = "idle" /\ phase' = "next" /\ saved' = blocks
      /\ call' = [name |-> "clean", from |-> {}, to |-> {}, id |-> 0, index |-> 0]
      /\ pending' = {a \in Arrays : counts[a[1]] > 0}
      /\ UNCHANGED <<counts, memory>>
  BY DEF Clean, Called
<1>2. ~ Adds' /\ ~ Removes' /\ Cleans'
  BY <1>1 DEF Adds, Removes, Cleans
<1>3. CallOK'
  BY <1>1, <1>2 DEF CallOK
<1>4. pending' = {a \in Arrays : Visited(a)'}
  BY <1>1, <1>2 DEF Visited, Entities
<1> QED BY <1>1, <1>3, <1>4, BeginningKeeps

(***************************************************************************)
(* Where calls end.                                                        *)
(***************************************************************************)
(* The entities that an archetype has from then on.                        *)
LEMMA RecountedIs ==
  ASSUME CallOK, NEW k \in Archetypes
  PROVE  /\ Cleans => Recounted(k) = 0
         /\ ~ Cleans /\ k = call.to => Recounted(k) = counts[k] + 1
         /\ ~ Cleans /\ k = call.from => Recounted(k) = counts[k] - 1
         /\ ~ Cleans /\ k # call.to /\ k # call.from => Recounted(k) = counts[k]
<1>1. k # {}
  BY DEF Archetypes
<1>2. ~ (k = call.to /\ k = call.from)
  BY <1>1 DEF CallOK, Adds, Removes, Cleans
<1>3. Cleans => k # call.to /\ k # call.from
  BY <1>1 DEF CallOK
<1> QED BY <1>2, <1>3 DEF Recounted, Cleans

(* Then every array is what the operations of ByteArray make of it.        *)
LEMMA CallDone ==
  ASSUME Progress, phase = "next", pending = {},
         counts \in [Archetypes -> Nat], NEW a \in Arrays
  PROVE  /\ Cleans => blocks[a] = NewArray
         /\ Adds /\ a[1] = call.to /\ a[2] = call.id =>
              \E v \in Objects :
                blocks[a] = emplace_component(saved[a], Entities(a), v)
         /\ Adds /\ a[1] = call.to /\ a[2] # call.id =>
              blocks[a] = emplace_component(saved[a], Entities(a), Incoming(a))
         /\ Adds /\ a[1] = call.from =>
              blocks[a] = move_out(saved[a], call.index, Entities(a))
         /\ Removes /\ a[1] = call.from =>
              blocks[a] = erase_component(saved[a], call.index, Entities(a))
         /\ ~ Cleans /\ a[1] \notin {call.to, call.from} => blocks[a] = saved[a]
<1>1. CallOK /\ AllExact(saved) /\ Elsewhere
  BY DEF Progress
<1>2. \A b \in Arrays : Visited(b) => Behind(b)
  BY DEF Progress
<1>3. a = <<a[1], a[2]>> /\ a[1] # {} /\ Entities(a) \in Nat
  BY ArrayFacts DEF Entities
<1>4. CASE Cleans
  <2>1. ~ Adds /\ ~ Removes /\ call.from = {}
    BY <1>1, <1>4 DEF Adds, Removes, Cleans, CallOK
  <2>2. CASE Visited(a)
    BY <1>2, <1>4, <2>1, <2>2 DEF Behind
  <2>3. CASE ~ Visited(a)
    <3>1. Entities(a) = 0
      BY <1>3, <1>4, <2>3 DEF Visited
    <3>2. saved[a] = NewArray
      BY <1>1, <3>1 DEF AllExact
    <3> QED BY <1>1, <1>3, <1>4, <2>1, <2>3, <3>2 DEF Elsewhere
  <2> QED BY <1>4, <2>1, <2>2, <2>3
<1>5. CASE Adds
  <2>1. ~ Cleans /\ ~ Removes
    BY <1>5 DEF Adds, Removes, Cleans
  <2>2. /\ call.from = call.to \ {call.id} /\ call.id \in call.to
        /\ call.to \in SUBSET Components
    BY <1>1, <1>5 DEF CallOK
  <2>3. a[1] = call.to => Behind(a)
    BY <1>2, <1>5 DEF Visited
  <2>4. ASSUME a[1] = call.from
        PROVE  blocks[a] = move_out(saved[a], call.index, Entities(a))
    <3>1. a[2] \in call.to /\ a[2] # call.id
      BY <2>2, <2>4, ArrayFacts
    <3>2. PICK b \in Arrays : b = <<call.to, a[2]>>
      BY <2>2, <3>1, ArrayFacts
    <3>3. Visited(b) /\ Brought(b) /\ Partner(b) = a
      BY <1>3, <1>5, <2>4, <3>1, <3>2 DEF Visited, Brought, Partner
    <3> QED BY <1>2, <3>3 DEF Behind
  <2>5. a[1] \notin {call.to, call.from} => blocks[a] = saved[a]
    BY <1>1, <2>1 DEF Elsewhere, Visited
  <2> QED BY <1>5, <2>1, <2>3, <2>4, <2>5 DEF Behind, Brought
<1>6. CASE Removes
  <2>1. ~ Cleans /\ ~ Adds
    BY <1>6 DEF Adds, Removes, Cleans
  <2>2. a[1] = call.from => Behind(a)
    BY <1>2, <1>6 DEF Visited
  <2>3. a[1] # call.from => blocks[a] = saved[a]
    BY <1>1, <2>1 DEF Elsewhere, Visited
  <2> QED BY <1>6, <2>1, <2>2, <2>3 DEF Behind
<1> QED BY <1>1, <1>4, <1>5, <1>6 DEF CallOK, Adds, Removes, Cleans

(* What is moved to an array is an object.                                 *)
LEMMA IncomingIsObject ==
  ASSUME CallOK, AllExact(saved), counts \in [Archetypes -> Nat],
         NEW a \in Arrays, Visited(a), Brought(a)
  PROVE  Incoming(a) \in Objects
<1>1. /\ Partner(a) \in Arrays /\ Entities(Partner(a)) \in Nat
      /\ call.index \in Nat /\ call.index < Entities(Partner(a))
  BY PartnerFacts
<1>2. PICK p \in Arrays : p = Partner(a)
  BY <1>1
<1>3. /\ IsByteArray(saved[p], Objects) /\ Entities(p) <= saved[p].size
      /\ Exact(saved[p], Entities(p))
  BY DEF AllExact
<1> QED BY <1>1, <1>2, <1>3 DEF Exact, IsByteArray, Incoming

(* Each array has its objects in the slots of the entities to be counted.  *)
LEMMA RecountedExact ==
  ASSUME Progress, phase = "next", pending = {},
         counts \in [Archetypes -> Nat], NEW a \in Arrays
  PROVE  /\ IsByteArray(blocks[a], Objects)
         /\ Recounted(a[1]) \in Nat /\ Recounted(a[1]) <= blocks[a].size
         /\ Exact(blocks[a], Recounted(a[1]))
<1>1. CallOK /\ AllExact(saved)
  BY DEF Progress
<1>2. a[1] \in Archetypes /\ a[1] # {} /\ Entities(a) = counts[a[1]]
  BY ArrayFacts DEF Entities
<1>3. PICK n \in Nat : n = Entities(a)
  BY <1>2
<1>4. /\ IsByteArray(saved[a], Objects) /\ n <= saved[a].size
      /\ Exact(saved[a], n)
  BY <1>1, <1>3 DEF AllExact
<1>5. raw \notin Objects
  BY SlotAssumption
<1>6. CASE Cleans
  <2>1. Recounted(a[1]) = 0 /\ blocks[a] = NewArray
    BY <1>1, <1>2, <1>6, RecountedIs, CallDone
  <2>2. Exact(NewArray, 0)
    BY DEF Exact, NewArray
  <2> QED BY <2>1, <2>2, NewArrayArray
<1>7. CASE ~ Cleans /\ a[1] = call.to
  <2>1. Adds /\ Visited(a) /\ Recounted(a[1]) = n + 1
    BY <1>1, <1>2, <1>3, <1>7, RecountedIs DEF CallOK, Adds, Removes, Cleans, Visited
  <2>2. \E v \in Objects : blocks[a] = emplace_component(saved[a], n, v)
    <3>1. CASE a[2] = call.id
      BY <1>3, <1>7, <2>1, <3>1, CallDone
    <3>2. CASE a[2] # call.id
      <4>1. Incoming(a) \in Objects
        BY <1>1, <2>1, <3>2, IncomingIsObject DEF Brought
      <4> QED BY <1>3, <1>7, <2>1, <3>2, <4>1, CallDone
    <3> QED BY <3>1, <3>2
  <2>3. PICK v \in Objects : blocks[a] = emplace_component(saved[a], n, v)
    BY <2>2
  <2>4. /\ IsByteArray(blocks[a], Objects) /\ blocks[a].size >= n + 1
    BY <1>4, <2>3, EmplaceArray
  <2>5. Exact(blocks[a], n + 1)
    BY <1>4, <1>5, <2>3, EmplaceExact
  <2>6. blocks[a].size \in Nat
    BY <2>4 DEF IsByteArray
  <2> QED BY <2>1, <2>4, <2>5, <2>6
<1>8. CASE ~ Cleans /\ a[1] = call.from
  <2>1. call.index \in Nat /\ call.index < n /\ Recounted(a[1]) = n - 1
    BY <1>1, <1>2, <1>3, <1>8, RecountedIs DEF CallOK, Adds, Removes, Cleans
  <2>2. PICK x \in Nat : x = call.index
    BY <2>1
  <2>3. n \in Nat \ {0} /\ n - 1 \in Nat /\ x < n
    BY <2>1, <2>2
  <2>4. saved[a].size \in Nat
    BY <1>4 DEF IsByteArray
  <2>5. CASE Adds
    <3>1. blocks[a] = move_out(saved[a], x, n)
      BY <1>3, <1>8, <2>2, <2>5, CallDone
    <3>2. IsByteArray(blocks[a], Objects) /\ blocks[a].size = saved[a].size
      BY <1>4, <2>3, <3>1, MoveOutArray
    <3>3. Exact(blocks[a], n - 1)
      BY <1>4, <2>3, <3>1, MoveOutExact
    <3> QED BY <1>4, <2>1, <2>3, <2>4, <3>2, <3>3
  <2>6. CASE Removes
    <3>1. blocks[a] = erase_component(saved[a], x, n)
      BY <1>3, <1>8, <2>2, <2>6, CallDone
    <3>2. IsByteArray(blocks[a], Objects) /\ blocks[a].size >= n
      BY <1>4, <2>3, <3>1, EraseArray
    <3>3. Exact(blocks[a], n - 1)
      BY <1>4, <2>3, <3>1, EraseExact
    <3>4. blocks[a].size \in Nat
      BY <3>2 DEF IsByteArray
    <3> QED BY <2>1, <2>3, <3>2, <3>3, <3>4
  <2> QED BY <1>1, <1>8, <2>5, <2>6 DEF CallOK, Adds, Removes, Cleans
<1>9. CASE ~ Cleans /\ a[1] # call.to /\ a[1] # call.from
  BY <1>1, <1>2, <1>3, <1>4, <1>9, RecountedIs, CallDone
<1> QED BY <1>6, <1>7, <1>8, <1>9

(* Archetypes that are deleted have no objects left.                       *)
LEMMA DeletingConserves ==
  ASSUME Progress, phase = "next", pending = {}, counts \in [Archetypes -> Nat],
         owned \subseteq Objects, owned' = owned, Conserved(blocks, owned),
         blocks[fresh] = NewArray, blocks'[fresh] = NewArray,
         \A a \in Arrays : blocks'[a] = IF Recounted(a[1]) = 0
                                       THEN NewArray ELSE blocks[a]
  PROVE  Conserved(blocks', owned')
<1>1. ASSUME NEW c \in Blocks, blocks'[c] # blocks[c]
      PROVE  /\ \A k \in DOMAIN blocks[c].data : blocks[c].data[k] \notin Objects
             /\ \A k \in DOMAIN blocks'[c].data : blocks'[c].data[k] \notin Objects
  <2>1. c \in Arrays /\ Recounted(c[1]) = 0 /\ blocks'[c] = NewArray
    BY <1>1 DEF Blocks
  <2>2. IsByteArray(blocks[c], Objects) /\ Exact(blocks[c], 0)
    BY <2>1, RecountedExact
  <2>3. \A k \in DOMAIN blocks[c].data : blocks[c].data[k] = raw
    BY <2>2 DEF IsByteArray, Exact
  <2> QED BY <2>1, <2>3, NewArrayArray, SlotAssumption
<1> QED BY <1>1, RenewingConserves

(* The entities are counted and archetypes without any deleted.            *)
LEMMA RecountEntitiesKeeps ==
  ASSUME MovesInv, RecountEntities
  PROVE  MovesInv'
<1>1. /\ phase = "next" /\ pending = {} /\ phase' = "idle"
      /\ counts' = [k \in Archetypes |-> Recounted(k)]
      /\ blocks' = [a \in Blocks |->
           IF a # fresh /\ Recounted(a[1]) = 0 THEN NewArray ELSE blocks[a]]
      /\ owned' = owned /\ used' = used /\ dead' = dead
  BY DEF RecountEntities, DeleteEmpty, Blocks
<1>2. /\ Progress /\ counts \in [Archetypes -> Nat]
      /\ blocks[fresh] = NewArray
      /\ owned \subseteq used /\ used \subseteq Objects
      /\ Conserved(blocks, owned) /\ OnlyRemoveTouchesDead
  BY <1>1, ConservedIsConserved DEF MovesInv, Busy, Progress, MovesTypeOK
<1>3. /\ DOMAIN blocks' = Blocks /\ blocks'[fresh] = NewArray
      /\ \A a \in Arrays : /\ a \in Blocks /\ a # fresh
                           /\ a[1] \in Archetypes
                           /\ Entities(a)' = Recounted(a[1])
                           /\ blocks'[a] = IF Recounted(a[1]) = 0
                                           THEN NewArray ELSE blocks[a]
  BY <1>1, <1>2, ArrayFacts DEF Entities, Blocks
<1>4. Exact(NewArray, 0)
  BY DEF Exact, NewArray
<1>5. ASSUME NEW a \in Arrays
      PROVE  /\ IsByteArray(blocks'[a], Objects)
             /\ Entities(a)' \in Nat
             /\ Entities(a)' <= blocks'[a].size
             /\ Exact(blocks'[a], Entities(a)')
             /\ Entities(a)' = 0 => blocks'[a] = NewArray
  BY <1>1, <1>2, <1>3, <1>4, RecountedExact, NewArrayArray
<1>6. AllExact(blocks)'
  BY <1>3, <1>5 DEF AllExact
<1>7. MovesTypeOK'
  <2>1. ASSUME NEW k \in Archetypes PROVE Recounted(k) \in Nat
    <3>1. PICK c \in k : TRUE
      BY DEF Archetypes
    <3>2. PICK a \in Arrays : a = <<k, c>>
      BY <3>1, ArrayFacts DEF Archetypes
    <3> QED BY <1>3, <1>5, <3>2
  <2>2. counts' \in [Archetypes -> Nat]
    BY <1>1, <2>1
  <2>3. \A c \in Blocks : IsByteArray(blocks'[c], Objects \cup {husk})
    BY <1>3, <1>5, NewArrayArray, MoreKinds DEF Blocks
  <2> QED BY <1>1, <1>2, <1>3, <2>2, <2>3 DEF MovesTypeOK, Blocks
<1>8. Conserved(blocks', owned')
  BY <1>1, <1>2, <1>3, DeletingConserves
<1>9. ObjectsAreConserved' /\ OnlyRemoveTouchesDead'
  BY <1>1, <1>2, <1>8
     DEF ObjectsAreConserved, Conserved, At, Blocks, OnlyRemoveTouchesDead
<1> QED BY <1>1, <1>6, <1>7, <1>9 DEF MovesInv, Busy

(* So are they where the new archetype has no room for its entity.         *)
LEMMA ThrowPushingBackKeeps ==
  ASSUME MovesInv, ThrowPushingBack
  PROVE  MovesInv' /\ counts' \in [Archetypes -> Nat]
<1>1. /\ phase = "next" /\ pending = {} /\ phase' = "thrown"
      /\ counts' = [k \in Archetypes |-> IF k = call.to THEN counts[k] ELSE Recounted(k)]
      /\ blocks' = [a \in Blocks |->
           IF a # fresh /\ Recounted(a[1]) = 0 THEN NewArray ELSE blocks[a]]
      /\ owned' = owned /\ used' = used /\ dead' = dead
  BY DEF ThrowPushingBack, DeleteEmpty, Blocks
<1>2. /\ Progress /\ counts \in [Archetypes -> Nat]
      /\ blocks[fresh] = NewArray
      /\ owned \subseteq used /\ used \subseteq Objects
      /\ Conserved(blocks, owned) /\ OnlyRemoveTouchesDead
  BY <1>1, ConservedIsConserved DEF MovesInv, Busy, Progress, MovesTypeOK
<1>3. /\ DOMAIN blocks' = Blocks /\ blocks'[fresh] = NewArray
      /\ \A a \in Arrays : /\ a \in Blocks /\ a # fresh
                           /\ a[1] \in Archetypes
                           /\ blocks'[a] = IF Recounted(a[1]) = 0
                                           THEN NewArray ELSE blocks[a]
  BY <1>1, <1>2, ArrayFacts DEF Blocks
<1>4. ASSUME NEW a \in Arrays
      PROVE  IsByteArray(blocks'[a], Objects) /\ Recounted(a[1]) \in Nat
  BY <1>1, <1>2, <1>3, RecountedExact, NewArrayArray
<1>5. counts' \in [Archetypes -> Nat]
  <2>1. ASSUME NEW k \in Archetypes PROVE Recounted(k) \in Nat
    <3>1. PICK c \in k : TRUE
      BY DEF Archetypes
    <3>2. PICK a \in Arrays : a = <<k, c>>
      BY <3>1, ArrayFacts DEF Archetypes
    <3> QED BY <1>4, <3>2
  <2> QED BY <1>1, <1>2, <2>1
<1>6. MovesTypeOK'
  <2>1. \A c \in Blocks : IsByteArray(blocks'[c], Objects \cup {husk})
    BY <1>3, <1>4, NewArrayArray, MoreKinds DEF Blocks
  <2> QED BY <1>1, <1>2, <1>3, <1>5, <2>1 DEF MovesTypeOK, Blocks
<1>7. Conserved(blocks', owned')
  BY <1>1, <1>2, <1>3, DeletingConserves
<1>8. ObjectsAreConserved' /\ OnlyRemoveTouchesDead'
  BY <1>1, <1>2, <1>7
     DEF ObjectsAreConserved, Conserved, At, Blocks, OnlyRemoveTouchesDead
<1> QED BY <1>1, <1>5, <1>6, <1>8 DEF MovesInv, Busy

(***************************************************************************)
(* The invariant.                                                          *)
(***************************************************************************)
(* It holds before the first call.                                         *)
LEMMA InitIsRight == Init => MovesInv
<1> SUFFICES ASSUME Init PROVE MovesInv
  OBVIOUS
<1>1. /\ counts = [k \in Archetypes |-> 0] /\ blocks = [c \in Blocks |-> NewArray]
      /\ phase = "idle" /\ owned = {} /\ used = {} /\ dead = {}
  BY DEF Init, NoBlocks, Blocks
<1>2. Exact(NewArray, 0)
  BY DEF Exact, NewArray
<1>3. \A a \in Blocks : blocks[a] = NewArray /\ DOMAIN blocks[a].data = {}
  BY <1>1, NewArrayArray
<1>4. MovesTypeOK
  BY <1>1, NewArrayArray DEF MovesTypeOK, Blocks
<1>5. ObjectsAreConserved
  BY <1>1, <1>3 DEF ObjectsAreConserved, Blocks
<1>6. AllExact(blocks)
  <2>1. \A a \in Arrays : Entities(a) = 0
    BY <1>1, ArrayFacts DEF Entities
  <2> QED BY <1>1, <1>2, <1>3, <2>1, NewArrayArray DEF AllExact, Blocks
<1> QED BY <1>1, <1>4, <1>5, <1>6 DEF MovesInv, Busy, OnlyRemoveTouchesDead

(* And every step of every call keeps it.                                  *)
LEMMA StepKeepsMovesInv == MovesInv /\ [Next]_vars => MovesInv'
<1> SUFFICES ASSUME MovesInv, [Next]_vars PROVE MovesInv'
  OBVIOUS
<1>1. CASE \E c \in Components : AddFirst(c)
  BY <1>1, AddFirstKeeps
<1>2. CASE \E k \in Archetypes : \E c \in Components \ k, x \in 0 .. counts[k] - 1 :
             AddNext(k, c, x)
  BY <1>2, AddNextKeeps
<1>3. CASE \E c \in Components : \E x \in 0 .. counts[{c}] - 1 : RemoveOnly(c, x)
  BY <1>3, RemoveOnlyKeeps
<1>4. CASE Clean
  BY <1>4, CleanKeeps
<1>5. CASE \E a \in Arrays : TakeArray(a)
  BY <1>5, TakeArrayKeeps
<1>6. CASE EraseComponent
  BY <1>6, EraseComponentKeeps
<1>7. CASE AllocateBlock
  BY <1>7, AllocateBlockKeeps
<1>8. CASE RefillBlock
  BY <1>8, RefillBlockKeeps
<1>9. CASE LeaveBlock
  BY <1>9, LeaveBlockKeeps
<1>10. CASE InstallBlock
  BY <1>10, InstallBlockKeeps
<1>11. CASE ConstructData
  BY <1>11, ConstructDataKeeps
<1>12. CASE MoveComponent
  BY <1>12, MoveComponentKeeps
<1>13. CASE LeaveSlot
  BY <1>13, LeaveSlotKeeps
<1>14. CASE FillSlot
  BY <1>14, FillSlotKeeps
<1>15. CASE LeaveLast
  BY <1>15, LeaveLastKeeps
<1>16. CASE CleanSlot
  BY <1>16, CleanSlotKeeps
<1>17. CASE FreeArray
  BY <1>17, FreeArrayKeeps
<1>18. CASE RecountEntities
  BY <1>18, RecountEntitiesKeeps
<1>19. CASE Throw
  BY <1>19, ThrowKeeps
<1>20. CASE ThrowPushingBack
  BY <1>20, ThrowPushingBackKeeps
<1>21. CASE UNCHANGED vars
  <2>1. /\ counts' = counts /\ blocks' = blocks /\ owned' = owned
        /\ used' = used /\ dead' = dead /\ call' = call /\ pending' = pending
        /\ array' = array /\ saved' = saved /\ phase' = phase /\ e' = e
    BY <1>21 DEF vars, memory, control
  <2>2. Held'
    BY <2>1, HeldUnchanged DEF MovesInv, Held
  <2>3. AllExact(blocks)' = AllExact(blocks)
    BY <2>1 DEF AllExact, Entities
  <2>4. Progress' = Progress
    BY <2>1 DEF Progress, AllExact, CallOK, Visited, Ahead, Behind, Elsewhere,
                Here, Resizing, Moving, Placed, Hollow, Roomy, Big, Resizes, Old,
                Incoming, Partner, Brought, Adds, Removes, Cleans, Entities, Last,
                Source
  <2> QED BY <2>1, <2>2, <2>3, <2>4 DEF MovesInv, Held, Busy
<1> QED BY <1>1, <1>2, <1>3, <1>4, <1>5, <1>6, <1>7, <1>8, <1>9, <1>10, <1>11,
           <1>12, <1>13, <1>14, <1>15, <1>16, <1>17, <1>18, <1>19, <1>20, <1>21 DEF Next

(* The invariant of the calls, object by object.                           *)
LEMMA MovesInvHolds == Spec => []MovesInv
BY InitIsRight, StepKeepsMovesInv, PTL DEF Spec

(* The memory always consists of arrays of objects, of what was moved from *)
(* and not yet destroyed, and of raw slots.                                *)
THEOREM MovesTypes == Spec => []MovesTypeOK
<1>1. MovesInv => MovesTypeOK
  BY DEF MovesInv
<1> QED BY <1>1, MovesInvHolds, PTL

(* Whatever a call moves and whichever step throws, each component that is *)
(* constructed and not yet removed stays in exactly one slot.              *)
THEOREM ObjectsStayConserved == Spec => []ObjectsAreConserved
<1>1. MovesInv => ObjectsAreConserved
  BY DEF MovesInv
<1> QED BY <1>1, MovesInvHolds, PTL

(* Neither add nor the destruction of a registry moves or destroys an      *)
(* object that is not there; the second destruction is remove's alone.     *)
THEOREM OnlyRemoveTouches == Spec => []OnlyRemoveTouchesDead
<1>1. MovesInv => OnlyRemoveTouchesDead
  BY DEF MovesInv
<1> QED BY <1>1, MovesInvHolds, PTL

(***************************************************************************)
(* The calls of ArrayCalls.                                                *)
(***************************************************************************)
(* Both specifications have the same operations of ByteArray.              *)
LEMMA SameOperations ==
  /\ ByCall!NewArray = NewArray
  /\ ByCall!Archetypes = Archetypes
  /\ ByCall!NoArrays = [c \in Components |-> NewArray]
  /\ \A a, n, v : ByCall!emplace_component(a, n, v) = emplace_component(a, n, v)
  /\ \A a, x, n : ByCall!move_out(a, x, n) = move_out(a, x, n)
  /\ \A a, x, n : ByCall!erase_component(a, x, n) = erase_component(a, x, n)
<1>1. /\ \A a, i, v : ByCall!construct(a, i, v) = construct(a, i, v)
      /\ \A a, i : ByCall!destroy_data(a, i) = destroy_data(a, i)
      /\ \A a, n, m : ByCall!resize(a, n, m) = resize(a, n, m)
      /\ \A a, n : ByCall!auto_allocate(a, n) = auto_allocate(a, n)
      /\ \A a, n : ByCall!auto_shrink(a, n) = auto_shrink(a, n)
      /\ \A a, x, n : ByCall!move_last_component(a, x, n)
                        = move_last_component(a, x, n)
  BY DEF ByCall!construct, construct, ByCall!destroy_data, destroy_data,
         ByCall!resize, resize, ByCall!auto_allocate, auto_allocate,
         ByCall!needs_space, needs_space, ByCall!double_allocation,
         double_allocation, ByCall!auto_shrink, auto_shrink,
         ByCall!needs_shrinking, needs_shrinking, ByCall!shrink_to_fit,
         shrink_to_fit, ByCall!move_last_component, move_last_component
<1>2. ByCall!NewArray = NewArray
  BY DEF ByCall!NewArray, NewArray
<1>3. ByCall!Archetypes = Archetypes
  BY DEF ByCall!Archetypes, Archetypes
<1> QED BY <1>1, <1>2, <1>3
        DEF ByCall!NoArrays, ByCall!emplace_component, emplace_component,
            ByCall!move_out, move_out, ByCall!erase_component, erase_component

(* What the end of a call changes in the arrays of archetypes.             *)
LEMMA ArraysAtTheEnd ==
  ASSUME MovesInv, RecountEntities
  PROVE  /\ ArraysBetweenCalls = [k \in Archetypes |-> ArraysBetweenCalls[k]]
         /\ ArraysBetweenCalls' = [k \in Archetypes |-> ArraysBetweenCalls'[k]]
         /\ \A k \in Archetypes :
              /\ ArraysBetweenCalls[k] = [c \in Components |->
                   IF c \in k THEN saved[<<k, c>>] ELSE NewArray]
              /\ ArraysBetweenCalls'[k] = [c \in Components |->
                   IF c \in k /\ Recounted(k) # 0 THEN blocks[<<k, c>>]
                                                  ELSE NewArray]
         /\ counts' = [k \in Archetypes |-> Recounted(k)]
         /\ Progress /\ CallOK /\ AllExact(saved)
         /\ phase = "next" /\ pending = {} /\ phase' = "idle"
         /\ counts \in [Archetypes -> Nat]
<1>1. /\ phase = "next" /\ pending = {} /\ phase' = "idle"
      /\ counts' = [k \in Archetypes |-> Recounted(k)]
      /\ blocks' = [a \in Blocks |->
           IF a # fresh /\ Recounted(a[1]) = 0 THEN NewArray ELSE blocks[a]]
  BY DEF RecountEntities, DeleteEmpty, Blocks
<1>2. /\ Progress /\ CallOK /\ AllExact(saved)
      /\ counts \in [Archetypes -> Nat]
  BY <1>1 DEF MovesInv, Busy, Progress, MovesTypeOK
<1>3. ArraysBetweenCalls = [k \in Archetypes |-> [c \in Components |->
        IF c \in k THEN saved[<<k, c>>] ELSE NewArray]]
  BY <1>1 DEF ArraysBetweenCalls
<1>4. ArraysBetweenCalls' = [k \in Archetypes |-> [c \in Components |->
        IF c \in k THEN blocks'[<<k, c>>] ELSE NewArray]]
  BY <1>1 DEF ArraysBetweenCalls
<1>5. ASSUME NEW k \in Archetypes, NEW c \in k
      PROVE  blocks'[<<k, c>>] = IF Recounted(k) = 0 THEN NewArray
                                                     ELSE blocks[<<k, c>>]
  <2>1. PICK a \in Arrays : a = <<k, c>>
    BY ArrayFacts DEF Archetypes
  <2>2. a \in Blocks /\ a # fresh /\ a[1] = k
    BY <2>1, ArrayFacts
  <2> QED BY <1>1, <2>1, <2>2
<1>6. ASSUME NEW k \in Archetypes
      PROVE  ArraysBetweenCalls'[k] = [c \in Components |->
               IF c \in k /\ Recounted(k) # 0 THEN blocks[<<k, c>>]
                                              ELSE NewArray]
  BY <1>4, <1>5
<1>7. \A k \in Archetypes : ArraysBetweenCalls[k] = [c \in Components |->
        IF c \in k THEN saved[<<k, c>>] ELSE NewArray]
  BY <1>3
<1>8. ArraysBetweenCalls = [k \in Archetypes |-> ArraysBetweenCalls[k]]
  BY <1>3
<1>9. ArraysBetweenCalls' = [k \in Archetypes |-> ArraysBetweenCalls'[k]]
  BY <1>4
<1> QED BY <1>1, <1>2, <1>6, <1>7, <1>8, <1>9

(* An archetype that the call is not about stays as it is.                 *)
LEMMA OtherArchetypesStay ==
  ASSUME MovesInv, RecountEntities, ~ Cleans,
         NEW k \in Archetypes, k # call.to, k # call.from
  PROVE  /\ ArraysBetweenCalls'[k] = ArraysBetweenCalls[k]
         /\ counts'[k] = counts[k]
<1>1. /\ Progress /\ CallOK /\ AllExact(saved)
      /\ phase = "next" /\ pending = {} /\ counts \in [Archetypes -> Nat]
      /\ ArraysBetweenCalls[k] = [c \in Components |->
           IF c \in k THEN saved[<<k, c>>] ELSE NewArray]
      /\ ArraysBetweenCalls'[k] = [c \in Components |->
           IF c \in k /\ Recounted(k) # 0 THEN blocks[<<k, c>>] ELSE NewArray]
      /\ counts'[k] = Recounted(k)
  BY ArraysAtTheEnd
<1>2. Recounted(k) = counts[k]
  BY <1>1, RecountedIs
<1>3. ASSUME NEW c \in k
      PROVE  /\ blocks[<<k, c>>] = saved[<<k, c>>]
             /\ counts[k] = 0 => saved[<<k, c>>] = NewArray
  <2>1. PICK a \in Arrays : a = <<k, c>>
    BY ArrayFacts DEF Archetypes
  <2>2. a[1] = k /\ Entities(a) = counts[k]
    BY <2>1 DEF Entities
  <2> QED BY <1>1, <2>1, <2>2, CallDone DEF AllExact
<1> QED BY <1>1, <1>2, <1>3

(* The end of ~registry is Clean.                                          *)
LEMMA EndOfClean ==
  ASSUME MovesInv, RecountEntities, Cleans
  PROVE  ByCall!Clean
<1>1. /\ counts' = [k \in Archetypes |-> Recounted(k)]
      /\ ArraysBetweenCalls' = [k \in Archetypes |-> ArraysBetweenCalls'[k]]
      /\ \A k \in Archetypes : ArraysBetweenCalls'[k] = [c \in Components |->
           IF c \in k /\ Recounted(k) # 0 THEN blocks[<<k, c>>] ELSE NewArray]
      /\ CallOK
  BY ArraysAtTheEnd
<1>2. \A k \in Archetypes : Recounted(k) = 0
  BY <1>1, RecountedIs
<1>3. \A k \in Archetypes : ArraysBetweenCalls'[k] = [c \in Components |-> NewArray]
  BY <1>1, <1>2
<1>4. ArraysBetweenCalls' = [k \in Archetypes |-> [c \in Components |-> NewArray]]
  BY <1>1, <1>3
<1>5. counts' = [k \in Archetypes |-> 0]
  BY <1>1, <1>2
<1> QED BY <1>4, <1>5, SameOperations DEF ByCall!Clean

(* The end of the remove of an entity's only component is RemoveOnly.      *)
LEMMA EndOfRemove ==
  ASSUME MovesInv, RecountEntities, Removes
  PROVE  \E c \in Components : \E x \in 0 .. counts[{c}] - 1 :
           ByCall!RemoveOnly(c, x)
<1> DEFINE AB == ArraysBetweenCalls
           c == call.id
           x == call.index
           k == {c}
           n == counts[k]
<1>1. /\ Progress /\ CallOK /\ AllExact(saved)
      /\ phase = "next" /\ pending = {} /\ counts \in [Archetypes -> Nat]
      /\ AB = [l \in Archetypes |-> AB[l]] /\ AB' = [l \in Archetypes |-> AB'[l]]
      /\ counts' = [l \in Archetypes |-> Recounted(l)]
  BY ArraysAtTheEnd
<1>2. ~ Adds /\ ~ Cleans
  BY DEF Adds, Removes, Cleans
<1>3. /\ c \in Components /\ k \in Archetypes /\ call.from = k /\ call.to = {}
      /\ x \in Nat /\ x < n /\ n \in Nat
  BY <1>1 DEF CallOK, Archetypes
<1>4. Recounted(k) = n - 1
  BY <1>1, <1>2, <1>3, RecountedIs
<1>5. /\ AB[k] = [d \in Components |-> IF d = c THEN saved[<<k, c>>] ELSE NewArray]
      /\ AB'[k] = [d \in Components |->
           IF d = c /\ n # 1 THEN blocks[<<k, c>>] ELSE NewArray]
  <2>1. \A d : d \in k <=> d = c
    OBVIOUS
  <2>2. n - 1 # 0 <=> n # 1
    BY <1>3
  <2>3. /\ AB[k] = [d \in Components |-> IF d \in k THEN saved[<<k, d>>] ELSE NewArray]
        /\ AB'[k] = [d \in Components |->
             IF d \in k /\ Recounted(k) # 0 THEN blocks[<<k, d>>] ELSE NewArray]
    BY <1>3, ArraysAtTheEnd
  <2> HIDE DEF AB, c, k, n
  <2> QED BY <1>4, <2>1, <2>2, <2>3
<1>6. blocks[<<k, c>>] = erase_component(saved[<<k, c>>], x, n)
  <2>1. PICK a \in Arrays : a = <<k, c>>
    BY <1>3, ArrayFacts DEF Archetypes
  <2>2. a[1] = call.from /\ Entities(a) = n
    BY <1>3, <2>1 DEF Entities
  <2> QED BY <1>1, <2>1, <2>2, CallDone
<1>7. \A l \in Archetypes : l # k => AB'[l] = AB[l] /\ counts'[l] = counts[l]
  <2>1. \A l \in Archetypes : l # {}
    BY DEF Archetypes
  <2> QED BY <1>2, <1>3, <2>1, OtherArchetypesStay
<1>8. AB'[k] = IF n = 1 THEN [d \in Components |-> NewArray]
               ELSE [d \in Components |->
                      IF d = c THEN erase_component(AB[k][d], x, n) ELSE AB[k][d]]
  <2> HIDE DEF AB, c, k, n, x
  <2> QED BY <1>3, <1>5, <1>6
<1>9. AB' = [AB EXCEPT ![k] =
        IF n = 1 THEN [d \in Components |-> NewArray]
        ELSE [d \in Components |->
               IF d = c THEN erase_component(AB[k][d], x, n) ELSE AB[k][d]]]
  <2> HIDE DEF AB, c, k, n, x
  <2> QED BY <1>1, <1>3, <1>7, <1>8
<1>10. counts' = [counts EXCEPT ![k] = @ - 1]
  <2> HIDE DEF AB, c, k, n, x
  <2> QED BY <1>1, <1>3, <1>4, <1>7 DEF n
<1>11. ByCall!RemoveOnly(c, x)
  BY <1>9, <1>10, SameOperations DEF ByCall!RemoveOnly, ByCall!Kept
<1>12. x \in 0 .. counts[{c}] - 1
  BY <1>3
<1> HIDE DEF c, x
<1> QED BY <1>3, <1>11, <1>12

(* An array of the archetype that an added entity goes to.                 *)
LEMMA AddedArrays ==
  ASSUME MovesInv, RecountEntities, Adds
  PROVE  /\ call.id \in Components /\ call.to \in Archetypes
         /\ call.id \in call.to /\ call.from = call.to \ {call.id}
         /\ call.from # {} => /\ call.from \in Archetypes
                              /\ call.index \in 0 .. counts[call.from] - 1
         /\ counts[call.to] \in Nat
         /\ counts'[call.to] = counts[call.to] + 1
         /\ \E v \in Objects : \A d \in call.to :
              ArraysBetweenCalls'[call.to][d] =
                emplace_component(ArraysBetweenCalls[call.to][d], counts[call.to],
                  IF d = call.id THEN v
                  ELSE ArraysBetweenCalls[call.from][d].data[call.index])
         /\ \A d \in Components \ call.to :
              ArraysBetweenCalls'[call.to][d] = ArraysBetweenCalls[call.to][d]
<1> DEFINE AB == ArraysBetweenCalls
           c == call.id
           x == call.index
           to == call.to
           from == call.from
           m == counts[to]
<1>1. /\ Progress /\ CallOK
      /\ phase = "next" /\ pending = {} /\ counts \in [Archetypes -> Nat]
      /\ counts' = [l \in Archetypes |-> Recounted(l)]
  BY ArraysAtTheEnd
<1>2. ~ Removes /\ ~ Cleans
  BY DEF Adds, Removes, Cleans
<1>3. /\ c \in Components /\ to \in Archetypes /\ c \in to /\ from = to \ {c}
      /\ x \in Nat
  BY <1>1 DEF CallOK, Archetypes
<1>4. from # {} => from \in Archetypes /\ x \in 0 .. counts[from] - 1
  <2>1. SUFFICES ASSUME from # {}
                 PROVE  from \in Archetypes /\ x \in 0 .. counts[from] - 1
    OBVIOUS
  <2>2. from \in Archetypes
    BY <1>3, <2>1 DEF Archetypes
  <2>3. x < counts[from] /\ counts[from] \in Nat
    BY <1>1, <2>1, <2>2 DEF CallOK
  <2> QED BY <1>3, <2>2, <2>3
<1>5. m \in Nat /\ counts'[to] = m + 1 /\ Recounted(to) = m + 1
  BY <1>1, <1>2, <1>3, RecountedIs
<1>6. \A d \in Components :
        /\ AB[to][d] = IF d \in to THEN saved[<<to, d>>] ELSE NewArray
        /\ AB'[to][d] = IF d \in to THEN blocks[<<to, d>>] ELSE NewArray
  <2>1. m + 1 # 0
    BY <1>5
  <2> QED BY <1>3, <1>5, <2>1, ArraysAtTheEnd
<1>7. \A d \in to : d # c => AB[from][d] = saved[<<from, d>>]
  <2> SUFFICES ASSUME NEW d \in to, d # c PROVE AB[from][d] = saved[<<from, d>>]
    OBVIOUS
  <2>1. d \in from /\ from \in Archetypes /\ d \in Components
    BY <1>3 DEF Archetypes
  <2> QED BY <2>1, ArraysAtTheEnd
<1>8. \A d \in to : \E a \in Arrays : a = <<to, d>> /\ a[1] = to /\ a[2] = d
                                       /\ Entities(a) = m
  <2> SUFFICES ASSUME NEW d \in to
               PROVE  \E a \in Arrays : /\ a = <<to, d>> /\ a[1] = to /\ a[2] = d
                                        /\ Entities(a) = m
    OBVIOUS
  <2>1. PICK a \in Arrays : a = <<to, d>>
    BY <1>3, ArrayFacts DEF Archetypes
  <2> QED BY <2>1 DEF Entities
<1>9. PICK v \in Objects :
        blocks[<<to, c>>] = emplace_component(saved[<<to, c>>], m, v)
  BY <1>1, <1>3, <1>8, CallDone
<1>10. ASSUME NEW d \in to, d # c
       PROVE  blocks[<<to, d>>] =
                emplace_component(saved[<<to, d>>], m, saved[<<from, d>>].data[x])
  <2>1. PICK a \in Arrays : a = <<to, d>> /\ a[1] = to /\ a[2] = d /\ Entities(a) = m
    BY <1>8
  <2>2. Incoming(a) = saved[<<from, d>>].data[x]
    BY <2>1 DEF Incoming, Partner
  <2>3. blocks[a] = emplace_component(saved[a], Entities(a), Incoming(a))
    BY <1>1, <1>10, <2>1, CallDone
  <2> QED BY <2>1, <2>2, <2>3
<1>11. \A d \in to : AB'[to][d] = emplace_component(AB[to][d], m,
         IF d = c THEN v ELSE AB[from][d].data[x])
  <2> SUFFICES ASSUME NEW d \in to
               PROVE  AB'[to][d] = emplace_component(AB[to][d], m,
                        IF d = c THEN v ELSE AB[from][d].data[x])
    OBVIOUS
  <2>1. /\ d \in Components /\ AB'[to][d] = blocks[<<to, d>>]
        /\ AB[to][d] = saved[<<to, d>>]
    BY <1>3, <1>6 DEF Archetypes
  <2> HIDE DEF AB, c, x, to, from, m
  <2>2. CASE d = c
    BY <1>9, <2>1, <2>2
  <2>3. CASE d # c
    BY <1>7, <1>10, <2>1, <2>3
  <2> QED BY <2>2, <2>3
<1>12. \A d \in Components \ to : AB'[to][d] = AB[to][d]
  <2> HIDE DEF AB, c, x, to, from, m
  <2> QED BY <1>6
<1> QED BY <1>3, <1>4, <1>5, <1>11, <1>12

(* The end of an entity's first add is AddFirst.                           *)
LEMMA EndOfAddFirst ==
  ASSUME MovesInv, RecountEntities, Adds, call.from = {}
  PROVE  \E c \in Components, v \in Objects : ByCall!AddFirst(c, v)
<1> DEFINE AB == ArraysBetweenCalls
           c == call.id
           k == {c}
<1>1. /\ c \in Components /\ call.to = k /\ k \in Archetypes
      /\ counts'[k] = counts[k] + 1
      /\ \A d \in Components \ k : AB'[k][d] = AB[k][d]
  <2>1. call.to = k /\ c \in Components
    BY AddedArrays
  <2> HIDE DEF AB, c, k
  <2> QED BY <2>1, AddedArrays DEF AB
<1>2. PICK v \in Objects : AB'[k][c] = emplace_component(AB[k][c], counts[k], v)
  <2>1. PICK v \in Objects : \A d \in call.to : AB'[call.to][d] =
          emplace_component(AB[call.to][d], counts[call.to],
            IF d = c THEN v ELSE AB[call.from][d].data[call.index])
    BY AddedArrays
  <2>2. c \in k
    OBVIOUS
  <2> HIDE DEF AB, c, k
  <2> QED BY <1>1, <2>1, <2>2
<1>3. \A l \in Archetypes : l # k => AB'[l] = AB[l] /\ counts'[l] = counts[l]
  <2>1. ~ Cleans /\ \A l \in Archetypes : l # {}
    BY DEF Adds, Cleans, Archetypes
  <2> QED BY <1>1, <2>1, OtherArchetypesStay
<1>4. /\ AB = [l \in Archetypes |-> AB[l]] /\ AB' = [l \in Archetypes |-> AB'[l]]
      /\ counts \in [Archetypes -> Nat]
      /\ counts' = [l \in Archetypes |-> counts'[l]]
      /\ AB[k] = [d \in Components |-> AB[k][d]]
      /\ AB'[k] = [d \in Components |-> AB'[k][d]]
  BY <1>1, ArraysAtTheEnd
<1>5. AB' = [AB EXCEPT ![k][c] = emplace_component(@, counts[k], v)]
  <2> HIDE DEF AB, c, k
  <2>1. AB'[k] = [AB[k] EXCEPT ![c] = emplace_component(AB[k][c], counts[k], v)]
    BY <1>1, <1>2, <1>4 DEF k
  <2> QED BY <1>1, <1>3, <1>4, <2>1
<1>6. counts' = [counts EXCEPT ![k] = @ + 1]
  <2> HIDE DEF AB, c, k
  <2> QED BY <1>1, <1>3, <1>4
<1>7. ByCall!AddFirst(c, v)
  BY <1>5, <1>6, SameOperations DEF ByCall!AddFirst
<1> HIDE DEF c
<1> QED BY <1>1, <1>7

(* The end of a further add is AddNext.                                    *)
LEMMA EndOfAddNext ==
  ASSUME MovesInv, RecountEntities, Adds, call.from # {}
  PROVE  \E k \in Archetypes : \E c \in Components \ k, v \in Objects,
           x \in 0 .. counts[k] - 1 : ByCall!AddNext(k, c, x, v)
<1> DEFINE AB == ArraysBetweenCalls
           c == call.id
           x == call.index
           k == call.from
           new == k \cup {c}
           m == counts[new]
           n == counts[k]
<1>1. /\ c \in Components \ k /\ call.to = new /\ new \in Archetypes
      /\ k \in Archetypes /\ k # new /\ k \subseteq Components
      /\ x \in 0 .. n - 1
      /\ counts'[new] = m + 1
      /\ \A d \in Components \ new : AB'[new][d] = AB[new][d]
  <2>1. call.to = new
    BY AddedArrays
  <2> QED BY <2>1, AddedArrays DEF Archetypes
<1>2. PICK v \in Objects : \A d \in new : AB'[new][d] =
        emplace_component(AB[new][d], m, IF d = c THEN v ELSE AB[k][d].data[x])
  <2>1. PICK v \in Objects : \A d \in call.to : AB'[call.to][d] =
          emplace_component(AB[call.to][d], counts[call.to],
            IF d = c THEN v ELSE AB[k][d].data[x])
    BY AddedArrays
  <2>2. m = counts[call.to]
    BY <1>1
  <2> HIDE DEF AB, c, x, k, new, m, n
  <2> QED BY <1>1, <2>1, <2>2
<1>3. ~ Cleans
  BY DEF Adds, Cleans
<1>4. \A l \in Archetypes : l # k /\ l # new =>
        AB'[l] = AB[l] /\ counts'[l] = counts[l]
  BY <1>1, <1>3, OtherArchetypesStay
<1>5. /\ AB = [l \in Archetypes |-> AB[l]] /\ AB' = [l \in Archetypes |-> AB'[l]]
      /\ counts \in [Archetypes -> Nat]
      /\ counts' = [l \in Archetypes |-> counts'[l]]
      /\ AB[new] = [d \in Components |-> AB[new][d]]
      /\ AB'[new] = [d \in Components |-> AB'[new][d]]
      /\ AB[k] = [d \in Components |-> IF d \in k THEN saved[<<k, d>>] ELSE NewArray]
      /\ AB'[k] = [d \in Components |->
           IF d \in k /\ Recounted(k) # 0 THEN blocks[<<k, d>>] ELSE NewArray]
      /\ counts'[k] = Recounted(k)
      /\ Progress /\ CallOK /\ phase = "next" /\ pending = {}
  BY <1>1, ArraysAtTheEnd
<1>6. Recounted(k) = n - 1 /\ n \in Nat
  BY <1>1, <1>3, <1>5, RecountedIs
<1>7. \A d \in k : blocks[<<k, d>>] = move_out(saved[<<k, d>>], x, n)
  <2> SUFFICES ASSUME NEW d \in k
               PROVE  blocks[<<k, d>>] = move_out(saved[<<k, d>>], x, n)
    OBVIOUS
  <2>1. PICK a \in Arrays : a = <<k, d>>
    BY <1>1, ArrayFacts
  <2>2. a[1] = k /\ Entities(a) = n
    BY <2>1 DEF Entities
  <2> QED BY <1>5, <2>1, <2>2, CallDone
<1> DEFINE Left == [d \in Components |->
                      IF d \in k THEN move_out(AB[k][d], x, n) ELSE AB[k][d]]
           Gone == [d \in Components |-> NewArray]
           Come == [d \in Components |->
                      IF d = c THEN emplace_component(AB[new][d], m, v)
                      ELSE IF d \in k
                      THEN emplace_component(AB[new][d], m, AB[k][d].data[x])
                      ELSE AB[new][d]]
<1>8. AB'[k] = IF n = 1 THEN Gone ELSE Left
  <2> HIDE DEF AB, c, x, k, new, m, n
  <2>1. Recounted(k) # 0 <=> n # 1
    BY <1>6
  <2>2. \A d \in k : AB[k][d] = saved[<<k, d>>]
    BY <1>1, <1>5
  <2>3. CASE n = 1
    BY <1>5, <2>1, <2>3
  <2>4. CASE n # 1
    BY <1>1, <1>5, <1>7, <2>1, <2>2, <2>4
  <2> QED BY <2>3, <2>4
<1>9. AB'[new] = Come
  <2> HIDE DEF AB, c, x, k, m, n
  <2>1. \A d \in Components : AB'[new][d] = Come[d]
    BY <1>1, <1>2
  <2> HIDE DEF new
  <2> QED BY <1>5, <2>1
<1>10. AB' = [AB EXCEPT ![k] = IF n = 1 THEN Gone ELSE Left, ![new] = Come]
  <2> HIDE DEF AB, c, x, k, new, m, n, Gone, Left, Come
  <2> QED BY <1>1, <1>4, <1>5, <1>8, <1>9
<1>11. counts' = [counts EXCEPT ![k] = n - 1, ![new] = m + 1]
  <2> HIDE DEF AB, c, x, k, new, m, n
  <2> QED BY <1>1, <1>4, <1>5, <1>6
<1>12. ByCall!AddNext(k, c, x, v)
  BY <1>1, <1>10, <1>11, SameOperations DEF ByCall!AddNext, ByCall!Kept
<1> HIDE DEF c, x, k
<1> QED BY <1>1, <1>12

(* Before the first call there are no arrays.                              *)
LEMMA InitOfCalls == Init => ByCall!Init
<1> SUFFICES ASSUME Init PROVE ByCall!Init
  OBVIOUS
<1>1. /\ counts = [k \in Archetypes |-> 0] /\ phase = "idle"
      /\ blocks = [c \in Blocks |-> NewArray]
  BY DEF Init, NoBlocks, Blocks
<1>2. \A k \in Archetypes : \A c \in k : <<k, c>> \in Blocks
  BY ArrayFacts DEF Archetypes
<1>3. ArraysBetweenCalls = [k \in Archetypes |-> [c \in Components |-> NewArray]]
  BY <1>1, <1>2 DEF ArraysBetweenCalls
<1> QED BY <1>1, <1>3, SameOperations DEF ByCall!Init

(* The end of a call is the call of ArrayCalls.                            *)
LEMMA EndOfCall ==
  ASSUME MovesInv, RecountEntities
  PROVE  ByCall!Next
<1>1. phase = "next" /\ phase' = "idle" /\ CallOK
  BY ArraysAtTheEnd
<1>2. CASE Adds /\ call.from = {}
  BY <1>1, <1>2, EndOfAddFirst DEF ByCall!Next
<1>3. CASE Adds /\ call.from # {}
  BY <1>1, <1>3, EndOfAddNext, SameOperations DEF ByCall!Next
<1>4. CASE Removes
  BY <1>1, <1>4, EndOfRemove DEF ByCall!Next
<1>5. CASE Cleans
  BY <1>1, <1>5, EndOfClean DEF ByCall!Next
<1> QED BY <1>1, <1>2, <1>3, <1>4, <1>5 DEF CallOK, Adds, Removes, Cleans

(* The steps of a call before its end are none of ArrayCalls.              *)
LEMMA CallGoesOn ==
  ASSUME counts' = counts,
         \/ phase = "idle" /\ phase' = "next" /\ saved' = blocks
         \/ /\ phase \notin {"idle", "thrown"} /\ phase' \notin {"idle", "thrown"}
            /\ saved' = saved
  PROVE  UNCHANGED ByCall!vars
<1>1. ArraysBetweenCalls' = ArraysBetweenCalls
  BY DEF ArraysBetweenCalls
<1>2. (phase = "thrown")' = (phase = "thrown")
  OBVIOUS
<1> QED BY <1>1, <1>2 DEF ByCall!vars

(* Each step ends a call as ArrayCalls has it, throws, or goes on.         *)
LEMMA StepsOfCalls == MovesInv /\ [Next]_vars => [ByCall!Next]_(ByCall!vars)
<1> SUFFICES ASSUME MovesInv, [Next]_vars
             PROVE  ByCall!Next \/ UNCHANGED ByCall!vars
  OBVIOUS
<1>1. CASE \/ \E c \in Components : AddFirst(c)
           \/ \E k \in Archetypes : \E c \in Components \ k,
                 x \in 0 .. counts[k] - 1 : AddNext(k, c, x)
           \/ \E c \in Components : \E x \in 0 .. counts[{c}] - 1 :
                 RemoveOnly(c, x)
           \/ Clean
  <2>1. /\ counts' = counts
        /\ phase = "idle" /\ phase' = "next" /\ saved' = blocks
    BY <1>1 DEF AddFirst, AddNext, RemoveOnly, Clean, Called
  <2> QED BY <2>1, CallGoesOn
<1>2. CASE \E a \in Arrays : TakeArray(a)
  <2>1. PICK a \in Arrays : TakeArray(a)
    BY <1>2
  <2>2. /\ phase = "next" /\ counts' = counts /\ saved' = saved
        /\ phase' = CASE call.name = "add" -> AutoAllocate(a)
                      [] call.name = "remove" -> "erase"
                      [] call.name = "clean" -> "clean"
    BY <2>1 DEF TakeArray
  <2>3. call.name \in {"add", "remove", "clean"}
    BY <2>2 DEF MovesInv, Busy, Progress, CallOK
  <2>4. phase' \notin {"idle", "thrown"}
    BY <2>2, <2>3 DEF AutoAllocate, Placing
  <2> QED BY <2>2, <2>4, CallGoesOn
<1>3. CASE \/ EraseComponent
           \/ AllocateBlock \/ RefillBlock \/ LeaveBlock \/ InstallBlock
           \/ ConstructData \/ MoveComponent \/ LeaveSlot
           \/ FillSlot \/ LeaveLast \/ CleanSlot \/ FreeArray
  <2>1. /\ phase \notin {"idle", "thrown"} /\ phase' \notin {"idle", "thrown"}
        /\ counts' = counts
    BY <1>3 DEF EraseComponent, AllocateBlock, RefillBlock, LeaveBlock,
                InstallBlock, ConstructData, MoveComponent, LeaveSlot, FillSlot,
                LeaveLast, CleanSlot, FreeArray, MoveData, DestroyData,
                AutoShrink, Refilling, Filling, Placing, Cleaning
  <2>2. UNCHANGED control
    BY <1>3 DEF EraseComponent, AllocateBlock, RefillBlock, LeaveBlock,
                InstallBlock, ConstructData, MoveComponent, LeaveSlot, FillSlot,
                LeaveLast, CleanSlot, FreeArray, MoveData, DestroyData
  <2>3. saved' = saved
    BY <2>2 DEF control
  <2> QED BY <2>1, <2>3, CallGoesOn
<1>4. CASE RecountEntities
  BY <1>4, EndOfCall
<1>5. CASE Throw \/ ThrowPushingBack
  <2>1. /\ phase \notin {"idle", "thrown"} /\ phase' = "thrown"
        /\ saved' = saved
    BY <1>5 DEF Throw, ThrowPushingBack, control
  <2>2. ArraysBetweenCalls' = ArraysBetweenCalls
    BY <2>1 DEF ArraysBetweenCalls
  <2>3. counts' \in [ByCall!Archetypes -> Nat]
    <3>1. CASE Throw
      BY <3>1, SameOperations DEF Throw, MovesInv, MovesTypeOK
    <3>2. CASE ThrowPushingBack
      BY <3>2, ThrowPushingBackKeeps, SameOperations
    <3> QED BY <1>5, <3>1, <3>2
  <2> QED BY <2>1, <2>2, <2>3 DEF ByCall!Next
<1>6. CASE UNCHANGED vars
  <2>1. /\ counts' = counts /\ blocks' = blocks /\ saved' = saved
        /\ phase' = phase
    BY <1>6 DEF vars, memory, control
  <2> QED BY <2>1 DEF ByCall!vars, ArraysBetweenCalls
<1> QED BY <1>1, <1>2, <1>3, <1>4, <1>5, <1>6 DEF Next

(* Up to the first exception the single moves, constructions and           *)
(* destructions of each call come to the operations of ByteArray on whole  *)
(* arrays, those that the model of the registry is made of.                *)
THEOREM MovesImplementCalls == Spec => ImplementsArrayCalls
BY InitOfCalls, StepsOfCalls, MovesInvHolds, PTL
   DEF Spec, ImplementsArrayCalls, ByCall!Spec

===============================================================================

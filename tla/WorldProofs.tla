------------------------------ MODULE WorldProofs ------------------------------
(***************************************************************************)
(* What clients find through records and views.  For clients whose calls   *)
(* keep components in their slots the registry implements the abstract     *)
(* world of EntityComponents, and a call touches one entity only.  For     *)
(* clients whose calls keep records right, a walk is shown each entity     *)
(* that matches, and none twice as long as the keys mirror the table.      *)
(***************************************************************************)
EXTENDS Views, RegistryProofs

(***************************************************************************)
(* The components of an entity, as a function of index, entities and       *)
(* arrays, so that those before a call, in the middle of it and after it   *)
(* are compared.                                                           *)
(***************************************************************************)
At(arrays, k, i) == [c \in k.signature |-> arrays[k][c].data[i]]

None == [c \in {} |-> raw]

InSlot(index, ents, f, k, i) ==
  /\ f \in DOMAIN index
  /\ index[f].entity_archetype = k
  /\ index[f].index = i
  /\ k \in Keys
  /\ i \in Nat
  /\ i < Len(ents[k])

StoredIn(index, ents, arrays, f) ==
  IF /\ f \in DOMAIN index
     /\ index[f].entity_archetype \in Keys
     /\ index[f].index < Len(ents[index[f].entity_archetype])
  THEN At(arrays, index[f].entity_archetype, index[f].index)
  ELSE None

(* Stored is this function of the variables, before and after a step.      *)
LEMMA StoredIsStoredIn ==
  ASSUME NEW f
  PROVE  /\ Stored(f) = StoredIn(entity_index, entities, byte_arrays, f)
         /\ Stored(f)' = StoredIn(entity_index', entities', byte_arrays', f)
<1>1. Stored(f) = StoredIn(entity_index, entities, byte_arrays, f)
  BY DEF Stored, StoredIn, HasSlot, HasArchetype, Size, At, None
<1>2. Stored(f)' = StoredIn(entity_index', entities', byte_arrays', f)
  BY DEF Stored, StoredIn, HasSlot, HasArchetype, Size, At, None
<1> QED BY <1>1, <1>2

(* What is read through a record that names a slot.                        *)
LEMMA ReadsSlot ==
  ASSUME NEW index, NEW ents, NEW arrays, NEW f, NEW k, NEW i,
         InSlot(index, ents, f, k, i)
  PROVE  StoredIn(index, ents, arrays, f) = At(arrays, k, i)
BY DEF InSlot, StoredIn

(* Nothing is read through a record without an archetype.                  *)
LEMMA ReadsNone ==
  ASSUME NEW index, NEW ents, NEW arrays, NEW f,
         index[f].entity_archetype = nullptr
  PROVE  StoredIn(index, ents, arrays, f) = None
BY PointerAssumption DEF StoredIn

(* A record that is right has no archetype or names the entity's slot.     *)
LEMMA RightRecord ==
  ASSUME NEW index, NEW ents, NEW T, NEW transit, Agree(index, ents, T, transit),
         NEW f \in DOMAIN index \ transit
  PROVE  \/ index[f].entity_archetype = nullptr
         \/ \E k \in Keys, i \in Nat : /\ InSlot(index, ents, f, k, i)
                                       /\ ents[k][i + 1] = f
<1>1. index[f].index \in Nat
  BY DEF Agree, IsIndex, Records
<1> QED BY <1>1 DEF Agree, RecordsRight, InSlot

(* The components of a slot are read alike from arrays that agree on it.   *)
LEMMA SameAt ==
  ASSUME NEW arrays, NEW arrays2, NEW k, NEW i, NEW j,
         \A c \in k.signature : arrays2[k][c].data[j] = arrays[k][c].data[i]
  PROVE  At(arrays2, k, j) = At(arrays, k, i)
BY DEF At

(* An entity enters the entities of k behind the last slot.                *)
Entered(ents, ents2, k, e) == ents2 = [ents EXCEPT ![k] = Append(@, e)]

(* The arrays of k keep what they have in the first n slots.               *)
KeptBelow(arrays, arrays2, k, n) ==
  /\ \A l \in Keys : l # k => arrays2[l] = arrays[l]
  /\ \A c \in k.signature : \A i \in 0 .. n - 1 :
       arrays2[k][c].data[i] = arrays[k][c].data[i]

(* Then the other entities keep the components they have.                  *)
LEMMA EnteringKeeps ==
  ASSUME NEW index, NEW ents, NEW T, NEW e, Agree(index, ents, T, {e}),
         NEW k \in Keys, NEW ents2, Entered(ents, ents2, k, e),
         NEW arrays, NEW arrays2, KeptBelow(arrays, arrays2, k, Len(ents[k])),
         NEW f \in DOMAIN index, f # e,
         NEW index2, f \in DOMAIN index2, index2[f] = index[f]
  PROVE  StoredIn(index2, ents2, arrays2, f) = StoredIn(index, ents, arrays, f)
<1>1. CASE index[f].entity_archetype = nullptr
  BY <1>1, ReadsNone
<1>2. ASSUME NEW l \in Keys, NEW i \in Nat, InSlot(index, ents, f, l, i)
      PROVE  StoredIn(index2, ents2, arrays2, f) = StoredIn(index, ents, arrays, f)
  <2>1. ents \in [Keys -> Seq(Entities)] /\ i < Len(ents[l])
    BY <1>2 DEF Agree, InSlot
  <2>2. i < Len(ents2[l])
    <3>1. ents[k] \in Seq(Entities) /\ Len(ents[k]) \in Nat
      BY <2>1
    <3>2. Len(Append(ents[k], e)) = Len(ents[k]) + 1
      BY <3>1
    <3>3. ents2[l] = IF l = k THEN Append(ents[k], e) ELSE ents[l]
      BY <2>1 DEF Entered
    <3> QED BY <2>1, <3>1, <3>2, <3>3
  <2>3. InSlot(index2, ents2, f, l, i)
    BY <1>2, <2>2 DEF InSlot
  <2>4. \A c \in l.signature : arrays2[l][c].data[i] = arrays[l][c].data[i]
    <3>1. CASE l = k
      <4>1. i \in 0 .. Len(ents[k]) - 1
        BY <2>1, <3>1
      <4> QED BY <3>1, <4>1 DEF KeptBelow
    <3>2. CASE l # k
      BY <3>2 DEF KeptBelow
    <3> QED BY <3>1, <3>2
  <2>5. At(arrays2, l, i) = At(arrays, l, i)
    BY <2>4, SameAt
  <2> QED BY <1>2, <2>3, <2>5, ReadsSlot
<1> QED BY <1>1, <1>2, RightRecord

(* The last slot of each array of k fills the hole in slot x, unless it is *)
(* the only one, and the rest stays as it is.                              *)
HoleFilled(arrays2, k, x) ==
  /\ \A l \in Keys : l # k => arrays2[l] = byte_arrays[l]
  /\ Size(k) # 1 =>
       \A c \in k.signature : \A i \in 0 .. Size(k) - 2 :
         arrays2[k][c].data[i] =
           IF i = x THEN byte_arrays[k][c].data[Size(k) - 1]
                    ELSE byte_arrays[k][c].data[i]

(* When an entity leaves slot x of k the others keep what they have.       *)
LEMMA LeavingKeeps ==
  ASSUME IInv, Agreeing, NEW e \in DOMAIN entity_index, HasSlot(e),
         NEW k, k = entity_index[e].entity_archetype,
         NEW x, x = entity_index[e].index,
         NEW f \in DOMAIN entity_index, f # e,
         NEW arrays2, HoleFilled(arrays2, k, x)
  PROVE  StoredIn(Vacated(k, x), [entities EXCEPT ![k] = WithoutSlot(@, x)],
                  arrays2, f)
           = StoredIn(entity_index, entities, byte_arrays, f)
<1> DEFINE n == Len(entities[k])
           last == entities[k][n]
           after == Vacated(k, x)
           ents2 == [entities EXCEPT ![k] = WithoutSlot(@, x)]
<1>1. /\ k \in Keys /\ x \in Nat /\ n \in Nat \ {0} /\ x < n /\ Size(k) = n
      /\ entities[k] \in Seq(Entities)
      /\ entity_index[last].entity_archetype = k
      /\ entity_index[last].index = n - 1
  BY SlotOwner
<1>2. /\ entity_index[f].entity_archetype = k =>
           /\ entity_index[f].index \in 0 .. n - 1
           /\ entities[k][entity_index[f].index + 1] = f
           /\ entity_index[f].index # x /\ n # 1
      /\ x + 1 # n /\ f = last =>
           after[f].entity_archetype = k /\ after[f].index = x
      /\ f # last => after[f] = entity_index[f]
      /\ x + 1 = n => f # last
  BY OthersWhenVacated
<1>3. DOMAIN after = DOMAIN entity_index
  <2>1. IsIndex(entity_index)
    BY DEF IInv
  <2>2. k \in Keys /\ x \in Nat
    BY <1>1
  <2> QED BY <2>1, <2>2, VacatedIsIndex
<1>4. Len(WithoutSlot(entities[k], x)) = n - 1
  BY <1>1, WithoutSlotFacts
<1>5. /\ ents2[k] = WithoutSlot(entities[k], x)
      /\ \A l \in Keys : l # k => ents2[l] = entities[l]
  BY <1>1 DEF IInv, StoreFits, IsStore
<1> HIDE DEF after, ents2
<1>6. CASE entity_index[f].entity_archetype = nullptr
  <2>1. f # last
    BY <1>1, <1>6, PointerAssumption
  <2> QED BY <1>2, <1>6, <2>1, ReadsNone DEF after, ents2
<1>7. ASSUME NEW l \in Keys, NEW i \in Nat,
             InSlot(entity_index, entities, f, l, i), l # k
      PROVE  StoredIn(after, ents2, arrays2, f)
               = StoredIn(entity_index, entities, byte_arrays, f)
  <2>1. f # last
    BY <1>1, <1>7 DEF InSlot
  <2>2. InSlot(after, ents2, f, l, i)
    BY <1>2, <1>3, <1>5, <1>7, <2>1 DEF InSlot
  <2>3. At(arrays2, l, i) = At(byte_arrays, l, i)
    BY <1>7 DEF At, HoleFilled
  <2> QED BY <1>7, <2>2, <2>3, ReadsSlot
<1>8. ASSUME NEW i \in Nat, InSlot(entity_index, entities, f, k, i)
      PROVE  StoredIn(after, ents2, arrays2, f)
               = StoredIn(entity_index, entities, byte_arrays, f)
  <2> HIDE DEF n, last
  <2>1. /\ i \in 0 .. n - 1 /\ i # x /\ n # 1
        /\ entities[k][i + 1] = f
        /\ entity_index[f].entity_archetype = k /\ entity_index[f].index = i
    BY <1>2, <1>8 DEF InSlot
  <2>2. CASE f = last
    <3>1. i = n - 1 /\ x + 1 # n
      BY <1>1, <1>2, <2>1, <2>2
    <3>2. x \in 0 .. n - 2 /\ x < n - 1
      <4>1. x \in Nat /\ n \in Nat \ {0} /\ x < n
        BY <1>1
      <4> QED BY <3>1, <4>1
    <3>3. InSlot(after, ents2, f, k, x)
      <4>1. after[f].entity_archetype = k /\ after[f].index = x
        BY <1>2, <2>2, <3>1
      <4>2. Len(ents2[k]) = n - 1
        BY <1>4, <1>5
      <4>3. k \in Keys /\ x \in Nat
        BY <1>1
      <4> QED BY <1>3, <3>2, <4>1, <4>2, <4>3 DEF InSlot
    <3>4. At(arrays2, k, x) = At(byte_arrays, k, i)
      <4>1. ASSUME NEW c \in k.signature
            PROVE  arrays2[k][c].data[x] = byte_arrays[k][c].data[i]
        BY <1>1, <2>1, <3>1, <3>2 DEF HoleFilled
      <4> QED BY <4>1, SameAt
    <3> QED BY <1>8, <3>3, <3>4, ReadsSlot
  <2>3. CASE f # last
    <3>1. i # n - 1
      <4>1. n - 1 + 1 = n
        BY <1>1
      <4> QED BY <2>1, <2>3, <4>1 DEF last
    <3>2. i \in 0 .. n - 2 /\ i < n - 1
      BY <1>1, <2>1, <3>1
    <3>3. InSlot(after, ents2, f, k, i)
      <4>1. after[f] = entity_index[f]
        BY <1>2, <2>3
      <4>2. Len(ents2[k]) = n - 1
        BY <1>4, <1>5
      <4>3. k \in Keys
        BY <1>1
      <4> QED BY <1>3, <2>1, <3>2, <4>1, <4>2, <4>3 DEF InSlot
    <3>4. At(arrays2, k, i) = At(byte_arrays, k, i)
      <4>1. ASSUME NEW c \in k.signature
            PROVE  arrays2[k][c].data[i] = byte_arrays[k][c].data[i]
        BY <1>1, <2>1, <3>2 DEF HoleFilled
      <4> QED BY <4>1, SameAt
    <3> QED BY <1>8, <3>3, <3>4, ReadsSlot
  <2> QED BY <2>2, <2>3
<1>9. \/ entity_index[f].entity_archetype = nullptr
      \/ \E l \in Keys, i \in Nat : InSlot(entity_index, entities, f, l, i)
  BY RightRecord DEF Agreeing
<1> QED BY <1>6, <1>7, <1>8, <1>9 DEF after, ents2

(* The record of the entity that enters k names its slot.                  *)
LEMMA EnteringStores ==
  ASSUME NEW index, NEW ents, NEW T, NEW e \in DOMAIN index,
         Agree(index, ents, T, {e}),
         NEW k \in Keys, NEW ents2, Entered(ents, ents2, k, e),
         NEW index2, index2 = Placed(index, e, k, Len(ents[k]))
  PROVE  /\ InSlot(index2, ents2, e, k, Len(ents[k]))
         /\ DOMAIN index2 = DOMAIN index
         /\ \A f \in DOMAIN index \ {e} : index2[f] = index[f]
         /\ index2[e].chunk_id = index[e].chunk_id
<1> DEFINE n == Len(ents[k])
<1>1. /\ DOMAIN index2 = DOMAIN index
      /\ \A f \in DOMAIN index \ {e} : index2[f] = index[f]
      /\ index2[e] = [entity_archetype |-> k, index |-> n,
                      chunk_id |-> index[e].chunk_id]
  BY DEF Placed
<1>2. /\ ents[k] \in Seq(Entities) /\ n \in Nat
      /\ ents2[k] = Append(ents[k], e)
      /\ Len(Append(ents[k], e)) = n + 1
  BY DEF Agree, Entered
<1> HIDE DEF n
<1>3. InSlot(index2, ents2, e, k, n)
  BY <1>1, <1>2 DEF InSlot
<1> QED BY <1>1, <1>3 DEF n

(* What emplace_component leaves in the arrays of an archetype.            *)
LEMMA EmplacedArrays ==
  ASSUME IInv, NEW k \in Keys, NEW c \in k.signature, NEW v, NEW a,
         a = emplace_component(byte_arrays[k][c], Size(k), v)
  PROVE  /\ a.data[Size(k)] = v
         /\ \A i \in 0 .. Size(k) - 1 :
              a.data[i] = byte_arrays[k][c].data[i]
<1>1. /\ c \in Components /\ Size(k) \in Nat
      /\ IsByteArray(byte_arrays[k][c], Values)
      /\ Size(k) <= byte_arrays[k][c].size
  BY DEF IInv, StoreFits, IsStore, Fit, Size, Keys
<1> QED BY <1>1, EmplaceContents

-------------------------------------------------------------------------------
(* What calls do to the chunk and the components of entities.              *)

Kept(f) ==
  /\ f \in DOMAIN entity_index'
  /\ entity_index'[f].chunk_id = entity_index[f].chunk_id
  /\ Stored(f)' = Stored(f)

Created(e, chunk, vals) ==
  /\ e \notin DOMAIN entity_index
  /\ DOMAIN entity_index' = DOMAIN entity_index \cup {e}
  /\ entity_index'[e].chunk_id = chunk
  /\ Stored(e)' = vals
  /\ \A f \in DOMAIN entity_index : Kept(f)

Assigned(e, c, v) ==
  /\ DOMAIN entity_index' = DOMAIN entity_index
  /\ entity_index'[e].chunk_id = entity_index[e].chunk_id
  /\ Stored(e)' = [d \in DOMAIN Stored(e) \cup {c} |->
                     IF d = c THEN v ELSE Stored(e)[d]]
  /\ \A f \in DOMAIN entity_index \ {e} : Kept(f)

AllKept ==
  /\ DOMAIN entity_index' = DOMAIN entity_index
  /\ \A f \in DOMAIN entity_index : Kept(f)

(* An entity whose record and archetype stay as they are is kept.          *)
LEMMA SameRecord ==
  ASSUME NEW f \in DOMAIN entity_index, f \in DOMAIN entity_index',
         entity_index'[f] = entity_index[f],
         UNCHANGED <<entities, byte_arrays>>
  PROVE  Kept(f)
BY StoredIsStoredIn DEF Kept, StoredIn

(* A call that changes no record, slot or object keeps all.                *)
LEMMA AllTheSame ==
  ASSUME UNCHANGED <<entity_index, entities, byte_arrays>>
  PROVE  AllKept
BY SameRecord DEF AllKept

(* create(chunk).                                                          *)
LEMMA CreateCreates ==
  ASSUME IInv, Right, NEW chunk \in Chunks, Create(chunk)
  PROVE  \E e \in Entities : Created(e, chunk, None)
<1>1. PICK e \in Entities : /\ Dispenser!Get(e)
                           /\ entity_index' = Emplaced(e, chunk)
  BY DEF Create
<1>2. UNCHANGED <<entities, byte_arrays>>
  BY DEF Create, storeVars
<1>3. e \notin DOMAIN entity_index
  BY <1>1, FreshId DEF Right
<1>4. /\ DOMAIN entity_index' = DOMAIN entity_index \cup {e}
      /\ \A f \in DOMAIN entity_index : entity_index'[f] = entity_index[f]
      /\ entity_index'[e].entity_archetype = nullptr
      /\ entity_index'[e].chunk_id = chunk
  BY <1>1, <1>3 DEF Emplaced
<1>5. Stored(e)' = None
  BY <1>4, ReadsNone, StoredIsStoredIn
<1>6. \A f \in DOMAIN entity_index : Kept(f)
  BY <1>2, <1>4, SameRecord
<1> QED BY <1>3, <1>4, <1>5, <1>6 DEF Created

(* create<Cs...>(chunk, cs...) of registered components.                   *)
LEMMA CreateWithCreates ==
  ASSUME IInv, Right, NEW chunk \in Chunks, NEW vals \in Payloads,
         CreateWith(chunk, vals)
  PROVE  \E e \in Entities : Created(e, chunk, vals)
<1> DEFINE k == [signature |-> DOMAIN vals, chunk_id |-> chunk]
           n == Len(entities[k])
<1>1. PICK e \in Entities :
        /\ Dispenser!Get(e)
        /\ entity_index' = Placed(Emplaced(e, chunk), e, k, Size(k))
        /\ entities' = [entities EXCEPT ![k] = Append(@, e)]
  BY DEF CreateWith
<1> DEFINE index == Emplaced(e, chunk)
<1>2. byte_arrays' = [byte_arrays EXCEPT ![k] =
        [c \in Components |->
           IF c \in DOMAIN vals
           THEN emplace_component(byte_arrays[k][c], Size(k), vals[c])
           ELSE byte_arrays[k][c]]]
  BY DEF CreateWith
<1>3. /\ k \in Keys /\ k.signature = DOMAIN vals /\ Size(k) = n
      /\ DOMAIN vals \subseteq Components
      /\ DOMAIN byte_arrays = Keys
  BY PayloadFacts DEF Size, IInv, StoreFits, IsStore
<1>4. e \notin DOMAIN entity_index
  BY <1>1, FreshId DEF Right
<1>5. /\ Agree(index, entities, archetypes, {})
      /\ index[e].entity_archetype = nullptr /\ index[e].chunk_id = chunk
      /\ DOMAIN index = DOMAIN entity_index \cup {e}
      /\ \A f \in DOMAIN entity_index : index[f] = entity_index[f]
  BY <1>4, NewRecord DEF Right, Agreeing
<1>6. /\ e \in DOMAIN index
      /\ \A f \in DOMAIN entity_index : f \in DOMAIN index
  BY <1>5
<1> HIDE DEF k, index
<1>7. Agree(index, entities, archetypes, {e})
  BY <1>5, <1>6, WithoutArchetype
<1>8. /\ entity_index' = Placed(index, e, k, Len(entities[k]))
      /\ Entered(entities, entities', k, e)
  BY <1>1, <1>3 DEF index, Entered
<1>9. /\ InSlot(entity_index', entities', e, k, n)
      /\ DOMAIN entity_index' = DOMAIN index
      /\ \A f \in DOMAIN index \ {e} : entity_index'[f] = index[f]
      /\ entity_index'[e].chunk_id = chunk
  BY <1>3, <1>5, <1>6, <1>7, <1>8, EnteringStores
<1> HIDE DEF n
<1>10. \A c \in k.signature :
         /\ byte_arrays'[k][c].data[n] = vals[c]
         /\ \A i \in 0 .. n - 1 :
              byte_arrays'[k][c].data[i] = byte_arrays[k][c].data[i]
  <2> SUFFICES ASSUME NEW c \in k.signature
               PROVE  /\ byte_arrays'[k][c].data[n] = vals[c]
                      /\ \A i \in 0 .. n - 1 :
                           byte_arrays'[k][c].data[i] = byte_arrays[k][c].data[i]
    OBVIOUS
  <2>1. byte_arrays'[k][c]
          = emplace_component(byte_arrays[k][c], Size(k), vals[c])
    BY <1>2, <1>3
  <2> QED BY <1>3, <2>1, EmplacedArrays
<1>11. Stored(e)' = vals
  <2>1. vals = [c \in DOMAIN vals |-> vals[c]]
    BY DEF Payloads
  <2>2. At(byte_arrays', k, n) = [c \in DOMAIN vals |-> vals[c]]
    BY <1>3, <1>10 DEF At
  <2> QED BY <1>9, <2>1, <2>2, ReadsSlot, StoredIsStoredIn
<1>12. ASSUME NEW f \in DOMAIN entity_index
       PROVE  Kept(f)
  <2>1. /\ f \in DOMAIN index /\ f # e
        /\ f \in DOMAIN entity_index' /\ entity_index'[f] = index[f]
    BY <1>4, <1>5, <1>6, <1>9
  <2>2. KeptBelow(byte_arrays, byte_arrays', k, Len(entities[k]))
    BY <1>2, <1>3, <1>10 DEF KeptBelow, n
  <2>3. StoredIn(entity_index', entities', byte_arrays', f)
          = StoredIn(index, entities, byte_arrays, f)
    BY <1>3, <1>7, <1>8, <2>1, <2>2, EnteringKeeps
  <2>4. StoredIn(index, entities, byte_arrays, f)
          = StoredIn(entity_index, entities, byte_arrays, f)
    BY <1>5, <1>6, <2>1 DEF StoredIn
  <2> QED BY <1>5, <1>6, <1>9, <2>1, <2>3, <2>4, StoredIsStoredIn DEF Kept
<1> QED BY <1>4, <1>5, <1>9, <1>11, <1>12 DEF Created

(* create<Cs...>(chunk, cs...) that throws: the objects it has built are   *)
(* no entity's.                                                            *)
LEMMA CreateWithThrowsCreates ==
  ASSUME IInv, Right, NEW chunk \in Chunks, NEW vals \in Payloads,
         NEW built \in SUBSET Components, CreateWithThrows(chunk, vals, built)
  PROVE  \E e \in Entities : Created(e, chunk, None)
<1> DEFINE k == [signature |-> DOMAIN vals, chunk_id |-> chunk]
<1>1. PICK e \in Entities : /\ Dispenser!Get(e)
                           /\ entity_index' = Emplaced(e, chunk)
  BY DEF CreateWithThrows
<1>2. /\ entities' = entities
      /\ built \subseteq DOMAIN vals
      /\ byte_arrays' = [byte_arrays EXCEPT ![k] =
           [c \in Components |->
              IF c \in built
              THEN emplace_component(byte_arrays[k][c], Size(k), vals[c])
              ELSE byte_arrays[k][c]]]
  BY DEF CreateWithThrows
<1>3. /\ k \in Keys /\ k.signature = DOMAIN vals
      /\ DOMAIN vals \subseteq Components
      /\ DOMAIN byte_arrays = Keys
  BY PayloadFacts DEF IInv, StoreFits, IsStore
<1>4. e \notin DOMAIN entity_index
  BY <1>1, FreshId DEF Right
<1>5. /\ DOMAIN entity_index' = DOMAIN entity_index \cup {e}
      /\ \A f \in DOMAIN entity_index : entity_index'[f] = entity_index[f]
      /\ entity_index'[e].entity_archetype = nullptr
      /\ entity_index'[e].chunk_id = chunk
  BY <1>1, <1>4 DEF Emplaced
<1>6. Stored(e)' = None
  BY <1>5, ReadsNone, StoredIsStoredIn
<1> HIDE DEF k
<1>7. ASSUME NEW c \in k.signature, NEW i \in 0 .. Size(k) - 1
      PROVE  byte_arrays'[k][c].data[i] = byte_arrays[k][c].data[i]
  <2>1. CASE c \in built
    <3>1. byte_arrays'[k][c]
            = emplace_component(byte_arrays[k][c], Size(k), vals[c])
      BY <1>2, <1>3, <2>1
    <3> QED BY <1>3, <3>1, EmplacedArrays
  <2>2. CASE c \notin built
    BY <1>2, <1>3, <2>2
  <2> QED BY <2>1, <2>2
<1>8. ASSUME NEW f \in DOMAIN entity_index
      PROVE  Kept(f)
  <2>1. CASE entity_index[f].entity_archetype = nullptr
    BY <1>5, <2>1, ReadsNone, StoredIsStoredIn DEF Kept
  <2>2. ASSUME NEW l \in Keys, NEW i \in Nat,
               InSlot(entity_index, entities, f, l, i)
        PROVE  Kept(f)
    <3>1. InSlot(entity_index', entities', f, l, i)
      BY <1>2, <1>5, <2>2 DEF InSlot
    <3>2. At(byte_arrays', l, i) = At(byte_arrays, l, i)
      <4>1. CASE l = k
        <5>1. i \in 0 .. Size(k) - 1
          <6>1. Size(k) \in Nat /\ i < Size(k)
            BY <2>2, <4>1 DEF InSlot, Size, IInv, StoreFits, IsStore
          <6> QED BY <6>1
        <5> QED BY <1>7, <4>1, <5>1, SameAt
      <4>2. CASE l # k
        <5>1. byte_arrays'[l] = byte_arrays[l]
          BY <1>2, <1>3, <4>2
        <5> QED BY <5>1 DEF At
      <4> QED BY <4>1, <4>2
    <3> QED BY <1>5, <2>2, <3>1, <3>2, ReadsSlot, StoredIsStoredIn DEF Kept
  <2> QED BY <2>1, <2>2, RightRecord DEF Right, Agreeing
<1> QED BY <1>4, <1>5, <1>6, <1>8 DEF Created

(* add of the first component of an entity.                                *)
LEMMA AddFirstAssigns ==
  ASSUME IInv, Right, NEW e \in DOMAIN entity_index, NEW c \in Components,
         NEW v \in Values, AddFirst(e, c, v)
  PROVE  Assigned(e, c, v)
<1> DEFINE k == [signature |-> {c}, chunk_id |-> entity_index[e].chunk_id]
           n == Len(entities[k])
<1>1. /\ k \in Keys /\ k.signature = {c} /\ Size(k) = n
      /\ DOMAIN byte_arrays = Keys /\ c \in DOMAIN byte_arrays[k]
  BY RecordFacts DEF Keys, IInv, StoreFits, IsStore, Fit, Size
<1>2. /\ entity_index[e].entity_archetype = nullptr
      /\ entity_index' = Placed(entity_index, e, k, n)
      /\ Entered(entities, entities', k, e)
      /\ byte_arrays' = [byte_arrays EXCEPT ![k][c] =
                           emplace_component(@, Size(k), v)]
  BY DEF AddFirst, Entered, Size
<1> HIDE DEF k
<1>3. Agree(entity_index, entities, archetypes, {e})
  BY <1>2, WithoutArchetype DEF Right, Agreeing
<1>4. /\ InSlot(entity_index', entities', e, k, n)
      /\ DOMAIN entity_index' = DOMAIN entity_index
      /\ \A f \in DOMAIN entity_index \ {e} : entity_index'[f] = entity_index[f]
      /\ entity_index'[e].chunk_id = entity_index[e].chunk_id
  BY <1>1, <1>2, <1>3, EnteringStores
<1>5. byte_arrays'[k][c] = emplace_component(byte_arrays[k][c], Size(k), v)
  BY <1>1, <1>2
<1>6. /\ byte_arrays'[k][c].data[n] = v
      /\ \A i \in 0 .. n - 1 :
           byte_arrays'[k][c].data[i] = byte_arrays[k][c].data[i]
  <2>1. c \in k.signature
    BY <1>1
  <2> HIDE DEF n
  <2> QED BY <1>1, <1>5, <2>1, EmplacedArrays
<1>7. KeptBelow(byte_arrays, byte_arrays', k, n)
  <2>1. \A l \in Keys : l # k => byte_arrays'[l] = byte_arrays[l]
    BY <1>1, <1>2
  <2> HIDE DEF n
  <2> QED BY <1>1, <1>6, <2>1 DEF KeptBelow
<1>8. Stored(e)' = [d \in DOMAIN Stored(e) \cup {c} |->
                      IF d = c THEN v ELSE Stored(e)[d]]
  <2>1. Stored(e) = None
    BY <1>2, ReadsNone, StoredIsStoredIn
  <2>2. Stored(e)' = At(byte_arrays', k, n)
    BY <1>4, ReadsSlot, StoredIsStoredIn
  <2>3. DOMAIN None = {}
    BY DEF None
  <2> QED BY <1>1, <1>6, <2>1, <2>2, <2>3 DEF At
<1>9. ASSUME NEW f \in DOMAIN entity_index, f # e
      PROVE  Kept(f)
  <2>1. f \in DOMAIN entity_index' /\ entity_index'[f] = entity_index[f]
    BY <1>4, <1>9
  <2>2. StoredIn(entity_index', entities', byte_arrays', f)
          = StoredIn(entity_index, entities, byte_arrays, f)
    BY <1>1, <1>2, <1>3, <1>7, <1>9, <2>1, EnteringKeeps
  <2> QED BY <2>1, <2>2, StoredIsStoredIn DEF Kept
<1> QED BY <1>4, <1>8, <1>9 DEF Assigned

(* An assignment through a reference to a component.                       *)
LEMMA WriteAssigns ==
  ASSUME IInv, Right, NEW e \in DOMAIN entity_index, NEW c \in Components,
         NEW v \in Values, Write(e, c, v)
  PROVE  Assigned(e, c, v)
<1> DEFINE k == entity_index[e].entity_archetype
           x == entity_index[e].index
<1>1. /\ HasSlot(e) /\ c \in k.signature
      /\ UNCHANGED <<entity_index, entities>>
      /\ byte_arrays' = [byte_arrays EXCEPT ![k][c] = construct(@, x, v)]
  BY DEF Write
<1>2. /\ k \in Keys /\ x \in Nat /\ x < Size(k) /\ Size(k) = Len(entities[k])
      /\ IsByteArray(byte_arrays[k][c], Values)
      /\ Size(k) <= byte_arrays[k][c].size /\ Size(k) \in Nat
      /\ entities[k][x + 1] = e
      /\ DOMAIN byte_arrays = Keys /\ DOMAIN byte_arrays[k] = Components
  BY <1>1, HasSlotFacts, SlotOwner DEF Right, Fit, IInv, StoreFits, IsStore
<1>3. InSlot(entity_index, entities, e, k, x)
  BY <1>2 DEF InSlot
<1> HIDE DEF k, x
<1>4. /\ byte_arrays'[k][c] = construct(byte_arrays[k][c], x, v)
      /\ \A l \in Keys : l # k => byte_arrays'[l] = byte_arrays[l]
      /\ \A d \in Components : d # c => byte_arrays'[k][d] = byte_arrays[k][d]
  BY <1>1, <1>2
<1>5. /\ byte_arrays'[k][c].data[x] = v
      /\ \A i \in 0 .. Size(k) - 1 : i # x =>
           byte_arrays'[k][c].data[i] = byte_arrays[k][c].data[i]
  <2>1. DOMAIN byte_arrays[k][c].data = 0 .. byte_arrays[k][c].size - 1
    BY <1>2 DEF IsByteArray
  <2>2. /\ x \in DOMAIN byte_arrays[k][c].data
        /\ 0 .. Size(k) - 1 \subseteq DOMAIN byte_arrays[k][c].data
    BY <1>2, <2>1 DEF IsByteArray
  <2>3. byte_arrays'[k][c].data = [byte_arrays[k][c].data EXCEPT ![x] = v]
    BY <1>4 DEF construct
  <2> QED BY <2>2, <2>3
<1>6. k.signature \subseteq Components
  BY <1>2 DEF Keys
<1>7. Stored(e)' = [d \in DOMAIN Stored(e) \cup {c} |->
                      IF d = c THEN v ELSE Stored(e)[d]]
  <2>1. Stored(e) = At(byte_arrays, k, x)
    BY <1>3, ReadsSlot, StoredIsStoredIn
  <2>2. Stored(e)' = At(byte_arrays', k, x)
    <3>1. InSlot(entity_index', entities', e, k, x)
      BY <1>1, <1>3
    <3> QED BY <3>1, ReadsSlot, StoredIsStoredIn
  <2>3. DOMAIN At(byte_arrays, k, x) \cup {c} = k.signature
    BY <1>1 DEF At
  <2>4. \A d \in k.signature :
          byte_arrays'[k][d].data[x]
            = IF d = c THEN v ELSE byte_arrays[k][d].data[x]
    BY <1>4, <1>5, <1>6
  <2>5. At(byte_arrays', k, x)
          = [d \in k.signature |->
               IF d = c THEN v ELSE At(byte_arrays, k, x)[d]]
    BY <2>4 DEF At
  <2> QED BY <2>1, <2>2, <2>3, <2>5
<1>8. ASSUME NEW f \in DOMAIN entity_index, f # e
      PROVE  Kept(f)
  <2>1. CASE entity_index[f].entity_archetype = nullptr
    BY <1>1, <2>1, ReadsNone, StoredIsStoredIn DEF Kept
  <2>2. ASSUME NEW l \in Keys, NEW i \in Nat,
               InSlot(entity_index, entities, f, l, i), entities[l][i + 1] = f
        PROVE  Kept(f)
    <3>1. At(byte_arrays', l, i) = At(byte_arrays, l, i)
      <4>1. CASE l # k
        BY <1>4, <4>1 DEF At
      <4>2. CASE l = k
        <5>1. i # x /\ i \in 0 .. Size(k) - 1
          BY <1>2, <1>8, <2>2, <4>2 DEF InSlot
        <5>2. ASSUME NEW d \in k.signature
              PROVE  byte_arrays'[k][d].data[i] = byte_arrays[k][d].data[i]
          BY <1>4, <1>5, <1>6, <5>1
        <5> QED BY <4>2, <5>2, SameAt
      <4> QED BY <4>1, <4>2
    <3>2. /\ StoredIn(entity_index', entities', byte_arrays', f)
               = At(byte_arrays', l, i)
          /\ StoredIn(entity_index, entities, byte_arrays, f)
               = At(byte_arrays, l, i)
      BY <1>1, <2>2, ReadsSlot
    <3> QED BY <1>1, <3>1, <3>2, StoredIsStoredIn DEF Kept
  <2> QED BY <2>1, <2>2, RightRecord DEF Right, Agreeing
<1> QED BY <1>1, <1>7, <1>8 DEF Assigned

(* add of a component the entity did not have: its components are moved    *)
(* behind those of the other archetype, and the last slot of the old one   *)
(* fills the hole.                                                         *)
LEMMA AddNextAssigns ==
  ASSUME IInv, Right, NEW e \in DOMAIN entity_index, NEW c \in Components,
         NEW v \in Values, AddNext(e, c, v)
  PROVE  Assigned(e, c, v)
<1> DEFINE old == entity_index[e].entity_archetype
           new == WithComponent(old, c)
           x == entity_index[e].index
           n == Size(old)
           m == Size(new)
           F == ArraysAfterLeaving(old,
                  [d \in Components |->
                     IF d \in old.signature
                     THEN move_out(byte_arrays[old][d], x, n)
                     ELSE byte_arrays[old][d]])
           G == [d \in Components |->
                   CASE d = c -> emplace_component(byte_arrays[new][d], m, v)
                     [] d \in old.signature ->
                          emplace_component(byte_arrays[new][d], m,
                                            byte_arrays[old][d].data[x])
                     [] OTHER -> byte_arrays[new][d]]
           index == Vacated(old, x)
           ents == [entities EXCEPT ![old] = WithoutSlot(@, x)]
           arrays == [byte_arrays EXCEPT ![old] = F]
           T == archetypes \ Deleted(old)
<1>1. HasSlot(e) /\ c \notin old.signature
  BY DEF AddNext
<1>2. /\ old \in Keys /\ x \in Nat /\ x < n /\ n \in Nat \ {0}
      /\ n = Len(entities[old])
      /\ old.signature \subseteq Components
      /\ Fit(byte_arrays[old], old, n)
      /\ old.chunk_id = entity_index[e].chunk_id
  BY <1>1, HasSlotFacts, SlotOwner DEF Right
<1>3. /\ new \in Keys /\ new # old
      /\ new.signature = old.signature \cup {c}
      /\ new.signature \subseteq Components
  BY <1>1, <1>2, KeyFacts
<1>4. /\ byte_arrays' = [byte_arrays EXCEPT ![old] = F, ![new] = G]
      /\ entity_index' = Placed(index, e, new, m)
      /\ entities' = [entities EXCEPT ![old] = WithoutSlot(@, x),
                                      ![new] = Append(@, e)]
  BY <1>3 DEF AddNext
<1>5. /\ Agree(index, ents, T, {e})
      /\ DOMAIN index = DOMAIN entity_index
      /\ index[e].chunk_id = entity_index[e].chunk_id
  <2>1. /\ Agree(index, ents, T, {e})
        /\ DOMAIN index = DOMAIN entity_index
        /\ index[e].chunk_id = old.chunk_id
    BY <1>1, Leaving DEF Right
  <2> HIDE DEF index, ents, T, old
  <2> QED BY <1>2, <2>1
<1>6. \A f \in DOMAIN entity_index : index[f].chunk_id = entity_index[f].chunk_id
  BY DEF Vacated, IInv, IsIndex, Records
<1>7. /\ entities \in [Keys -> Seq(Entities)]
      /\ DOMAIN byte_arrays = Keys /\ DOMAIN byte_arrays[new] = Components
      /\ m \in Nat
  BY <1>3 DEF IInv, StoreFits, IsStore, Fit, Size
<1>8. m = Len(ents[new]) /\ Entered(ents, entities', new, e)
  BY <1>2, <1>3, <1>4, <1>7 DEF Entered, Size
<1>9. /\ InSlot(entity_index', entities', e, new, m)
      /\ DOMAIN entity_index' = DOMAIN index
      /\ \A f \in DOMAIN index \ {e} : entity_index'[f] = index[f]
      /\ entity_index'[e].chunk_id = index[e].chunk_id
  <2> HIDE DEF index, ents, T, new, m
  <2> QED BY <1>3, <1>4, <1>5, <1>8, EnteringStores
<1>10. /\ arrays[old] = F /\ byte_arrays'[new] = G
       /\ \A l \in Keys : l # old => arrays[l] = byte_arrays[l]
       /\ \A l \in Keys : l # new => byte_arrays'[l] = arrays[l]
  <2> HIDE DEF F, G, old, new
  <2> QED BY <1>2, <1>3, <1>4, <1>7
<1>11. ASSUME n # 1, NEW d \in old.signature, NEW i \in 0 .. n - 2
       PROVE  F[d].data[i] = IF i = x THEN byte_arrays[old][d].data[n - 1]
                                      ELSE byte_arrays[old][d].data[i]
  <2> DEFINE a == byte_arrays[old][d]
  <2>1. F[d] = move_out(a, x, n)
    BY <1>2, <1>11 DEF ArraysAfterLeaving
  <2>2. IsByteArray(a, Values) /\ n <= a.size /\ a.size \in Nat
    BY <1>2 DEF Fit, IsByteArray
  <2> HIDE DEF a, F, n, x, old
  <2>3. i \in 0 .. a.size - 1 /\ i # n - 1
    BY <1>2, <2>2
  <2>4. \A j \in 0 .. a.size - 1 :
          F[d].data[j] = IF j = n - 1 THEN raw
                         ELSE IF j = x THEN a.data[n - 1] ELSE a.data[j]
    <3>1. n \in Nat \ {0} /\ x \in Nat /\ x < n
      BY <1>2
    <3> QED BY <2>1, <2>2, <3>1, MoveOutContents
  <2> QED BY <2>3, <2>4 DEF a
<1>12. ASSUME NEW d \in new.signature
       PROVE  /\ G[d].data[m] = IF d = c THEN v ELSE byte_arrays[old][d].data[x]
              /\ \A i \in 0 .. m - 1 :
                   G[d].data[i] = byte_arrays[new][d].data[i]
  <2> DEFINE w == IF d = c THEN v ELSE byte_arrays[old][d].data[x]
  <2>1. G[d] = emplace_component(byte_arrays[new][d], m, w)
    <3>1. d \in Components /\ (d # c => d \in old.signature)
      BY <1>3
    <3> HIDE DEF old, new, m, x
    <3> QED BY <1>1, <3>1
  <2> HIDE DEF w, G, new, x, old
  <2>2. /\ G[d].data[m] = w
        /\ \A i \in 0 .. m - 1 : G[d].data[i] = byte_arrays[new][d].data[i]
    <3>1. new \in Keys
      BY <1>3
    <3> QED BY <2>1, <3>1, EmplacedArrays
  <2> QED BY <2>2 DEF w
<1>13. KeptBelow(arrays, byte_arrays', new, Len(ents[new]))
  <2> HIDE DEF arrays, ents, new, old, F, G, m
  <2> QED BY <1>3, <1>8, <1>10, <1>12 DEF KeptBelow
<1>14. Stored(e)' = [d \in DOMAIN Stored(e) \cup {c} |->
                       IF d = c THEN v ELSE Stored(e)[d]]
  <2>1. Stored(e) = At(byte_arrays, old, x)
    <3>1. InSlot(entity_index, entities, e, old, x)
      BY <1>2 DEF InSlot
    <3> QED BY <3>1, ReadsSlot, StoredIsStoredIn
  <2>2. Stored(e)' = At(byte_arrays', new, m)
    BY <1>9, ReadsSlot, StoredIsStoredIn
  <2> HIDE DEF old, new, m, x, G
  <2>3. DOMAIN At(byte_arrays, old, x) \cup {c} = new.signature
    BY <1>3 DEF At
  <2>4. At(byte_arrays', new, m)
          = [d \in new.signature |->
               IF d = c THEN v ELSE At(byte_arrays, old, x)[d]]
    BY <1>3, <1>10, <1>12 DEF At
  <2> QED BY <2>1, <2>2, <2>3, <2>4
<1>15. ASSUME NEW f \in DOMAIN entity_index, f # e
       PROVE  Kept(f)
  <2>1. StoredIn(index, ents, arrays, f)
          = StoredIn(entity_index, entities, byte_arrays, f)
    <3>1. HoleFilled(arrays, old, x)
      <4> HIDE DEF arrays, F, x, old
      <4> QED BY <1>10, <1>11 DEF HoleFilled, n
    <3> HIDE DEF arrays
    <3> QED BY <1>1, <1>15, <3>1, LeavingKeeps DEF Right
  <2>2. /\ f \in DOMAIN index /\ f \in DOMAIN entity_index'
        /\ entity_index'[f] = index[f]
    BY <1>5, <1>9, <1>15
  <2>3. StoredIn(entity_index', entities', byte_arrays', f)
          = StoredIn(index, ents, arrays, f)
    <3> HIDE DEF arrays, index, ents, T, new
    <3> QED BY <1>3, <1>5, <1>8, <1>13, <1>15, <2>2, EnteringKeeps
  <2> QED BY <1>6, <2>1, <2>2, <2>3, StoredIsStoredIn DEF Kept
<1> QED BY <1>5, <1>9, <1>14, <1>15 DEF Assigned

-------------------------------------------------------------------------------
(* The clients the refinement is about.  add of a component the entity has *)
(* and remove of one of several misplace components, and the calls that    *)
(* KeepsRecords excludes let records and slots disagree.                   *)
KeepsWorld ==
  Calls \cap {"add_again", "remove", "remove_last", "remove_entity"} = {}

(* Every call of theirs creates an entity, sets one component of one       *)
(* entity, destroys the registry or changes nothing a client can see.      *)
LEMMA StepIsKnown ==
  KeepsWorld /\ IInv /\ Right /\ [Next]_vars =>
    \/ \E e \in Entities, chunk \in Chunks, vals \in World!Payload :
         Created(e, chunk, vals)
    \/ \E e \in DOMAIN entity_index, c \in Components, v \in Values :
         Assigned(e, c, v)
    \/ Destroy
    \/ AllKept
<1> DEFINE Known ==
      \/ \E e \in Entities, chunk \in Chunks, vals \in World!Payload :
           Created(e, chunk, vals)
      \/ \E e \in DOMAIN entity_index, c \in Components, v \in Values :
           Assigned(e, c, v)
      \/ Destroy
      \/ AllKept
<1> SUFFICES ASSUME KeepsWorld, IInv, Right, [Next]_vars PROVE Known
  OBVIOUS
<1>1. None \in World!Payload /\ Payloads \subseteq World!Payload
  <2>1. {} \in SUBSET Components
    OBVIOUS
  <2>2. None \in [{} -> Values]
    BY DEF None
  <2> QED BY <2>1, <2>2 DEF World!Payload, Payloads
<1>2. ASSUME NEW e \in Entities, NEW chunk \in Chunks,
             NEW vals \in World!Payload, Created(e, chunk, vals)
      PROVE  Known
  BY <1>2
<1>3. ASSUME NEW e \in DOMAIN entity_index, NEW c \in Components,
             NEW v \in Values, Assigned(e, c, v)
      PROVE  Known
  BY <1>3
<1>4. ASSUME UNCHANGED <<entity_index, entities, byte_arrays>>
      PROVE  Known
  BY <1>4, AllTheSame
<1>5. ASSUME Destroy PROVE Known
  BY <1>5
<1> HIDE DEF Known
<1>6. CASE UNCHANGED vars
  BY <1>4, <1>6 DEF vars, storeVars
<1>7. ASSUME NEW chunk \in Chunks, Create(chunk) PROVE Known
  BY <1>1, <1>2, <1>7, CreateCreates
<1>8. ASSUME NEW chunk \in Chunks, NEW vals \in Payloads,
             CreateWith(chunk, vals)
      PROVE  Known
  BY <1>1, <1>2, <1>8, CreateWithCreates
<1>9. ASSUME NEW chunk \in Chunks, NEW vals \in Payloads,
             NEW built \in SUBSET Components,
             CreateWithThrows(chunk, vals, built)
      PROVE  Known
  BY <1>1, <1>2, <1>9, CreateWithThrowsCreates
<1>10. ASSUME NEW c \in Components, Save(c) PROVE Known
  BY <1>4, <1>10 DEF Save, storeVars
<1>11. ASSUME NEW e \in DOMAIN entity_index, NEW c \in Components,
              NEW v \in Values,
              AddFirst(e, c, v) \/ AddNext(e, c, v) \/ AddAgain(e, c, v)
                \/ Write(e, c, v)
       PROVE  Known
  <2>1. ~ AddAgain(e, c, v)
    BY DEF AddAgain, Calling, KeepsWorld
  <2>2. Assigned(e, c, v)
    BY <1>11, <2>1, AddFirstAssigns, AddNextAssigns, WriteAssigns
  <2> QED BY <1>3, <2>2
<1>12. ASSUME NEW e \in DOMAIN entity_index, NEW c \in Components,
              Remove(e, c) \/ RemoveLast(e, c) \/ RemoveAbsent(e, c)
                \/ UndefinedAdd(e, c) \/ UndefinedRemove(e, c)
       PROVE  Known
  <2>1. ~ Remove(e, c) /\ ~ RemoveLast(e, c)
    BY DEF Remove, RemoveLast, Calling, KeepsWorld
  <2>2. CASE RemoveAbsent(e, c)
    BY <1>4, <2>2 DEF RemoveAbsent, storeVars
  <2>3. CASE UndefinedAdd(e, c) \/ UndefinedRemove(e, c)
    BY <1>4, <2>3 DEF UndefinedAdd, UndefinedRemove, BecomesUndefined, storeVars
  <2> QED BY <1>12, <2>1, <2>2, <2>3
<1>13. ASSUME NEW e \in DOMAIN entity_index,
              RemoveEntity(e) \/ UseOfStaleRecord(e) \/ UseOfNullArchetype(e)
       PROVE  Known
  <2>1. ~ RemoveEntity(e)
    BY DEF RemoveEntity, Calling, KeepsWorld
  <2>2. CASE UseOfStaleRecord(e) \/ UseOfNullArchetype(e)
    BY <1>4, <2>2
       DEF UseOfStaleRecord, UseOfNullArchetype, BecomesUndefined, storeVars
  <2> QED BY <1>13, <2>1, <2>2
<1>14. ASSUME DestroyTerminates PROVE Known
  BY <1>4, <1>14 DEF DestroyTerminates, storeVars
<1> QED BY <1>5, <1>6, <1>7, <1>8, <1>9, <1>10, <1>11, <1>12, <1>13, <1>14
        DEF Next, Step

(* What is known of an entity is the record of its chunk and components.   *)
LEMMA KnownOfEntity ==
  ASSUME NEW f
  PROVE  /\ f \in DOMAIN entity_index =>
              WorldOfIndex[f] = [chunk_id   |-> entity_index[f].chunk_id,
                                 components |-> Stored(f)]
         /\ f \in DOMAIN entity_index' =>
              WorldOfIndex'[f] = [chunk_id   |-> entity_index'[f].chunk_id,
                                  components |-> Stored(f)']
         /\ f \in DOMAIN entity_index /\ Kept(f) =>
              WorldOfIndex'[f] = WorldOfIndex[f]
BY DEF WorldOfIndex, Kept

(* Creation, assignment, destruction and the rest are what the abstract    *)
(* world knows them as.                                                    *)
LEMMA StepsOfWorld ==
  KeepsWorld /\ IInv /\ Right /\ [Next]_vars => [World!Next]_WorldOfIndex
<1> SUFFICES ASSUME KeepsWorld, IInv, Right, [Next]_vars
             PROVE  World!Next \/ WorldOfIndex' = WorldOfIndex
  OBVIOUS
<1>1. /\ DOMAIN WorldOfIndex = DOMAIN entity_index
      /\ DOMAIN WorldOfIndex' = DOMAIN entity_index'
      /\ WorldOfIndex = [f \in DOMAIN entity_index |-> WorldOfIndex[f]]
      /\ WorldOfIndex' = [f \in DOMAIN entity_index' |-> WorldOfIndex'[f]]
  BY DEF WorldOfIndex
<1>2. ASSUME NEW e \in Entities, NEW chunk \in Chunks,
             NEW vals \in World!Payload, Created(e, chunk, vals)
      PROVE  World!Next
  <2>1. WorldOfIndex'[e] = [chunk_id |-> chunk, components |-> vals]
    BY <1>2, KnownOfEntity DEF Created
  <2>2. \A f \in DOMAIN entity_index : WorldOfIndex'[f] = WorldOfIndex[f]
    BY <1>2, KnownOfEntity DEF Created
  <2>3. /\ e \notin DOMAIN entity_index
        /\ DOMAIN entity_index' = DOMAIN entity_index \cup {e}
    BY <1>2 DEF Created
  <2> HIDE DEF WorldOfIndex
  <2>4. World!Create(e, chunk, vals)
    BY <1>1, <2>1, <2>2, <2>3 DEF World!Create
  <2> QED BY <2>4 DEF World!Next
<1>3. ASSUME NEW e \in DOMAIN entity_index, NEW c \in Components,
             NEW v \in Values, Assigned(e, c, v)
      PROVE  World!Next
  <2> DEFINE vals == [d \in DOMAIN Stored(e) \cup {c} |->
                        IF d = c THEN v ELSE Stored(e)[d]]
  <2>1. /\ WorldOfIndex[e] = [chunk_id   |-> entity_index[e].chunk_id,
                              components |-> Stored(e)]
        /\ WorldOfIndex'[e] = [chunk_id   |-> entity_index[e].chunk_id,
                               components |-> vals]
    BY <1>3, KnownOfEntity DEF Assigned
  <2>2. \A f \in DOMAIN entity_index \ {e} : WorldOfIndex'[f] = WorldOfIndex[f]
    BY <1>3, KnownOfEntity DEF Assigned
  <2>3. DOMAIN entity_index' = DOMAIN entity_index
    BY <1>3 DEF Assigned
  <2>4. WorldOfIndex'[e] = [WorldOfIndex[e] EXCEPT !.components =
          [d \in DOMAIN @ \cup {c} |-> IF d = c THEN v ELSE @[d]]]
    BY <2>1
  <2>5. World!Put(e, c, v)
    BY <1>1, <2>2, <2>3, <2>4 DEF World!Put
  <2> QED BY <1>1, <2>5 DEF World!Next
<1>4. ASSUME Destroy PROVE World!Next
  <2>1. DOMAIN entity_index' = {}
    BY <1>4 DEF Destroy
  <2>2. World!Clear
    BY <1>1, <2>1 DEF World!Clear
  <2> QED BY <2>2 DEF World!Next
<1>5. ASSUME AllKept PROVE WorldOfIndex' = WorldOfIndex
  <2>1. \A f \in DOMAIN entity_index : WorldOfIndex'[f] = WorldOfIndex[f]
    BY <1>5, KnownOfEntity DEF AllKept
  <2> QED BY <1>1, <1>5, <2>1 DEF AllKept
<1> QED BY <1>2, <1>3, <1>4, <1>5, StepIsKnown

(* Such clients' records and slots stay right.                             *)
LEMMA RightForWorld ==
  ASSUME KeepsWorld
  PROVE  Spec => []Right
<1>1. KeepsRecords
  BY DEF KeepsWorld, KeepsRecords
<1> QED BY <1>1, RightInvariant

(* For every client that creates, registers, adds each component once and  *)
(* assigns, the registry implements the abstract world: through every move *)
(* between archetypes, growth of arrays and swap with the last slot, what  *)
(* clients find through records is what they created, added and assigned,  *)
(* whether or not the freed key of a deleted archetype can be read.        *)
THEOREM RegistryImplementsWorld ==
  ASSUME KeepsWorld
  PROVE  Spec => ImplementsWorld
<1>1. Init => World!Init
  BY DEF Init, World!Init, WorldOfIndex
<1>2. IInv /\ Right /\ [Next]_vars => [World!Next]_WorldOfIndex
  BY StepsOfWorld
<1> QED BY <1>1, <1>2, InductiveInvariant, RightForWorld, PTL
        DEF Spec, ImplementsWorld, World!Spec

(* For the same clients a call changes the components of at most one       *)
(* entity: no move into a slot overwrites an object that is not its own.   *)
THEOREM OthersAreUntouched ==
  ASSUME KeepsWorld, Entities # {}
  PROVE  Spec => OthersUntouched
<1> DEFINE OneTouched ==
      status' = "running" =>
        \E e \in Entities : \A f \in DOMAIN entity_index \ {e} :
          Stored(f)' = Stored(f)
<1>1. IInv /\ Right /\ [Next]_vars => [OneTouched]_vars
  <2> SUFFICES ASSUME IInv, Right, [Next]_vars PROVE OneTouched
    OBVIOUS
  <2>1. ASSUME NEW e \in Entities, NEW chunk \in Chunks,
               NEW vals \in World!Payload, Created(e, chunk, vals)
        PROVE  OneTouched
    BY <2>1 DEF Created, Kept
  <2>2. ASSUME NEW e \in DOMAIN entity_index, NEW c \in Components,
               NEW v \in Values, Assigned(e, c, v)
        PROVE  OneTouched
    BY <2>2, RecordFacts DEF Assigned, Kept, IInv
  <2>3. ASSUME Destroy PROVE OneTouched
    BY <2>3 DEF Destroy
  <2>4. ASSUME AllKept PROVE OneTouched
    BY <2>4 DEF AllKept, Kept
  <2> QED BY <2>1, <2>2, <2>3, <2>4, StepIsKnown
<1> QED BY <1>1, InductiveInvariant, RightForWorld, PTL
        DEF Spec, OthersUntouched

-------------------------------------------------------------------------------
(* Walks.                                                                  *)

(* The next match is the first one from p on, if there is one.             *)
LEMMA NextMatchFacts ==
  ASSUME NEW p \in Nat, NEW last \in Nat, p <= last + 1,
         NEW include, NEW chunk,
         NEW q, q = NextMatch(p, last, include, chunk)
  PROVE  /\ q \in p .. last + 1
         /\ q <= last => Match(archetype_keys[q], include, chunk)
         /\ \A r \in p .. q - 1 : ~ Match(archetype_keys[r], include, chunk)
<1> DEFINE found == {r \in p .. last : Match(archetype_keys[r], include, chunk)}
<1>1. CASE found = {}
  <2>1. q = last + 1
    BY <1>1 DEF NextMatch
  <2> QED BY <1>1, <2>1
<1>2. CASE found # {}
  <2>1. found \in SUBSET Nat
    OBVIOUS
  <2>2. \E r \in found : \A t \in found : r <= t
    <3> HIDE DEF found
    <3> QED BY <1>2, <2>1, LeastElement
  <2>3. q = CHOOSE r \in found : \A t \in found : r <= t
    BY <1>2 DEF NextMatch
  <2>4. q \in found /\ \A t \in found : q <= t
    <3> HIDE DEF found
    <3> QED BY <2>2, <2>3
  <2>5. ASSUME NEW r \in p .. q - 1
        PROVE  ~ Match(archetype_keys[r], include, chunk)
    <3>1. r \in p .. last /\ ~ (q <= r)
      BY <2>4
    <3> QED BY <2>4, <3>1
  <2> QED BY <2>4, <2>5
<1> QED BY <1>1, <1>2

(* The archetypes of the set T are among the first n keys.                 *)
AmongFirst(keys, n, T) == \A k \in T : \E q \in 1 .. n : keys[q] = k

(* The walk is at a position that matches or behind the last one, and up   *)
(* to the last one all archetypes of the set T are listed that are listed  *)
(* at all.                                                                 *)
OnPath(cur, keys, T) ==
  /\ cur \in Walks
  /\ keys \in Seq(Keys)
  /\ cur.last <= Len(keys)
  /\ cur.pos <= cur.last + 1
  /\ cur.pos # 0
  /\ cur.pos <= cur.last => Match(keys[cur.pos], cur.include, cur.chunk_id)
  /\ AmongFirst(keys, Len(keys), T) => AmongFirst(keys, cur.last, T)

Underway == OnPath(cursor, archetype_keys, archetypes)

(* A walk that is under way is on its path.                                *)
WalkInv == IInv /\ (Walking => Underway)

(* Where a walk that is not at its end stands.                             *)
LEMMA AtKeyFacts ==
  ASSUME WalkInv, AtKey
  PROVE  /\ Underway /\ cursor \in Walks
         /\ cursor.pos \in 1 .. cursor.last
         /\ cursor.pos \in 1 .. Len(archetype_keys)
         /\ cursor.last \in Nat /\ Len(archetype_keys) \in Nat
         /\ cursor.pos + 1 \in Nat
         /\ Key \in Keys
         /\ Match(Key, cursor.include, cursor.chunk_id)
         /\ cursor.slot \in Nat
<1>1. Underway /\ cursor \in Walks
  BY DEF WalkInv, AtKey, Underway, OnPath
<1>2. cursor.pos \in Nat /\ cursor.last \in Nat /\ cursor.slot \in Nat
  BY <1>1 DEF Walks
<1>3. /\ archetype_keys \in Seq(Keys) /\ Len(archetype_keys) \in Nat
      /\ cursor.last <= Len(archetype_keys)
      /\ cursor.pos # 0
  BY <1>1 DEF Underway, OnPath
<1>4. cursor.pos <= cursor.last
  BY <1>2 DEF AtKey, Finished
<1>5. cursor.pos \in 1 .. cursor.last /\ cursor.pos \in 1 .. Len(archetype_keys)
  BY <1>2, <1>3, <1>4
<1>6. Key \in Keys
  BY <1>3, <1>5 DEF Key
<1>7. Match(Key, cursor.include, cursor.chunk_id)
  BY <1>1, <1>4 DEF Underway, OnPath, Key
<1> QED BY <1>1, <1>2, <1>3, <1>5, <1>6, <1>7

(* A walk goes on to the next match, or to the next slot.                  *)
LEMMA NextPosFacts ==
  ASSUME WalkInv, AtKey
  PROVE  /\ NextPos \in cursor.pos + 1 .. cursor.last + 1
         /\ NextPos \in Nat
         /\ NextPos <= cursor.last =>
              Match(archetype_keys[NextPos], cursor.include, cursor.chunk_id)
         /\ \A r \in cursor.pos + 1 .. NextPos - 1 :
              ~ Match(archetype_keys[r], cursor.include, cursor.chunk_id)
<1>1. /\ cursor.pos + 1 \in Nat /\ cursor.last \in Nat
      /\ cursor.pos + 1 <= cursor.last + 1
  BY AtKeyFacts
<1>2. /\ NextPos \in cursor.pos + 1 .. cursor.last + 1
      /\ NextPos <= cursor.last =>
           Match(archetype_keys[NextPos], cursor.include, cursor.chunk_id)
      /\ \A r \in cursor.pos + 1 .. NextPos - 1 :
           ~ Match(archetype_keys[r], cursor.include, cursor.chunk_id)
  BY <1>1, NextMatchFacts DEF NextPos
<1> QED BY <1>1, <1>2

(* begin() finds the first match.                                          *)
LEMMA BeginsOnPath ==
  ASSUME WalkInv, NEW walk \in {"view", "for_each"}, NEW chunk \in Chunks,
         NEW include \in (SUBSET Components) \ {{}}, Begin(walk, include, chunk)
  PROVE  Underway'
<1> DEFINE n == Len(archetype_keys)
           q == NextMatch(1, n, include, chunk)
<1>1. /\ cursor' = [walk |-> walk, include |-> include, chunk_id |-> chunk,
                    pos |-> q, last |-> n, slot |-> 0,
                    shown |-> [e \in Entities |-> 0]]
      /\ archetype_keys' = archetype_keys /\ archetypes' = archetypes
  BY DEF Begin, vars, storeVars
<1>2. archetype_keys \in Seq(Keys) /\ n \in Nat
  BY DEF WalkInv, IInv, Lists
<1>3. /\ q \in 1 .. n + 1
      /\ q <= n => Match(archetype_keys[q], include, chunk)
  <2>1. 1 \in Nat /\ 1 <= n + 1
    BY <1>2
  <2> HIDE DEF n
  <2> QED BY <1>2, <2>1, NextMatchFacts
<1> HIDE DEF n, q
<1>4. [e \in Entities |-> 0] \in [Entities -> 0 .. 2]
  OBVIOUS
<1>5. cursor' \in Walks
  BY <1>1, <1>2, <1>3, <1>4 DEF Walks
<1>6. /\ cursor'.last <= Len(archetype_keys')
      /\ cursor'.last = Len(archetype_keys')
  BY <1>1, <1>2 DEF n
<1> QED BY <1>1, <1>2, <1>3, <1>5, <1>6 DEF Underway, OnPath

(* What advances a walk by one position or slot.                           *)
Advanced ==
  /\ cursor' \in Walks
  /\ cursor'.include = cursor.include /\ cursor'.chunk_id = cursor.chunk_id
  /\ cursor'.last = cursor.last
  /\ cursor'.pos \in {cursor.pos, NextPos}

(* A vector of keys that gets one more key keeps those it has.             *)
LEMMA KeysGrow ==
  ASSUME NEW keys \in Seq(Keys), NEW k \in Keys, NEW keys2,
         keys2 = keys \/ keys2 = Append(keys, k)
  PROVE  /\ keys2 \in Seq(Keys) /\ Len(keys2) \in Nat
         /\ Len(keys2) >= Len(keys)
         /\ \A q \in 1 .. Len(keys) : keys2[q] = keys[q]
<1>1. CASE keys2 = keys
  BY <1>1
<1>2. CASE keys2 = Append(keys, k)
  <2> DEFINE more == Append(keys, k)
  <2>1. /\ more \in Seq(Keys) /\ Len(keys) \in Nat
        /\ Len(more) = Len(keys) + 1
        /\ \A q \in 1 .. Len(keys) : more[q] = keys[q]
    OBVIOUS
  <2> HIDE DEF more
  <2>2. keys2 = more
    BY <1>2 DEF more
  <2> QED BY <2>1, <2>2
<1> QED BY <1>1, <1>2

(* A walk that advances stays on its path, if the archetypes it enters are *)
(* those of its keys.                                                      *)
LEMMA AdvancesOnPath ==
  ASSUME WalkInv, AtKey, Advanced,
         \/ archetypes' = archetypes /\ archetype_keys' = archetype_keys
         \/ /\ archetypes' = archetypes \cup {Key} /\ Key \notin archetypes
            /\ archetype_keys' = Append(archetype_keys, Key)
  PROVE  Underway'
<1>1. /\ cursor.pos \in 1 .. cursor.last /\ cursor.last \in Nat
      /\ Match(Key, cursor.include, cursor.chunk_id)
      /\ NextPos \in cursor.pos + 1 .. cursor.last + 1
      /\ NextPos <= cursor.last =>
           Match(archetype_keys[NextPos], cursor.include, cursor.chunk_id)
      /\ Key \in Keys /\ Key = archetype_keys[cursor.pos]
  BY AtKeyFacts, NextPosFacts DEF Key
<1>2. /\ archetype_keys \in Seq(Keys) /\ Len(archetype_keys) \in Nat
      /\ cursor.last <= Len(archetype_keys)
      /\ AmongFirst(archetype_keys, Len(archetype_keys), archetypes)
           => AmongFirst(archetype_keys, cursor.last, archetypes)
  BY AtKeyFacts DEF Underway, OnPath
<1>3. /\ archetype_keys' \in Seq(Keys) /\ Len(archetype_keys') \in Nat
      /\ Len(archetype_keys') >= Len(archetype_keys)
      /\ \A q \in 1 .. Len(archetype_keys) : archetype_keys'[q] = archetype_keys[q]
  BY <1>1, <1>2, KeysGrow
<1>4. \A q \in 1 .. cursor.last : archetype_keys'[q] = archetype_keys[q]
  <2>1. cursor.last \in Nat
    BY <1>1
  <2>2. \A q \in 1 .. cursor.last : q \in 1 .. Len(archetype_keys)
    BY <1>2, <2>1
  <2> QED BY <1>3, <2>2
<1>5. /\ cursor'.pos \in 1 .. cursor.last + 1
      /\ cursor'.pos <= cursor.last =>
           Match(archetype_keys'[cursor'.pos], cursor.include, cursor.chunk_id)
  <2>1. CASE cursor'.pos = cursor.pos
    <3>1. cursor'.pos \in 1 .. cursor.last
      BY <1>1, <2>1
    <3> QED BY <1>1, <1>4, <2>1, <3>1
  <2>2. CASE cursor'.pos = NextPos
    <3>1. cursor'.pos \in 1 .. cursor.last + 1
      BY <1>1, <2>2
    <3>2. cursor'.pos <= cursor.last => cursor'.pos \in 1 .. cursor.last
      BY <1>1, <3>1
    <3> QED BY <1>1, <1>4, <2>2, <3>1, <3>2
  <2> QED BY <2>1, <2>2 DEF Advanced
<1>6. AmongFirst(archetype_keys', Len(archetype_keys'), archetypes')
        => AmongFirst(archetype_keys', cursor.last, archetypes')
  <2>1. CASE archetypes' = archetypes /\ archetype_keys' = archetype_keys
    BY <1>2, <2>1
  <2>2. CASE /\ archetypes' = archetypes \cup {Key} /\ Key \notin archetypes
             /\ archetype_keys' = Append(archetype_keys, Key)
    <3> SUFFICES ASSUME AmongFirst(archetype_keys', Len(archetype_keys'), archetypes')
                 PROVE  AmongFirst(archetype_keys', cursor.last, archetypes')
      OBVIOUS
    <3>1. AmongFirst(archetype_keys, Len(archetype_keys), archetypes)
      <4> SUFFICES ASSUME NEW k \in archetypes
                   PROVE  \E q \in 1 .. Len(archetype_keys) : archetype_keys[q] = k
        BY DEF AmongFirst
      <4>1. PICK q \in 1 .. Len(archetype_keys') : archetype_keys'[q] = k
        BY <2>2 DEF AmongFirst
      <4>2. /\ Len(archetype_keys') = Len(archetype_keys) + 1
            /\ archetype_keys'[Len(archetype_keys) + 1] = Key
        <5> DEFINE keys == archetype_keys
        <5>1. keys \in Seq(Keys) /\ Key \in Keys
          BY <1>1, <1>2
        <5> HIDE DEF keys
        <5>2. /\ Len(Append(keys, Key)) = Len(keys) + 1
              /\ Append(keys, Key)[Len(keys) + 1] = Key
          BY <5>1
        <5> QED BY <2>2, <5>2 DEF keys
      <4>3. q # Len(archetype_keys) + 1
        BY <2>2, <4>1, <4>2
      <4>4. q \in 1 .. Len(archetype_keys)
        BY <1>2, <4>1, <4>2, <4>3
      <4> QED BY <1>3, <4>1, <4>4
    <3>2. AmongFirst(archetype_keys, cursor.last, archetypes)
      BY <1>2, <3>1
    <3> QED BY <1>1, <1>4, <2>2, <3>2 DEF AmongFirst
  <2> QED BY <2>1, <2>2
<1>7. cursor'.last <= Len(archetype_keys')
  BY <1>1, <1>2, <1>3 DEF Advanced
<1>8. cursor'.pos <= cursor'.last + 1 /\ cursor'.pos # 0
  BY <1>1, <1>5 DEF Advanced
<1> QED BY <1>3, <1>5, <1>6, <1>7, <1>8 DEF Advanced, Underway, OnPath

(* The body of a walk is a call, and leaves the walk where it is.          *)
LEMMA BodyFacts ==
  ASSUME BodyStep
  PROVE  /\ Step
         /\ status = "running" /\ status' = "running"
         /\ UNCHANGED <<archetypes, archetype_keys, entities>>
<1>1. Step
  BY DEF BodyStep, Step
<1>2. ASSUME NEW chunk \in Chunks, Create(chunk)
      PROVE  /\ status = "running" /\ status' = "running"
             /\ UNCHANGED <<archetypes, archetype_keys, entities>>
  BY <1>2 DEF Create, Calling, storeVars
<1>3. /\ \A c \in Components :
           Save(c) => /\ status = "running" /\ status' = "running"
                      /\ UNCHANGED <<archetypes, archetype_keys, entities>>
      /\ \A e \in DOMAIN entity_index :
           RemoveEntity(e) => /\ status = "running" /\ status' = "running"
                              /\ UNCHANGED <<archetypes, archetype_keys, entities>>
  BY DEF Save, RemoveEntity, Calling, storeVars
<1>4. ASSUME NEW e \in DOMAIN entity_index, NEW c \in Components,
             NEW v \in Values, Write(e, c, v)
      PROVE  /\ status = "running" /\ status' = "running"
             /\ UNCHANGED <<archetypes, archetype_keys, entities>>
  BY <1>4 DEF Write, Calling
<1> QED BY <1>1, <1>2, <1>3, <1>4 DEF BodyStep

(* The slot a walk visits: what it shows, and where it goes from there.    *)
LEMMA VisitFacts ==
  ASSUME WalkInv, Visit
  PROVE  LET i == cursor.slot + 1
             e == entities[Key][i]
         IN
         /\ AtKey /\ UNCHANGED vars
         /\ i \in 1 .. Size(Key) /\ Size(Key) \in Nat /\ e \in Entities
         /\ \A f \in Entities : cursor.shown[f] \in 0 .. 2
         /\ \A f \in Entities \ {e} : cursor'.shown[f] = cursor.shown[f]
         /\ cursor'.shown[e] \in 1 .. 2
         /\ cursor.shown[e] = 0 => cursor'.shown[e] = 1
         /\ i < Size(Key) => cursor'.slot = i /\ cursor'.pos = cursor.pos
         /\ ~ (i < Size(Key)) => cursor'.slot = 0 /\ cursor'.pos = NextPos
         /\ cursor' \in Walks
         /\ cursor'.include = cursor.include
         /\ cursor'.chunk_id = cursor.chunk_id
         /\ cursor'.last = cursor.last
<1> DEFINE i == cursor.slot + 1
           e == entities[Key][i]
           more == i < Size(Key)
           s == IF cursor.shown[e] < 2 THEN cursor.shown[e] + 1 ELSE 2
           shown2 == [cursor.shown EXCEPT ![e] = s]
<1>1. /\ AtKey /\ Key \in archetypes /\ cursor.slot < Size(Key)
      /\ UNCHANGED vars
      /\ cursor' = [cursor EXCEPT !.shown[e] = s,
                                  !.slot = IF more THEN i ELSE 0,
                                  !.pos = IF more THEN @ ELSE NextPos]
  BY DEF Visit
<1>2. /\ cursor \in Walks /\ cursor.slot \in Nat /\ Key \in Keys
      /\ cursor.pos \in Nat /\ NextPos \in Nat
  BY <1>1, AtKeyFacts, NextPosFacts DEF Walks
<1>3. entities[Key] \in Seq(Entities) /\ Size(Key) \in Nat
  BY <1>2 DEF WalkInv, IInv, StoreFits, IsStore, Size
<1>4. i \in 1 .. Size(Key) /\ i \in Nat
  BY <1>1, <1>2, <1>3
<1>5. e \in Entities
  BY <1>3, <1>4 DEF Size
<1>6. cursor.shown \in [Entities -> 0 .. 2]
  BY <1>2 DEF Walks
<1>7. /\ cursor.shown[e] \in 0 .. 2 /\ s \in 1 .. 2
      /\ cursor.shown[e] = 0 => s = 1
  BY <1>5, <1>6
<1> HIDE DEF e, s, i
<1>8. /\ shown2 \in [Entities -> 0 .. 2]
      /\ \A f \in Entities \ {e} : shown2[f] = cursor.shown[f]
      /\ shown2[e] = s
  BY <1>5, <1>6, <1>7
<1>9. cursor' = [cursor EXCEPT !.shown = shown2,
                               !.slot = IF more THEN i ELSE 0,
                               !.pos = IF more THEN @ ELSE NextPos]
  BY <1>1
<1> HIDE DEF shown2, more
<1>10. cursor' = [walk |-> cursor.walk, include |-> cursor.include,
                  chunk_id |-> cursor.chunk_id,
                  pos |-> IF more THEN cursor.pos ELSE NextPos,
                  last |-> cursor.last, slot |-> IF more THEN i ELSE 0,
                  shown |-> shown2]
  BY <1>2, <1>9 DEF Walks
<1>11. cursor' \in Walks
  BY <1>2, <1>4, <1>8, <1>10 DEF Walks
<1> QED BY <1>1, <1>3, <1>4, <1>5, <1>6, <1>7, <1>8, <1>10, <1>11
        DEF more, e, i

(* A walk that passes an archetype without showing anything.               *)
LEMMA PassFacts ==
  ASSUME WalkInv, AtKey, cursor' = [cursor EXCEPT !.pos = NextPos]
  PROVE  /\ cursor' \in Walks
         /\ cursor'.include = cursor.include
         /\ cursor'.chunk_id = cursor.chunk_id
         /\ cursor'.last = cursor.last /\ cursor'.slot = cursor.slot
         /\ cursor'.shown = cursor.shown
         /\ cursor'.pos = NextPos
<1>1. cursor \in Walks /\ NextPos \in Nat
  BY AtKeyFacts, NextPosFacts
<1> QED BY <1>1 DEF Walks

(* The walk, and the registry under it, keep their invariant.              *)
LEMMA ViewsStepPreserves == WalkInv /\ [ViewsNext]_viewVars => WalkInv'
<1> SUFFICES ASSUME WalkInv, [ViewsNext]_viewVars PROVE WalkInv'
  OBVIOUS
<1>1. ASSUME UNCHANGED vars
      PROVE  IInv'
  BY <1>1, StutterPreserves DEF WalkInv
<1>2. ASSUME UNCHANGED <<cursor, archetypes, archetype_keys>>
      PROVE  Walking' => Underway'
  BY <1>2 DEF WalkInv, Underway, Walking
<1>3. CASE UNCHANGED viewVars
  <2>1. UNCHANGED vars /\ UNCHANGED <<cursor, archetypes, archetype_keys>>
    BY <1>3 DEF viewVars, vars, storeVars
  <2> QED BY <1>1, <1>2, <2>1 DEF WalkInv
<1>4. CASE ~ Walking /\ Step /\ UNCHANGED cursor
  BY <1>4, StepPreserves DEF WalkInv, Walking
<1>5. CASE Walking /\ BodyStep /\ UNCHANGED cursor
  <2>1. IInv'
    BY <1>5, BodyFacts, StepPreserves DEF WalkInv
  <2> QED BY <1>2, <1>5, <2>1, BodyFacts DEF WalkInv
<1>6. ASSUME NEW walk \in {"view", "for_each"}, NEW chunk \in Chunks,
             NEW include \in (SUBSET Components) \ {{}},
             Begin(walk, include, chunk)
      PROVE  WalkInv'
  <2>1. UNCHANGED vars
    BY <1>6 DEF Begin
  <2> QED BY <1>1, <1>6, <2>1, BeginsOnPath DEF WalkInv
<1>7. CASE Visit
  <2>1. AtKey /\ UNCHANGED vars /\ Advanced
    BY <1>7, VisitFacts DEF Advanced
  <2>2. archetype_keys' = archetype_keys /\ archetypes' = archetypes
    BY <2>1 DEF vars, storeVars
  <2> QED BY <1>1, <2>1, <2>2, AdvancesOnPath DEF WalkInv
<1>8. CASE SkipEmpty
  <2>1. AtKey /\ UNCHANGED vars /\ Advanced
    BY <1>8, PassFacts DEF SkipEmpty, Advanced
  <2>2. archetype_keys' = archetype_keys /\ archetypes' = archetypes
    BY <2>1 DEF vars, storeVars
  <2> QED BY <1>1, <2>1, <2>2, AdvancesOnPath DEF WalkInv
<1>9. CASE RecreateStale
  <2>1. AtKey /\ Advanced
    BY <1>9, PassFacts DEF RecreateStale, Advanced
  <2>2. /\ Key \in Keys /\ Key \notin archetypes
        /\ archetypes' = archetypes \cup {Key}
        /\ archetype_keys' = Append(archetype_keys, Key)
        /\ archetype_keys' = Listed(Key)
        /\ UNCHANGED <<entity_index, component_map, entities, byte_arrays,
                       recycled, id_count, status>>
    BY <1>9, <2>1, AtKeyFacts DEF RecreateStale, Listed, idVars
  <2>3. Lists(archetype_keys', archetypes')
    BY <2>2, ListedLists DEF WalkInv, IInv
  <2>4. IInv'
    BY <2>2, <2>3
       DEF WalkInv, IInv, Lists, IsIndex, StoreFits, IsStore, IdsOK,
           Dispenser!TypeOK
  <2>5. Underway'
    BY <2>1, <2>2, AdvancesOnPath
  <2> QED BY <2>4, <2>5 DEF WalkInv
<1>10. CASE WalkUndefined
  <2>1. IInv'
    BY <1>10, UndefinedPreserves DEF WalkUndefined, WalkInv
  <2> QED BY <1>2, <1>10, <2>1
          DEF WalkUndefined, BecomesUndefined, storeVars, WalkInv
<1>11. CASE End
  BY <1>1, <1>11 DEF End, WalkInv, Walking
<1> QED BY <1>3, <1>4, <1>5, <1>6, <1>7, <1>8, <1>9, <1>10, <1>11
        DEF ViewsNext, WalkStep

(* So it holds in every state of walks.                                    *)
LEMMA WalkInvariant == ViewsSpec => []WalkInv
<1>1. ViewsInit => WalkInv
  BY InitEstablishes DEF ViewsInit, WalkInv, Walking
<1>2. WalkInv /\ [ViewsNext]_viewVars => WalkInv'
  BY ViewsStepPreserves
<1> QED BY <1>1, <1>2, PTL DEF ViewsSpec

(* Registry and walk are well-typed, whatever calls a client makes between *)
(* walks: positions and slots stay natural numbers and within the vector,  *)
(* also while keys of deleted archetypes are entered anew under the walk.  *)
THEOREM WalksAreTyped == ViewsSpec => []ViewsTypeOK
<1>1. WalkInv => ViewsTypeOK
  BY IInvIsConjunction DEF WalkInv, Underway, OnPath, Walking, ViewsTypeOK
<1> QED BY <1>1, WalkInvariant, PTL

-------------------------------------------------------------------------------
(* What walks show, to clients whose calls keep records right.             *)

(* The walk has passed slot j of position q.                               *)
Passed(cur, q, j) == q < cur.pos \/ (q = cur.pos /\ j <= cur.slot)

Matches(cur, keys, q) == Match(keys[q], cur.include, cur.chunk_id)

(* It has passed e, in an archetype that matches.                          *)
VisitedAt(cur, keys, ents, e, q) ==
  /\ Matches(cur, keys, q)
  /\ \E j \in 1 .. Len(ents[keys[q]]) :
       ents[keys[q]][j] = e /\ Passed(cur, q, j)

Visited(cur, keys, ents, e) ==
  \E q \in 1 .. cur.last : VisitedAt(cur, keys, ents, e, q)

Twice(keys, k) ==
  \E p, q \in 1 .. Len(keys) : p # q /\ keys[p] = k /\ keys[q] = k

Doubled(keys) == \E k \in Keys : Twice(keys, k)

(* The slot is one of the archetype's, or the first one.                   *)
InPlace ==
  cursor.slot = 0 \/ (cursor.pos <= cursor.last /\ cursor.slot < Size(Key))

ShowsVisited ==
  \A e \in Entities :
    cursor.shown[e] > 0 <=> Visited(cursor, archetype_keys, entities, e)

ShowsOnceOrDoubled ==
  \A e \in Entities : cursor.shown[e] <= 1 \/ Doubled(archetype_keys)

(* The walk has shown the entities it has passed, each once unless a key   *)
(* is listed twice.                                                        *)
ShownRight == InPlace /\ ShowsVisited /\ ShowsOnceOrDoubled

ShowInv == WalkInv /\ Right /\ (Walking => ShownRight)

(* When the walk goes on to the next match it passes the position it was   *)
(* at, and no other that matches.                                          *)
LEMMA PassesOne ==
  ASSUME WalkInv, AtKey, cursor'.pos = NextPos, cursor'.slot = 0,
         NEW q \in 1 .. cursor.last, Matches(cursor, archetype_keys, q),
         NEW j \in Nat \ {0}
  PROVE  Passed(cursor', q, j) <=> (q < cursor.pos \/ q = cursor.pos)
<1>1. /\ cursor.pos \in 1 .. cursor.last /\ cursor.last \in Nat
      /\ NextPos \in cursor.pos + 1 .. cursor.last + 1
      /\ \A r \in cursor.pos + 1 .. NextPos - 1 :
           ~ Match(archetype_keys[r], cursor.include, cursor.chunk_id)
  BY AtKeyFacts, NextPosFacts
<1>2. q \notin cursor.pos + 1 .. NextPos - 1
  BY <1>1 DEF Matches
<1> QED BY <1>1, <1>2 DEF Passed

(* When it visits a slot, it passes that slot.                             *)
LEMMA VisitPasses ==
  ASSUME WalkInv, Visit,
         NEW q \in 1 .. cursor.last, Matches(cursor, archetype_keys, q),
         NEW j \in 1 .. Len(entities[archetype_keys[q]])
  PROVE  Passed(cursor', q, j)
           <=> (Passed(cursor, q, j) \/ (q = cursor.pos /\ j = cursor.slot + 1))
<1> DEFINE i == cursor.slot + 1
<1>1. /\ AtKey /\ i \in 1 .. Size(Key) /\ Size(Key) \in Nat
      /\ i < Size(Key) => cursor'.slot = i /\ cursor'.pos = cursor.pos
      /\ ~ (i < Size(Key)) => cursor'.slot = 0 /\ cursor'.pos = NextPos
  BY VisitFacts
<1>2. cursor.slot \in Nat /\ cursor.pos \in 1 .. cursor.last /\ cursor.last \in Nat
  BY <1>1, AtKeyFacts
<1>3. q = cursor.pos => j \in 1 .. Size(Key)
  BY DEF Key, Size
<1>4. j \in Nat \ {0} /\ q \in Nat
  <2>1. Len(entities[archetype_keys[q]]) \in Nat
    <3>1. archetype_keys[q] \in Keys
      <4>1. /\ archetype_keys \in Seq(Keys) /\ Len(archetype_keys) \in Nat
            /\ cursor.last <= Len(archetype_keys)
        BY <1>1, AtKeyFacts DEF Underway, OnPath
      <4> QED BY <1>2, <4>1
    <3> QED BY <3>1 DEF WalkInv, IInv, StoreFits, IsStore
  <2> QED BY <1>2, <2>1
<1>5. CASE i < Size(Key)
  <2>1. cursor'.slot = cursor.slot + 1 /\ cursor'.pos = cursor.pos
    BY <1>1, <1>5
  <2> QED BY <1>2, <1>4, <2>1 DEF Passed
<1>6. CASE ~ (i < Size(Key))
  <2>1. i = Size(Key)
    BY <1>1, <1>6
  <2>2. Passed(cursor', q, j) <=> (q < cursor.pos \/ q = cursor.pos)
    BY <1>1, <1>4, <1>6, PassesOne
  <2>3. q = cursor.pos => (j <= cursor.slot \/ j = cursor.slot + 1)
    BY <1>1, <1>2, <1>3, <1>4, <2>1
  <2> QED BY <2>2, <2>3 DEF Passed
<1> QED BY <1>5, <1>6

(* What the record of the entity in slot i of k says.                      *)
LEMMA SlotSays ==
  ASSUME Agreeing, NEW k \in Keys, NEW i \in 1 .. Len(entities[k]),
         NEW e, e = entities[k][i]
  PROVE  /\ k \in archetypes
         /\ e \in DOMAIN entity_index
         /\ entity_index[e].entity_archetype = k
         /\ entity_index[e].index = i - 1
BY DEF Agreeing, Agree, SlotsRight

(* An entity that has been passed already is passed again only if its key  *)
(* is listed twice.                                                        *)
LEMMA AgainIsDoubled ==
  ASSUME ShowInv, Visit, NEW e, e = entities[Key][cursor.slot + 1],
         Visited(cursor, archetype_keys, entities, e)
  PROVE  Doubled(archetype_keys)
<1> DEFINE i == cursor.slot + 1
<1>1. /\ AtKey /\ i \in 1 .. Len(entities[Key]) /\ i \in Nat
  <2>1. WalkInv
    BY DEF ShowInv
  <2> QED BY <2>1, VisitFacts DEF Size
<1>2. /\ cursor.pos \in 1 .. Len(archetype_keys) /\ Key \in Keys
      /\ Key = archetype_keys[cursor.pos] /\ cursor.slot \in Nat
      /\ archetype_keys \in Seq(Keys) /\ Len(archetype_keys) \in Nat
      /\ cursor.last <= Len(archetype_keys) /\ cursor.last \in Nat
  BY <1>1, AtKeyFacts DEF ShowInv, Underway, OnPath, Key
<1> PICK q \in 1 .. cursor.last :
      VisitedAt(cursor, archetype_keys, entities, e, q)
  BY DEF Visited
<1>3. PICK j \in 1 .. Len(entities[archetype_keys[q]]) :
        entities[archetype_keys[q]][j] = e /\ Passed(cursor, q, j)
  BY DEF VisitedAt
<1>4. q \in 1 .. Len(archetype_keys) /\ archetype_keys[q] \in Keys
  <2>1. q \in 1 .. Len(archetype_keys)
    BY <1>2, <1>3
  <2> QED BY <1>2, <2>1
<1>5. /\ entity_index[e].entity_archetype = Key
      /\ entity_index[e].index = i - 1
      /\ entity_index[e].entity_archetype = archetype_keys[q]
      /\ entity_index[e].index = j - 1
  <2>1. Agreeing
    BY DEF ShowInv, Right
  <2>2. /\ entity_index[e].entity_archetype = Key
        /\ entity_index[e].index = i - 1
    <3> HIDE DEF i
    <3>1. e = entities[Key][i] /\ Key \in Keys /\ i \in 1 .. Len(entities[Key])
      BY <1>1, <1>2 DEF i
    <3> QED BY <2>1, <3>1, SlotSays
  <2>3. /\ entity_index[e].entity_archetype = archetype_keys[q]
        /\ entity_index[e].index = j - 1
    BY <1>3, <1>4, <2>1, SlotSays
  <2> QED BY <2>2, <2>3
<1>6. Len(entities[archetype_keys[q]]) \in Nat
  BY <1>4 DEF ShowInv, Right, Agreeing, Agree
<1>7. j = cursor.slot + 1 /\ j \in Nat
  BY <1>1, <1>2, <1>3, <1>5, <1>6
<1>8. q # cursor.pos
  BY <1>2, <1>3, <1>7 DEF Passed
<1> QED BY <1>2, <1>4, <1>5, <1>8 DEF Doubled, Twice

(* A visit passes the entity in the slot, and no other.                    *)
LEMMA VisitVisits ==
  ASSUME WalkInv, Visit, NEW e, e = entities[Key][cursor.slot + 1], NEW f
  PROVE  Visited(cursor', archetype_keys, entities, f)
           <=> (Visited(cursor, archetype_keys, entities, f) \/ f = e)
<1> DEFINE i == cursor.slot + 1
           p == cursor.pos
<1>1. /\ AtKey /\ i \in 1 .. Len(entities[Key])
      /\ cursor'.include = cursor.include
      /\ cursor'.chunk_id = cursor.chunk_id
      /\ cursor'.last = cursor.last
  BY VisitFacts DEF Size
<1>2. p \in 1 .. cursor.last /\ Matches(cursor, archetype_keys, p)
      /\ Key = archetype_keys[p]
  BY <1>1, AtKeyFacts DEF Matches, Key
<1>3. \A q : Matches(cursor', archetype_keys, q)
               <=> Matches(cursor, archetype_keys, q)
  BY <1>1 DEF Matches
<1>4. ASSUME NEW q \in 1 .. cursor.last, Matches(cursor, archetype_keys, q),
             NEW j \in 1 .. Len(entities[archetype_keys[q]])
      PROVE  Passed(cursor', q, j)
               <=> (Passed(cursor, q, j) \/ (q = p /\ j = i))
  BY <1>4, VisitPasses
<1> HIDE DEF p, i
<1>5. ASSUME NEW q \in 1 .. cursor.last,
             VisitedAt(cursor', archetype_keys, entities, f, q)
      PROVE  VisitedAt(cursor, archetype_keys, entities, f, q) \/ f = e
  <2>1. Matches(cursor, archetype_keys, q)
    BY <1>3, <1>5 DEF VisitedAt
  <2>2. PICK j \in 1 .. Len(entities[archetype_keys[q]]) :
          entities[archetype_keys[q]][j] = f /\ Passed(cursor', q, j)
    BY <1>5 DEF VisitedAt
  <2>3. Passed(cursor, q, j) \/ (q = p /\ j = i)
    BY <1>4, <2>1, <2>2
  <2> QED BY <1>2, <2>1, <2>2, <2>3 DEF VisitedAt, i
<1>6. ASSUME NEW q \in 1 .. cursor.last,
             VisitedAt(cursor, archetype_keys, entities, f, q)
      PROVE  VisitedAt(cursor', archetype_keys, entities, f, q)
  BY <1>3, <1>4, <1>6 DEF VisitedAt
<1>7. VisitedAt(cursor', archetype_keys, entities, e, p)
  <2>1. i \in 1 .. Len(entities[archetype_keys[p]])
    BY <1>1, <1>2
  <2>2. Passed(cursor', p, i)
    BY <1>2, <1>4, <2>1
  <2>3. entities[archetype_keys[p]][i] = e
    BY <1>2 DEF i
  <2> QED BY <1>2, <1>3, <2>1, <2>2, <2>3 DEF VisitedAt
<1> QED BY <1>1, <1>2, <1>5, <1>6, <1>7 DEF Visited

(* A visit shows the entity it passes.                                     *)
LEMMA VisitShows ==
  ASSUME ShowInv, Visit
  PROVE  ShownRight'
<1>1. WalkInv /\ ShownRight
  BY DEF ShowInv, Visit, AtKey
<1> DEFINE i == cursor.slot + 1
<1>2. PICK e \in Entities : e = entities[Key][i]
  BY <1>1, VisitFacts
<1>3. /\ AtKey /\ UNCHANGED vars
      /\ \A f \in Entities : cursor.shown[f] \in 0 .. 2
      /\ \A f \in Entities \ {e} : cursor'.shown[f] = cursor.shown[f]
      /\ cursor'.shown[e] \in 1 .. 2
      /\ cursor.shown[e] = 0 => cursor'.shown[e] = 1
      /\ i < Size(Key) => cursor'.slot = i /\ cursor'.pos = cursor.pos
      /\ ~ (i < Size(Key)) => cursor'.slot = 0 /\ cursor'.pos = NextPos
      /\ cursor'.last = cursor.last
  BY <1>1, <1>2, VisitFacts
<1>4. /\ entities' = entities /\ archetype_keys' = archetype_keys
  BY <1>3 DEF vars, storeVars
<1>5. InPlace'
  <2>1. CASE i < Size(Key)
    <3>1. Key' = Key /\ Size(Key)' = Size(Key)
      BY <1>3, <1>4, <2>1 DEF Key, Size
    <3>2. cursor.pos <= cursor.last
      BY <1>1, <1>3, AtKeyFacts
    <3> QED BY <1>3, <2>1, <3>1, <3>2 DEF InPlace
  <2>2. CASE ~ (i < Size(Key))
    BY <1>3, <2>2 DEF InPlace
  <2> QED BY <2>1, <2>2
<1>6. ASSUME NEW f \in Entities
      PROVE  cursor'.shown[f] > 0
               <=> Visited(cursor', archetype_keys', entities', f)
  <2>1. Visited(cursor', archetype_keys, entities, f)
          <=> (Visited(cursor, archetype_keys, entities, f) \/ f = e)
    BY <1>1, <1>2, VisitVisits
  <2>2. cursor.shown[f] > 0 <=> Visited(cursor, archetype_keys, entities, f)
    BY <1>1 DEF ShownRight, ShowsVisited
  <2> QED BY <1>3, <1>4, <2>1, <2>2
<1>7. ASSUME NEW f \in Entities
      PROVE  cursor'.shown[f] <= 1 \/ Doubled(archetype_keys')
  <2>1. CASE f # e
    BY <1>1, <1>3, <1>4, <2>1 DEF ShownRight, ShowsOnceOrDoubled
  <2>2. CASE f = e /\ cursor.shown[e] = 0
    BY <1>3, <2>2
  <2>3. CASE f = e /\ cursor.shown[e] # 0
    <3>1. cursor.shown[e] > 0
      BY <1>3, <2>3
    <3>2. Visited(cursor, archetype_keys, entities, e)
      BY <1>1, <3>1 DEF ShownRight, ShowsVisited
    <3> QED BY <1>2, <1>4, <3>2, AgainIsDoubled
  <2> QED BY <2>1, <2>2, <2>3
<1> QED BY <1>5, <1>6, <1>7 DEF ShownRight, ShowsVisited, ShowsOnceOrDoubled

(* A key that is listed twice stays so when keys are appended.             *)
LEMMA StaysDoubled ==
  ASSUME NEW keys \in Seq(Keys), NEW k \in Keys, NEW keys2,
         keys2 = keys \/ keys2 = Append(keys, k), Doubled(keys)
  PROVE  Doubled(keys2)
<1>1. /\ Len(keys2) >= Len(keys) /\ Len(keys) \in Nat /\ Len(keys2) \in Nat
      /\ \A q \in 1 .. Len(keys) : keys2[q] = keys[q]
  BY KeysGrow
<1>2. \A q \in 1 .. Len(keys) : q \in 1 .. Len(keys2)
  BY <1>1
<1> QED BY <1>1, <1>2 DEF Doubled, Twice

(* Passing an archetype without entities shows and passes none.            *)
LEMMA PassShows ==
  ASSUME ShowInv, AtKey, Size(Key) = 0, cursor' = [cursor EXCEPT !.pos = NextPos],
         entities' = entities,
         \/ archetype_keys' = archetype_keys
         \/ archetype_keys' = Append(archetype_keys, Key)
  PROVE  ShownRight'
<1>1. WalkInv /\ ShownRight
  BY DEF ShowInv, AtKey
<1>2. /\ cursor'.include = cursor.include
      /\ cursor'.chunk_id = cursor.chunk_id
      /\ cursor'.last = cursor.last /\ cursor'.slot = cursor.slot
      /\ cursor'.shown = cursor.shown
      /\ cursor'.pos = NextPos
  BY <1>1, PassFacts
<1>3. /\ cursor.last \in Nat /\ cursor.slot \in Nat /\ Key \in Keys
      /\ Key = archetype_keys[cursor.pos]
      /\ archetype_keys \in Seq(Keys) /\ Len(archetype_keys) \in Nat
      /\ cursor.last <= Len(archetype_keys)
  BY <1>1, AtKeyFacts DEF Key, Underway, OnPath
<1>4. cursor.slot = 0
  BY <1>1, <1>3 DEF ShownRight, InPlace
<1>5. InPlace'
  BY <1>2, <1>4 DEF InPlace
<1>6. \A q \in 1 .. cursor.last : archetype_keys'[q] = archetype_keys[q]
  <2>1. \A q \in 1 .. Len(archetype_keys) : archetype_keys'[q] = archetype_keys[q]
    BY <1>3, KeysGrow
  <2>2. \A q \in 1 .. cursor.last : q \in 1 .. Len(archetype_keys)
    BY <1>3
  <2> QED BY <2>1, <2>2
<1>7. ASSUME NEW f, NEW q \in 1 .. cursor.last
      PROVE  VisitedAt(cursor', archetype_keys', entities', f, q)
               <=> VisitedAt(cursor, archetype_keys, entities, f, q)
  <2>1. Matches(cursor', archetype_keys', q) <=> Matches(cursor, archetype_keys, q)
    BY <1>2, <1>6 DEF Matches
  <2>2. ASSUME Matches(cursor, archetype_keys, q),
               NEW j \in 1 .. Len(entities[archetype_keys[q]])
        PROVE  Passed(cursor', q, j) <=> Passed(cursor, q, j)
    <3>1. q # cursor.pos
      BY <1>3, <2>2 DEF Size
    <3>2. j \in Nat \ {0}
      <4>1. archetype_keys[q] \in Keys
        BY <1>3, <1>7
      <4>2. Len(entities[archetype_keys[q]]) \in Nat
        BY <1>1, <4>1 DEF WalkInv, IInv, StoreFits, IsStore
      <4> QED BY <4>2
    <3>3. Passed(cursor', q, j) <=> (q < cursor.pos \/ q = cursor.pos)
      BY <1>1, <1>2, <1>4, <2>2, <3>2, PassesOne
    <3> QED BY <3>1, <3>3 DEF Passed
  <2>3. archetype_keys'[q] = archetype_keys[q]
    BY <1>6
  <2> QED BY <2>1, <2>2, <2>3 DEF VisitedAt
<1>8. \A f : Visited(cursor', archetype_keys', entities', f)
               <=> Visited(cursor, archetype_keys, entities, f)
  BY <1>2, <1>7 DEF Visited
<1>9. ShowsVisited'
  BY <1>1, <1>2, <1>8 DEF ShownRight, ShowsVisited
<1>10. Doubled(archetype_keys) => Doubled(archetype_keys')
  BY <1>3, StaysDoubled
<1>11. ShowsOnceOrDoubled'
  BY <1>1, <1>2, <1>10 DEF ShownRight, ShowsOnceOrDoubled
<1> QED BY <1>5, <1>9, <1>11 DEF ShownRight

(* At its begin a walk has passed nothing and shown nothing.               *)
LEMMA BeginShows ==
  ASSUME ShowInv, NEW walk \in {"view", "for_each"}, NEW chunk \in Chunks,
         NEW include \in (SUBSET Components) \ {{}}, Begin(walk, include, chunk)
  PROVE  ShownRight'
<1> DEFINE n == Len(archetype_keys)
           p == NextMatch(1, n, include, chunk)
<1>1. /\ cursor' = [walk |-> walk, include |-> include, chunk_id |-> chunk,
                    pos |-> p, last |-> n, slot |-> 0,
                    shown |-> [e \in Entities |-> 0]]
      /\ archetype_keys' = archetype_keys /\ entities' = entities
  BY DEF Begin, vars, storeVars
<1>2. archetype_keys \in Seq(Keys) /\ n \in Nat
  BY DEF ShowInv, WalkInv, IInv, Lists
<1>3. /\ p \in 1 .. n + 1
      /\ \A r \in 1 .. p - 1 : ~ Match(archetype_keys[r], include, chunk)
  <2>1. 1 \in Nat /\ 1 <= n + 1
    BY <1>2
  <2> HIDE DEF n
  <2> QED BY <1>2, <2>1, NextMatchFacts
<1> HIDE DEF n, p
<1>4. ASSUME NEW f, NEW q \in 1 .. n
      PROVE  ~ VisitedAt(cursor', archetype_keys', entities', f, q)
  <2> SUFFICES ASSUME Matches(cursor', archetype_keys', q),
                      NEW j \in 1 .. Len(entities[archetype_keys[q]])
               PROVE  ~ Passed(cursor', q, j)
    BY <1>1 DEF VisitedAt
  <2>1. Match(archetype_keys[q], include, chunk)
    BY <1>1 DEF Matches
  <2>2. ~ (q < p)
    BY <1>2, <1>3, <2>1
  <2>3. j >= 1
    <3>1. Len(entities[archetype_keys[q]]) \in Nat
      BY <1>2 DEF n, ShowInv, WalkInv, IInv, StoreFits, IsStore
    <3> QED BY <3>1
  <2> QED BY <1>1, <2>2, <2>3 DEF Passed
<1>5. ShowsVisited'
  BY <1>1, <1>4 DEF ShowsVisited, Visited
<1>6. InPlace' /\ ShowsOnceOrDoubled'
  BY <1>1 DEF InPlace, ShowsOnceOrDoubled
<1> QED BY <1>5, <1>6 DEF ShownRight

(* For clients whose calls keep records right every step of a walk, and    *)
(* every call in its body, keeps what has been shown right.                *)
LEMMA ShowStep ==
  KeepsRecords /\ ShowInv /\ [ViewsNext]_viewVars => ShowInv'
<1> SUFFICES ASSUME KeepsRecords, ShowInv, [ViewsNext]_viewVars
             PROVE  Right' /\ (Walking' => ShownRight')
  BY ViewsStepPreserves DEF ShowInv
<1>1. WalkInv /\ IInv /\ Right
  BY DEF ShowInv, WalkInv
<1>2. ASSUME Step, WithinBounds'
      PROVE  Right'
  BY <1>1, <1>2, StepIsRight DEF Next
<1>3. ASSUME UNCHANGED vars
      PROVE  Right'
  BY <1>1, <1>3, StepIsRight
<1>4. ASSUME UNCHANGED <<cursor, entities, archetype_keys>>
      PROVE  Walking' => ShownRight'
  BY <1>4 DEF ShowInv, Walking, ShownRight, InPlace, ShowsVisited,
              ShowsOnceOrDoubled, Key, Size
<1>5. CASE UNCHANGED viewVars
  BY <1>3, <1>4, <1>5 DEF viewVars, vars, storeVars
<1>6. CASE ~ Walking /\ Step /\ UNCHANGED cursor /\ WithinBounds'
  BY <1>2, <1>6 DEF Walking
<1>7. CASE Walking /\ BodyStep /\ UNCHANGED cursor /\ WithinBounds'
  BY <1>2, <1>4, <1>7, BodyFacts
<1>8. ASSUME NEW walk \in {"view", "for_each"}, NEW chunk \in Chunks,
             NEW include \in (SUBSET Components) \ {{}},
             Begin(walk, include, chunk)
      PROVE  Right' /\ (Walking' => ShownRight')
  <2>1. UNCHANGED vars
    BY <1>8 DEF Begin
  <2> QED BY <1>3, <1>8, <2>1, BeginShows
<1>9. CASE Visit
  BY <1>3, <1>9, VisitShows DEF Visit
<1>10. CASE SkipEmpty
  <2>1. /\ UNCHANGED vars /\ AtKey /\ Size(Key) = 0
        /\ cursor' = [cursor EXCEPT !.pos = NextPos]
    BY <1>10 DEF SkipEmpty
  <2>2. entities' = entities /\ archetype_keys' = archetype_keys
    BY <2>1 DEF vars, storeVars
  <2> QED BY <1>3, <2>1, <2>2, PassShows
<1>11. CASE RecreateStale
  <2>1. /\ AtKey /\ Key \notin archetypes
        /\ archetypes' = archetypes \cup {Key}
        /\ archetype_keys' = Append(archetype_keys, Key)
        /\ cursor' = [cursor EXCEPT !.pos = NextPos]
        /\ UNCHANGED <<entity_index, entities, recycled, id_count>>
    BY <1>11 DEF RecreateStale, Listed, idVars
  <2>2. Key \in Keys
    BY <1>1, <2>1, AtKeyFacts
  <2>3. Agree(entity_index, entities, archetypes \cup {Key}, {})
    BY <1>1, <2>2, AgreeWithMore DEF Right, Agreeing
  <2>4. Right'
    BY <1>1, <2>1, <2>3 DEF Right, Agreeing, IdsFresh
  <2>5. Size(Key) = 0
    <3>1. Size(Key) \in Nat /\ Size(Key) = Len(entities[Key])
      BY <1>1, <2>2 DEF IInv, StoreFits, IsStore, Size
    <3>2. ASSUME Size(Key) # 0 PROVE FALSE
      <4>1. 1 \in 1 .. Len(entities[Key])
        BY <3>1, <3>2
      <4> QED BY <1>1, <2>1, <2>2, <4>1, SlotSays DEF Right
    <3> QED BY <3>2
  <2> QED BY <2>1, <2>4, <2>5, PassShows
<1>12. CASE WalkUndefined
  <2>1. UNCHANGED <<cursor, entities, archetype_keys>>
    BY <1>12 DEF WalkUndefined, BecomesUndefined, storeVars
  <2>2. Right'
    BY <1>1, <1>12, SameRight
       DEF WalkUndefined, BecomesUndefined, storeVars, idVars
  <2> QED BY <1>4, <2>1, <2>2
<1>13. CASE End
  BY <1>3, <1>13 DEF End, Walking
<1> QED BY <1>5, <1>6, <1>7, <1>8, <1>9, <1>10, <1>11, <1>12, <1>13
        DEF ViewsNext, WalkStep

(* So it is right in every state of such a client's walks.                 *)
LEMMA ShowInvariant ==
  ASSUME KeepsRecords
  PROVE  ViewsSpec => []ShowInv
<1>1. ViewsInit => ShowInv
  BY InitEstablishes, InitIsRight DEF ViewsInit, ShowInv, WalkInv, Walking
<1>2. ShowInv /\ [ViewsNext]_viewVars => ShowInv'
  BY ShowStep
<1> QED BY <1>1, <1>2, PTL DEF ViewsSpec

(* Keys that mirror the table are listed once.                             *)
LEMMA MirroredOnce ==
  ASSUME archetype_keys \in Seq(Keys), KeysMirrorTable
  PROVE  ~ Doubled(archetype_keys)
<1>1. DOMAIN archetype_keys = 1 .. Len(archetype_keys)
  OBVIOUS
<1> QED BY <1>1 DEF KeysMirrorTable, Doubled, Twice

(* At its end a walk has passed every slot of every position that matches. *)
LEMMA FinishedVisited ==
  ASSUME WalkInv, Finished, NEW e
  PROVE  Visited(cursor, archetype_keys, entities, e)
           <=> \E q \in 1 .. cursor.last :
                 /\ Matches(cursor, archetype_keys, q)
                 /\ \E j \in 1 .. Len(entities[archetype_keys[q]]) :
                      entities[archetype_keys[q]][j] = e
<1>1. /\ cursor.pos \in Nat /\ cursor.last \in Nat /\ cursor.pos > cursor.last
  BY DEF WalkInv, Finished, Underway, OnPath, Walks
<1>2. \A q \in 1 .. cursor.last : \A j : Passed(cursor, q, j)
  BY <1>1 DEF Passed
<1> QED BY <1>2 DEF Visited, VisitedAt

(* For every client that leaves each entity a component and removes none,  *)
(* a walk that has ended has shown exactly the entities of the one chunk   *)
(* it was given that have the components it asked for, unless a key was    *)
(* mistaken for another and an archetype is not listed: also if it met     *)
(* keys of archetypes that had been deleted, or archetypes without         *)
(* entities, if the client wrote, created and registered in the body, and  *)
(* whatever components were added twice or misplaced before.  The records   *)
(* of such a client always name slots (RecordsAreRight).                   *)
THEOREM WalksShowMatching ==
  ASSUME KeepsRecords
  PROVE  ViewsSpec => []ShowsMatching
<1>1. ASSUME ShowInv, Finished, TableIsListed
      PROVE  Shown = World!Matching(cursor.include, {cursor.chunk_id})
  <2>1. /\ WalkInv /\ IInv /\ Agreeing /\ ShownRight /\ Underway
        /\ cursor.include # {}
    BY <1>1 DEF ShowInv, Right, WalkInv, Finished, Underway, OnPath, Walks
  <2>2. /\ archetype_keys \in Seq(Keys) /\ Len(archetype_keys) \in Nat
        /\ cursor.last <= Len(archetype_keys) /\ cursor.last \in Nat
        /\ AmongFirst(archetype_keys, cursor.last, archetypes)
    <3>1. /\ archetype_keys \in Seq(Keys) /\ Len(archetype_keys) \in Nat
          /\ cursor.last <= Len(archetype_keys) /\ cursor.last \in Nat
          /\ AmongFirst(archetype_keys, Len(archetype_keys), archetypes)
               => AmongFirst(archetype_keys, cursor.last, archetypes)
      BY <2>1 DEF Underway, OnPath, Walks
    <3>2. AmongFirst(archetype_keys, Len(archetype_keys), archetypes)
      BY <1>1, <3>1 DEF TableIsListed, AmongFirst
    <3> QED BY <3>1, <3>2
  <2>3. ASSUME NEW e \in Entities
        PROVE  e \in Shown
                 <=> \E q \in 1 .. cursor.last :
                       /\ Matches(cursor, archetype_keys, q)
                       /\ \E j \in 1 .. Len(entities[archetype_keys[q]]) :
                            entities[archetype_keys[q]][j] = e
    BY <1>1, <2>1, FinishedVisited DEF Shown, ShownRight, ShowsVisited
  <2>4. ASSUME NEW e \in DOMAIN entity_index, NEW k \in Keys, NEW i \in Nat,
               InSlot(entity_index, entities, e, k, i)
        PROVE  /\ DOMAIN WorldOfIndex[e].components = k.signature
               /\ WorldOfIndex[e].chunk_id = entity_index[e].chunk_id
    BY <2>4, ReadsSlot, StoredIsStoredIn DEF WorldOfIndex, At
  <2>5. DOMAIN WorldOfIndex = DOMAIN entity_index
    BY DEF WorldOfIndex
  <2>6. ASSUME NEW e \in Shown
        PROVE  e \in World!Matching(cursor.include, {cursor.chunk_id})
    <3>1. e \in Entities
      BY DEF Shown
    <3>2. PICK q \in 1 .. cursor.last :
            /\ Matches(cursor, archetype_keys, q)
            /\ \E j \in 1 .. Len(entities[archetype_keys[q]]) :
                 entities[archetype_keys[q]][j] = e
      BY <2>3, <3>1
    <3> DEFINE k == archetype_keys[q]
    <3>3. k \in Keys /\ Len(entities[k]) \in Nat
      <4>1. k \in Keys
        BY <2>2
      <4> QED BY <2>1, <4>1 DEF IInv, StoreFits, IsStore
    <3>4. /\ k.chunk_id = cursor.chunk_id /\ cursor.include \subseteq k.signature
      BY <3>2 DEF Matches, Match
    <3> HIDE DEF k
    <3>5. PICK j \in 1 .. Len(entities[k]) : entities[k][j] = e
      BY <3>2 DEF k
    <3>6. /\ e \in DOMAIN entity_index
          /\ entity_index[e].entity_archetype = k
          /\ entity_index[e].index = j - 1
      BY <2>1, <3>3, <3>5, SlotSays
    <3>7. InSlot(entity_index, entities, e, k, j - 1) /\ j - 1 \in Nat
      BY <3>3, <3>5, <3>6 DEF InSlot
    <3>8. entity_index[e].chunk_id = k.chunk_id
      BY <2>1, <3>3, <3>6, PointerAssumption DEF Agreeing, Agree, RecordsRight
    <3> QED BY <2>4, <2>5, <3>3, <3>4, <3>6, <3>7, <3>8 DEF World!Matching
  <2>7. ASSUME NEW e \in World!Matching(cursor.include, {cursor.chunk_id})
        PROVE  e \in Shown
    <3>1. /\ e \in DOMAIN entity_index
          /\ cursor.include \subseteq DOMAIN WorldOfIndex[e].components
          /\ WorldOfIndex[e].chunk_id = cursor.chunk_id
      BY <2>5 DEF World!Matching
    <3>2. e \in Entities
      BY <2>1, <3>1, RecordFacts DEF IInv
    <3>3. entity_index[e].entity_archetype # nullptr
      <4> SUFFICES ASSUME entity_index[e].entity_archetype = nullptr
                   PROVE  FALSE
        OBVIOUS
      <4>1. Stored(e) = None
        BY ReadsNone, StoredIsStoredIn
      <4>2. DOMAIN WorldOfIndex[e].components = {}
        BY <3>1, <4>1 DEF WorldOfIndex, None
      <4> QED BY <2>1, <3>1, <4>2
    <3>4. PICK k \in Keys, i \in Nat :
            /\ InSlot(entity_index, entities, e, k, i)
            /\ entities[k][i + 1] = e
      BY <2>1, <3>1, <3>3, RightRecord DEF Agreeing
    <3>5. k.chunk_id = entity_index[e].chunk_id
      BY <2>1, <3>1, <3>3, <3>4 DEF Agreeing, Agree, RecordsRight, InSlot
    <3>6. /\ cursor.include \subseteq k.signature
          /\ k.chunk_id = cursor.chunk_id
      BY <2>4, <3>1, <3>4, <3>5
    <3>7. i + 1 \in 1 .. Len(entities[k])
      <4>1. i < Len(entities[k]) /\ Len(entities[k]) \in Nat
        BY <2>1, <3>4 DEF InSlot, IInv, StoreFits, IsStore
      <4> QED BY <4>1
    <3>8. k \in archetypes
      BY <2>1, <3>4, <3>7, SlotSays
    <3>9. PICK q \in 1 .. cursor.last : archetype_keys[q] = k
      BY <2>2, <3>8 DEF AmongFirst
    <3> QED BY <2>3, <3>2, <3>4, <3>6, <3>7, <3>9 DEF Matches, Match
  <2>8. /\ Shown \subseteq World!Matching(cursor.include, {cursor.chunk_id})
        /\ World!Matching(cursor.include, {cursor.chunk_id}) \subseteq Shown
    BY <2>6, <2>7
  <2> QED BY <2>8
<1>2. ShowInv => ShowsMatching
  BY <1>1 DEF ShowsMatching
<1> QED BY <1>2, ShowInvariant, PTL

(* For the same clients no walk shows an entity twice as long as the keys  *)
(* mirror the table.                                                       *)
THEOREM WalksShowOnce ==
  ASSUME KeepsRecords
  PROVE  ViewsSpec => []ShowsOnce
<1>1. ASSUME ShowInv, KeysMirrorTable, Walking
      PROVE  ShowsNoneTwice
  <2>1. ~ Doubled(archetype_keys)
    BY <1>1, MirroredOnce DEF ShowInv, WalkInv, IInv, Lists
  <2> QED BY <1>1, <2>1
          DEF ShowInv, ShownRight, ShowsOnceOrDoubled, ShowsNoneTwice
<1>2. ShowInv => ShowsOnce
  BY <1>1 DEF ShowsOnce, ShowsNoneTwice
<1> QED BY <1>2, ShowInvariant, PTL

-------------------------------------------------------------------------------
(* Walks stay within defined behaviour.                                    *)

(* An archetype without entities is one that for_each entered under a      *)
(* stale key, which is therefore listed twice, or no more at all if it was *)
(* mistaken for that of another archetype.                                 *)
ListedOnce(keys, k) ==
  Once(keys, Len(keys), k) /\ \E i \in 1 .. Len(keys) : keys[i] = k

EmptyNotOnce ==
  \A k \in archetypes : Size(k) > 0 \/ ~ ListedOnce(archetype_keys, k)

UndefinedUnmirrored ==
  Walking /\ status = "undefined" => ~ KeysMirrorTable

DefinedInv == WalkInv /\ EmptyNotOnce /\ UndefinedUnmirrored

(* How often the key of an archetype is listed does not change when others *)
(* are entered.                                                            *)
LEMMA ListedAsOften ==
  ASSUME archetype_keys \in Seq(Keys), NEW l \in Keys, NEW k \in archetypes,
         ~ ListedOnce(archetype_keys, k)
  PROVE  Listed(l) \in Seq(Keys) /\ ~ ListedOnce(Listed(l), k)
<1>1. CASE l \in archetypes
  BY <1>1 DEF Listed
<1>2. CASE l \notin archetypes
  <2> DEFINE keys == Append(archetype_keys, l)
             n == Len(archetype_keys)
  <2>1. /\ keys \in Seq(Keys) /\ n \in Nat /\ Len(keys) = n + 1
        /\ keys[n + 1] = l
        /\ \A q \in 1 .. n : keys[q] = archetype_keys[q]
    OBVIOUS
  <2>2. k # l /\ Listed(l) = keys
    BY <1>2 DEF Listed
  <2> HIDE DEF keys, n
  <2>3. \A q \in 1 .. n + 1 : keys[q] = k => q \in 1 .. n
    BY <2>1, <2>2
  <2>4. \A q \in 1 .. n : q \in 1 .. n + 1
    BY <2>1
  <2>5. Once(keys, Len(keys), k) <=> Once(archetype_keys, n, k)
    BY <2>1, <2>3, <2>4 DEF Once
  <2>6. (\E i \in 1 .. Len(keys) : keys[i] = k)
          <=> \E i \in 1 .. n : archetype_keys[i] = k
    BY <2>1, <2>3, <2>4
  <2> QED BY <2>1, <2>2, <2>5, <2>6 DEF ListedOnce, n
<1> QED BY <1>1, <1>2

(* Nor does it come to be listed once when a key is erased.                *)
LEMMA LeavingAsOften ==
  ASSUME NEW keys \in Seq(Keys), NEW old \in Keys, NEW k,
         NEW after \in KeysAfterLeaving(keys, old), ~ ListedOnce(keys, k)
  PROVE  ~ ListedOnce(after, k)
<1>1. CASE after = keys
  BY <1>1
<1>2. ASSUME NEW l \in Keys, after = erase(keys, l)
      PROVE  ~ ListedOnce(after, k)
  <2>1. IsErased(after, keys, l)
    BY <1>2, EraseProperties
  <2> QED BY <2>1 DEF ListedOnce, IsErased
<1> QED BY <1>1, <1>2 DEF KeysAfterLeaving, ErasedFrom, ReadAs

(* So no call lists the key of an archetype of the table once that was     *)
(* listed less or more often.                                              *)
LEMMA StepAsOften ==
  ASSUME IInv, [Next]_vars, NEW k \in archetypes,
         ~ ListedOnce(archetype_keys, k)
  PROVE  ~ ListedOnce(archetype_keys', k)
<1>1. archetype_keys \in Seq(Keys)
  BY DEF IInv, Lists
<1>2. CASE UNCHANGED <<archetypes, archetype_keys>>
  BY <1>2
<1>3. ASSUME NEW l \in Keys, archetype_keys' = Listed(l)
      PROVE  ~ ListedOnce(archetype_keys', k)
  BY <1>1, <1>3, ListedAsOften
<1>4. ASSUME NEW old \in Keys,
             archetype_keys' \in KeysAfterLeaving(archetype_keys, old)
      PROVE  ~ ListedOnce(archetype_keys', k)
  BY <1>1, <1>4, LeavingAsOften
<1>5. ASSUME NEW old \in Keys, NEW new \in Keys,
             archetype_keys' \in KeysAfterLeaving(Listed(new), old)
      PROVE  ~ ListedOnce(archetype_keys', k)
  <2>1. Listed(new) \in Seq(Keys) /\ ~ ListedOnce(Listed(new), k)
    BY <1>1, ListedAsOften
  <2> QED BY <1>5, <2>1, LeavingAsOften
<1>6. CASE archetype_keys' = << >>
  BY <1>6 DEF ListedOnce
<1>7. CASE UNCHANGED vars
  BY <1>2, <1>7 DEF vars, storeVars
<1>8. CASE Step
  BY <1>2, <1>3, <1>4, <1>5, <1>6, <1>8, MapStep
<1> QED BY <1>7, <1>8 DEF Next

(* No call empties an archetype and leaves it in the table, unless a       *)
(* create<Cs...> throws.                                                   *)
LEMMA StepEmptyNotOnce ==
  ASSUME "create_unregistered" \notin Calls, IInv, EmptyNotOnce, [Next]_vars
  PROVE  EmptyNotOnce'
<1> SUFFICES ASSUME NEW k \in archetypes', ~ (Len(entities'[k]) > 0)
             PROVE  ~ ListedOnce(archetype_keys', k)
  BY DEF EmptyNotOnce, Size
<1>1. k \in archetypes /\ Size(k) = 0
  BY StepEmptiesNone DEF NoneEmptied
<1>2. ~ ListedOnce(archetype_keys, k)
  BY <1>1 DEF EmptyNotOnce
<1> QED BY <1>1, <1>2, StepAsOften

(* for_each lists the key that it enters anew where it stands and at the   *)
(* end.                                                                    *)
LEMMA RecreatedNotOnce ==
  ASSUME WalkInv, EmptyNotOnce, RecreateStale
  PROVE  EmptyNotOnce'
<1> DEFINE n == Len(archetype_keys)
<1>1. /\ AtKey /\ Key \notin archetypes /\ entities' = entities
      /\ archetypes' = archetypes \cup {Key}
      /\ archetype_keys' = Append(archetype_keys, Key)
      /\ archetype_keys' = Listed(Key)
  BY DEF RecreateStale, Listed
<1>2. /\ cursor.pos \in 1 .. cursor.last /\ cursor.last \in Nat
      /\ cursor.last <= n /\ n \in Nat
      /\ Key \in Keys /\ Key = archetype_keys[cursor.pos]
      /\ archetype_keys \in Seq(Keys)
  BY <1>1, AtKeyFacts DEF Underway, OnPath, Key
<1>3. ~ ListedOnce(archetype_keys', Key)
  <2>1. /\ cursor.pos \in 1 .. n /\ cursor.pos \in 1 .. n + 1
        /\ n + 1 \in 1 .. n + 1 /\ cursor.pos # n + 1
    BY <1>2
  <2>2. /\ Len(archetype_keys') = n + 1
        /\ archetype_keys'[n + 1] = Key
        /\ \A q \in 1 .. n : archetype_keys'[q] = archetype_keys[q]
    <3> DEFINE keys == archetype_keys
    <3>1. keys \in Seq(Keys) /\ Key \in Keys /\ n = Len(keys)
      BY <1>2
    <3> HIDE DEF keys, n
    <3>2. /\ Len(Append(keys, Key)) = n + 1
          /\ Append(keys, Key)[n + 1] = Key
          /\ \A q \in 1 .. n : Append(keys, Key)[q] = keys[q]
      BY <3>1
    <3> QED BY <1>1, <3>2 DEF keys
  <2> QED BY <1>2, <2>1, <2>2 DEF ListedOnce, Once
<1>4. ASSUME NEW k \in archetypes
      PROVE  Len(entities[k]) > 0 \/ ~ ListedOnce(archetype_keys', k)
  BY <1>1, <1>2, ListedAsOften DEF EmptyNotOnce, Size
<1> QED BY <1>1, <1>3, <1>4 DEF EmptyNotOnce, Size

(* A walk meets the key of a deleted archetype, or an archetype without    *)
(* entities, only while the keys do not mirror the table.                  *)
LEMMA UndefinedWhenUnmirrored ==
  ASSUME WalkInv, EmptyNotOnce, WalkUndefined
  PROVE  ~ KeysMirrorTable
<1>1. AtKey /\ (Key \notin archetypes \/ Size(Key) = 0)
  BY DEF WalkUndefined
<1>2. /\ cursor.pos \in 1 .. cursor.last /\ cursor.last \in Nat
      /\ cursor.last <= Len(archetype_keys) /\ Len(archetype_keys) \in Nat
      /\ Key \in Keys /\ Key = archetype_keys[cursor.pos]
      /\ archetype_keys \in Seq(Keys)
  BY <1>1, AtKeyFacts DEF Underway, OnPath, Key
<1>3. CASE Key \notin archetypes
  <2>1. cursor.pos \in DOMAIN archetype_keys
    BY <1>2
  <2> QED BY <1>2, <1>3, <2>1 DEF KeysMirrorTable
<1>4. CASE Key \in archetypes /\ Size(Key) = 0
  <2>1. ~ ListedOnce(archetype_keys, Key)
    BY <1>4 DEF EmptyNotOnce
  <2>2. cursor.pos \in 1 .. Len(archetype_keys)
    BY <1>2
  <2>3. ~ Once(archetype_keys, Len(archetype_keys), Key)
    BY <1>2, <2>1, <2>2 DEF ListedOnce
  <2> QED BY <1>2, <2>3 DEF Once, KeysMirrorTable
<1> QED BY <1>1, <1>3, <1>4

(* Every step keeps DefinedInv.                                            *)
LEMMA DefinedStep ==
  "create_unregistered" \notin Calls /\ DefinedInv /\ [ViewsNext]_viewVars
    => DefinedInv'
<1> SUFFICES ASSUME "create_unregistered" \notin Calls, DefinedInv,
                    [ViewsNext]_viewVars
             PROVE  EmptyNotOnce' /\ UndefinedUnmirrored'
  BY ViewsStepPreserves DEF DefinedInv
<1>1. WalkInv /\ IInv /\ EmptyNotOnce /\ UndefinedUnmirrored
  BY DEF DefinedInv, WalkInv
<1>2. ASSUME [Next]_vars PROVE EmptyNotOnce'
  BY <1>1, <1>2, StepEmptyNotOnce
<1>3. CASE UNCHANGED viewVars
  <2>1. UNCHANGED vars /\ UNCHANGED <<cursor, status, archetypes, archetype_keys>>
    BY <1>3 DEF viewVars, vars, storeVars
  <2> QED BY <1>1, <1>2, <2>1 DEF UndefinedUnmirrored, Walking, KeysMirrorTable
<1>4. CASE ~ Walking /\ Step /\ UNCHANGED cursor /\ WithinBounds'
  BY <1>2, <1>4 DEF Next, UndefinedUnmirrored, Walking
<1>5. CASE Walking /\ BodyStep /\ UNCHANGED cursor /\ WithinBounds'
  BY <1>2, <1>5, BodyFacts DEF Next, UndefinedUnmirrored
<1>6. ASSUME status = "running", UNCHANGED vars
      PROVE  EmptyNotOnce' /\ UndefinedUnmirrored'
  BY <1>2, <1>6 DEF vars, UndefinedUnmirrored
<1>7. CASE \/ \E walk \in {"view", "for_each"}, chunk \in Chunks,
                include \in (SUBSET Components) \ {{}} :
                Begin(walk, include, chunk)
           \/ Visit \/ SkipEmpty \/ End
  BY <1>6, <1>7 DEF Begin, Visit, SkipEmpty, End, AtKey
<1>8. CASE RecreateStale
  <2>1. status' = "running"
    BY <1>8 DEF RecreateStale, AtKey
  <2> QED BY <1>1, <1>8, <2>1, RecreatedNotOnce DEF UndefinedUnmirrored
<1>9. CASE WalkUndefined
  <2>1. UNCHANGED <<archetypes, archetype_keys, entities>>
    BY <1>9 DEF WalkUndefined, BecomesUndefined, storeVars
  <2>2. ~ KeysMirrorTable
    BY <1>1, <1>9, UndefinedWhenUnmirrored
  <2> QED BY <1>1, <2>1, <2>2
          DEF EmptyNotOnce, Size, UndefinedUnmirrored, KeysMirrorTable
<1> QED BY <1>3, <1>4, <1>5, <1>7, <1>8, <1>9 DEF ViewsNext, WalkStep

(* Unless a create<Cs...> throws, a walk stays within defined behaviour as *)
(* long as the keys mirror the table: it finds an entity in the first      *)
(* slot of every archetype it comes to.  This holds for every client, and  *)
(* whatever the freed key of a deleted archetype reads as; it may hold a   *)
(* stale key, or an empty archetype entered under one, only while the      *)
(* vector does not mirror the table.                                       *)
THEOREM WalksStayDefined ==
  ASSUME "create_unregistered" \notin Calls
  PROVE  ViewsSpec => []WalksAreDefined
<1>1. ViewsInit => DefinedInv
  BY InitEstablishes
     DEF ViewsInit, Init, DefinedInv, WalkInv, EmptyNotOnce, UndefinedUnmirrored,
         Walking
<1>2. DefinedInv /\ [ViewsNext]_viewVars => DefinedInv'
  BY DefinedStep
<1>3. DefinedInv => WalksAreDefined
  BY DEF DefinedInv, UndefinedUnmirrored, WalksAreDefined
<1> QED BY <1>1, <1>2, <1>3, PTL DEF ViewsSpec

===============================================================================

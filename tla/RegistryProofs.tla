---------------------------- MODULE RegistryProofs ----------------------------
(***************************************************************************)
(* What holds of the registry for every client: its types, that arrays     *)
(* have room for the entities of their archetype, and that views find      *)
(* every archetype of the table unless the key of a deleted one is         *)
(* mistaken for another.  Calls is any set of calls, those whose effect    *)
(* breaks the correspondence of records and slots included.                *)
(*                                                                         *)
(* The three are proved together: the components that add and remove move  *)
(* are typed because the slot of a record lies within the arrays, which is *)
(* what CapacityCovers says.                                               *)
(*                                                                         *)
(* On them rest the theorems about the archetype map and the objects, and  *)
(* those about records and slots, for the clients named with each.         *)
(***************************************************************************)
EXTENDS Registry, StorageProofs

(***************************************************************************)
(* The parts of the invariant.                                             *)
(***************************************************************************)

(* Arrays of the archetype k that have room for n entities.                *)
Fit(arrays, k, n) ==
  /\ DOMAIN arrays = Components
  /\ \A c \in Components :
       /\ IsByteArray(arrays[c], Values)
       /\ c \in k.signature => n <= arrays[c].size

(* Entities and arrays of all archetypes, fitting each other.              *)
IsStore(ents, arrays) ==
  /\ ents \in [Keys -> Seq(Entities)]
  /\ DOMAIN arrays = Keys
  /\ \A k \in Keys : Fit(arrays[k], k, Len(ents[k]))

StoreFits == IsStore(entities, byte_arrays)

(* An entity_index is a finite map to records.                             *)
IsIndex(index) ==
  /\ DOMAIN index \subseteq Entities
  /\ index \in [DOMAIN index -> Records]

(* The memory of a freed key does not come to hold another key.            *)
NeverMistaken == "another" \notin FreedReads

(* A vector of keys in which every key of the set T is listed, if erase    *)
(* takes none away by mistake.                                             *)
Lists(keys, T) ==
  /\ keys \in Seq(Keys)
  /\ NeverMistaken => \A k \in T : \E i \in 1 .. Len(keys) : keys[i] = k

IdsOK == Dispenser!TypeOK

IInv ==
  /\ IsIndex(entity_index)
  /\ component_map \subseteq Components
  /\ archetypes \subseteq Keys
  /\ Lists(archetype_keys, archetypes)
  /\ StoreFits
  /\ IdsOK
  /\ status \in {"running", "undefined", "destroyed", "terminated"}

(* IInv is the conjunction of the three properties, the last under its     *)
(* condition.                                                              *)
LEMMA IInvIsConjunction ==
  IInv <=> /\ TypeOK
           /\ CapacityCovers
           /\ NeverMistaken => TableIsListed
<1>1. ASSUME archetype_keys \in Seq(Keys)
      PROVE  Lists(archetype_keys, archetypes)
               <=> (NeverMistaken => TableIsListed)
  BY <1>1 DEF Lists, TableIsListed
<1>2. ASSUME entities \in [Keys -> Seq(Entities)], DOMAIN byte_arrays = Keys
      PROVE  StoreFits
               <=> /\ \A k \in Keys :
                        /\ DOMAIN byte_arrays[k] = Components
                        /\ \A c \in Components :
                             IsByteArray(byte_arrays[k][c], Values)
                   /\ CapacityCovers
  <2>1. \A k \in Keys : k.signature \subseteq Components
    BY DEF Keys
  <2> QED BY <1>2, <2>1 DEF StoreFits, IsStore, Fit, CapacityCovers, Size
<1> QED BY <1>1, <1>2 DEF IInv, TypeOK, IsIndex, IdsOK, StoreFits,
                            IsStore, Lists

-------------------------------------------------------------------------------
(* Keys and the index.                                                     *)

(* Gaining or losing a component turns a key into a key.                   *)
LEMMA KeyFacts ==
  ASSUME NEW k \in Keys, NEW c \in Components
  PROVE  /\ k.signature \subseteq Components
         /\ k.chunk_id \in Chunks
         /\ WithComponent(k, c) \in Keys
         /\ WithComponent(k, c).signature = k.signature \cup {c}
         /\ WithoutComponent(k, c).signature = k.signature \ {c}
         /\ WithoutComponent(k, c).signature # {} =>
              WithoutComponent(k, c) \in Keys
BY DEF Keys, WithComponent, WithoutComponent

(* The fields of a record that is in the index.                            *)
LEMMA RecordFacts ==
  ASSUME IsIndex(entity_index), NEW e \in DOMAIN entity_index
  PROVE  /\ e \in Entities
         /\ entity_index[e].index \in Nat
         /\ entity_index[e].chunk_id \in Chunks
         /\ entity_index[e].entity_archetype \in Keys \cup {nullptr, dangling}
BY DEF IsIndex, Records

(* emplace keeps the index an index.                                       *)
LEMMA EmplacedIsIndex ==
  ASSUME IsIndex(entity_index), NEW e \in Entities, NEW chunk \in Chunks
  PROVE  IsIndex(Emplaced(e, chunk)) /\ e \in DOMAIN Emplaced(e, chunk)
BY DEF IsIndex, Emplaced, Records

(* So does giving an entity a slot in the archetype of a key.              *)
LEMMA PlacedIsIndex ==
  ASSUME NEW index, IsIndex(index), NEW e \in DOMAIN index, NEW k \in Keys,
         NEW n \in Nat
  PROVE  IsIndex(Placed(index, e, k, n))
BY DEF IsIndex, Placed, Records

(* So does vacating a slot of an archetype.                                *)
LEMMA VacatedIsIndex ==
  ASSUME IsIndex(entity_index), NEW k \in Keys, NEW x \in Nat
  PROVE  /\ IsIndex(Vacated(k, x))
         /\ DOMAIN Vacated(k, x) = DOMAIN entity_index
BY DEF IsIndex, Vacated, Records

-------------------------------------------------------------------------------
(* The dispenser.                                                          *)

(* The dispenser keeps its type when it hands an id out.                   *)
LEMMA IdsAfterGet ==
  ASSUME IdsOK, NEW e \in Entities, Dispenser!Get(e)
  PROVE  IdsOK'
<1>1. CASE Dispenser!GetFresh(e)
  BY <1>1, BoundsAssumption
     DEF IdsOK, Dispenser!TypeOK, Dispenser!GetFresh, Dispenser!Ids, Entities
<1>2. CASE Dispenser!GetRecycled(e)
  BY <1>2, HeadTailProperties
     DEF IdsOK, Dispenser!TypeOK, Dispenser!GetRecycled
<1> QED BY <1>1, <1>2 DEF Dispenser!Get

(* It keeps its type when the id of an entity is freed.                    *)
LEMMA IdsAfterFree ==
  ASSUME IdsOK, NEW e \in Entities, Dispenser!Free(e)
  PROVE  IdsOK'
BY BoundsAssumption
   DEF IdsOK, Dispenser!TypeOK, Dispenser!Free, Dispenser!Ids, Entities

-------------------------------------------------------------------------------
(* The vector of keys.                                                     *)

(* get lists the archetype it enters and unlists none.                     *)
LEMMA ListedLists ==
  ASSUME Lists(archetype_keys, archetypes), NEW k \in Keys
  PROVE  Lists(Listed(k), archetypes \cup {k})
<1>1. CASE k \in archetypes
  BY <1>1 DEF Lists, Listed
<1>2. CASE k \notin archetypes
  <2> DEFINE keys == Append(archetype_keys, k)
  <2>1. /\ keys \in Seq(Keys)
        /\ Len(archetype_keys) \in Nat
        /\ Len(keys) = Len(archetype_keys) + 1
        /\ keys[Len(keys)] = k
        /\ \A i \in 1 .. Len(archetype_keys) : keys[i] = archetype_keys[i]
    BY DEF Lists
  <2>2. /\ 1 .. Len(archetype_keys) \subseteq 1 .. Len(keys)
        /\ Len(keys) \in 1 .. Len(keys)
    BY <2>1
  <2> HIDE DEF keys
  <2>3. Lists(keys, archetypes \cup {k})
    BY <2>1, <2>2 DEF Lists
  <2> QED BY <1>2, <2>3 DEF keys, Listed
<1> QED BY <1>1, <1>2

(* Whether or not the freed key can be read, only the archetype that was   *)
(* deleted may be missing from the vector, unless the key is mistaken for  *)
(* another.                                                                *)
LEMMA KeysAfterLeavingLists ==
  ASSUME NEW keys, NEW T, Lists(keys, T), NEW k \in Keys,
         NEW after \in KeysAfterLeaving(keys, k)
  PROVE  Lists(after, T \ Deleted(k))
<1>1. CASE after = keys
  BY <1>1 DEF Lists
<1>2. CASE Size(k) = 1 /\ after = erase(keys, k)
  <2>1. erase(keys, k) \in Seq(Keys) /\ IsErased(erase(keys, k), keys, k)
    BY EraseProperties DEF Lists
  <2> QED BY <1>2, <2>1 DEF Lists, IsErased, Deleted
<1>3. ASSUME ~ NeverMistaken, NEW l \in Keys, after = erase(keys, l)
      PROVE  Lists(after, T \ Deleted(k))
  BY <1>3, EraseProperties DEF Lists
<1>4. after = keys \/ (Size(k) = 1 /\ \E l \in ReadAs(k) : after = erase(keys, l))
  BY DEF KeysAfterLeaving, ErasedFrom
<1>5. \A l \in ReadAs(k) : l \in Keys /\ (l = k \/ ~ NeverMistaken)
  BY DEF ReadAs, NeverMistaken
<1> QED BY <1>1, <1>2, <1>3, <1>4, <1>5

-------------------------------------------------------------------------------
(* Entities and arrays.                                                    *)

(* An entity pushed at the end of the entities of an archetype.            *)
LEMMA AppendFacts ==
  ASSUME NEW s \in Seq(Entities), NEW e \in Entities
  PROVE  /\ Append(s, e) \in Seq(Entities)
         /\ Len(Append(s, e)) = Len(s) + 1
OBVIOUS

(* The entities of an archetype after one of them has left.                *)
LEMMA WithoutSlotFacts ==
  ASSUME NEW s \in Seq(Entities), NEW x \in Nat, x < Len(s)
  PROVE  /\ WithoutSlot(s, x) \in Seq(Entities)
         /\ Len(WithoutSlot(s, x)) = Len(s) - 1
<1>1. Len(s) \in Nat /\ Len(s) - 1 \in Nat
  OBVIOUS
<1>2. \A i \in 1 .. Len(s) - 1 : WithoutSlot(s, x)[i] \in Entities
  BY <1>1 DEF WithoutSlot
<1>3. WithoutSlot(s, x) \in [1 .. Len(s) - 1 -> Entities]
  BY <1>2 DEF WithoutSlot
<1> QED BY <1>1, <1>3

(* No arrays are enough for no entities.                                   *)
LEMMA NoArraysFit ==
  ASSUME NEW k \in Keys
  PROVE  Fit(NoArrays, k, 0)
<1>1. 0 .. 0 - 1 = {}
  OBVIOUS
<1>2. NewArray.size = 0 /\ NewArray.data \in [0 .. 0 - 1 -> Values \cup {raw}]
  BY <1>1 DEF NewArray
<1>3. IsByteArray(NewArray, Values)
  BY <1>2 DEF NewArray, IsByteArray
<1> QED BY <1>2, <1>3 DEF Fit, NoArrays

(* Arrays that are large enough are so for fewer entities.                 *)
LEMMA FitsFewer ==
  ASSUME NEW arrays, NEW k, NEW n \in Nat, NEW m \in Nat, m <= n,
         Fit(arrays, k, n)
  PROVE  Fit(arrays, k, m)
BY DEF Fit, IsByteArray

(* One archetype changes.                                                  *)
LEMMA StoreUpdate ==
  ASSUME NEW ents, NEW arrays, IsStore(ents, arrays), NEW k \in Keys,
         NEW s \in Seq(Entities), NEW a, Fit(a, k, Len(s))
  PROVE  IsStore([ents EXCEPT ![k] = s], [arrays EXCEPT ![k] = a])
BY DEF IsStore

(* Two archetypes change.                                                  *)
LEMMA StoreUpdates ==
  ASSUME NEW ents, NEW arrays, IsStore(ents, arrays),
         NEW k \in Keys, NEW s \in Seq(Entities), NEW a, Fit(a, k, Len(s)),
         NEW l \in Keys, NEW t \in Seq(Entities), NEW b, Fit(b, l, Len(t)),
         k # l
  PROVE  IsStore([ents EXCEPT ![k] = s, ![l] = t],
                 [arrays EXCEPT ![k] = a, ![l] = b])
BY DEF IsStore

(* The object an entity has in a slot is a value, or there is none.        *)
LEMMA SlotFacts ==
  ASSUME StoreFits, NEW k \in Keys, NEW c \in k.signature, NEW x \in Nat,
         x < Size(k)
  PROVE  /\ IsByteArray(byte_arrays[k][c], Values)
         /\ Size(k) \in Nat \ {0}
         /\ Size(k) <= byte_arrays[k][c].size
         /\ byte_arrays[k][c].data[x] \in Values \cup {raw}
<1>1. c \in Components
  BY DEF Keys
<1>2. entities[k] \in Seq(Entities) /\ Size(k) \in Nat
  BY DEF StoreFits, IsStore, Size
<1>3. /\ IsByteArray(byte_arrays[k][c], Values)
      /\ Size(k) <= byte_arrays[k][c].size
  BY <1>1 DEF StoreFits, IsStore, Fit, Size
<1>4. byte_arrays[k][c].data[x] \in Values \cup {raw}
  BY <1>2, <1>3 DEF IsByteArray
<1> QED BY <1>2, <1>3, <1>4

-------------------------------------------------------------------------------
(* One lemma per call: the call preserves IInv.                            *)

(* create(chunk).                                                          *)
LEMMA CreatePreserves ==
  ASSUME IInv, NEW chunk \in Chunks, Create(chunk)
  PROVE  IInv'
<1>1. PICK e \in Entities : /\ Dispenser!Get(e)
                           /\ entity_index' = Emplaced(e, chunk)
  BY DEF Create
<1>2. IsIndex(entity_index)'
  BY <1>1, EmplacedIsIndex DEF IInv, IsIndex
<1>3. IdsOK'
  BY <1>1, IdsAfterGet DEF IInv
<1> QED BY <1>2, <1>3 DEF IInv, Create, storeVars, StoreFits

(* The types create<Cs...> is called with make a key.                      *)
LEMMA PayloadFacts ==
  ASSUME NEW chunk \in Chunks, NEW vals \in Payloads
  PROVE  /\ DOMAIN vals \subseteq Components
         /\ \A c \in DOMAIN vals : vals[c] \in Values
         /\ [signature |-> DOMAIN vals, chunk_id |-> chunk] \in Keys
BY DEF Payloads, Keys

(* create<Cs...>(chunk, cs...) of registered components.                   *)
LEMMA CreateWithPreserves ==
  ASSUME IInv, NEW chunk \in Chunks, NEW vals \in Payloads,
         CreateWith(chunk, vals)
  PROVE  IInv'
<1> DEFINE k == [signature |-> DOMAIN vals, chunk_id |-> chunk]
           F == [c \in Components |->
                   IF c \in DOMAIN vals
                   THEN emplace_component(byte_arrays[k][c], Size(k), vals[c])
                   ELSE byte_arrays[k][c]]
<1>1. k \in Keys /\ k.signature = DOMAIN vals
  BY PayloadFacts
<1>2. PICK e \in Entities :
        /\ Dispenser!Get(e)
        /\ entity_index' = Placed(Emplaced(e, chunk), e, k, Size(k))
        /\ entities' = [entities EXCEPT ![k] = Append(@, e)]
  BY DEF CreateWith
<1>3. /\ archetypes' = archetypes \cup {k}
      /\ archetype_keys' = Listed(k)
      /\ byte_arrays' = [byte_arrays EXCEPT ![k] = F]
      /\ component_map' = component_map /\ status' = status
  BY DEF CreateWith
<1>4. entities[k] \in Seq(Entities) /\ Size(k) \in Nat /\ Fit(byte_arrays[k], k, Size(k))
  BY <1>1 DEF IInv, StoreFits, IsStore, Size
<1>5. Fit(F, k, Size(k) + 1)
  BY <1>1, <1>4, EmplaceArray, PayloadFacts DEF Fit
<1> HIDE DEF k, F
<1>6. IsIndex(entity_index)'
  BY <1>1, <1>2, <1>4, EmplacedIsIndex, PlacedIsIndex DEF IInv, IsIndex
<1>7. StoreFits'
  BY <1>1, <1>2, <1>3, <1>4, <1>5, AppendFacts, StoreUpdate
     DEF IInv, StoreFits, Size
<1>8. Lists(archetype_keys, archetypes)' /\ archetypes' \subseteq Keys
  BY <1>1, <1>3, ListedLists DEF IInv, Lists
<1>9. IdsOK'
  BY <1>2, IdsAfterGet DEF IInv
<1> QED BY <1>3, <1>6, <1>7, <1>8, <1>9 DEF IInv

(* create<Cs...>(chunk, cs...) that throws midway.                         *)
LEMMA CreateWithThrowsPreserves ==
  ASSUME IInv, NEW chunk \in Chunks, NEW vals \in Payloads,
         NEW built \in SUBSET Components, CreateWithThrows(chunk, vals, built)
  PROVE  IInv'
<1> DEFINE k == [signature |-> DOMAIN vals, chunk_id |-> chunk]
           F == [c \in Components |->
                   IF c \in built
                   THEN emplace_component(byte_arrays[k][c], Size(k), vals[c])
                   ELSE byte_arrays[k][c]]
<1>1. k \in Keys /\ k.signature = DOMAIN vals /\ built \subseteq DOMAIN vals
  BY PayloadFacts DEF CreateWithThrows
<1>2. PICK e \in Entities : /\ Dispenser!Get(e)
                           /\ entity_index' = Emplaced(e, chunk)
  BY DEF CreateWithThrows
<1>3. /\ archetypes' = archetypes \cup {k}
      /\ archetype_keys' = Listed(k)
      /\ byte_arrays' = [byte_arrays EXCEPT ![k] = F]
      /\ entities' = entities
      /\ component_map' = component_map /\ status' = status
  BY DEF CreateWithThrows
<1>4. entities[k] \in Seq(Entities) /\ Size(k) \in Nat /\ Fit(byte_arrays[k], k, Size(k))
  BY <1>1 DEF IInv, StoreFits, IsStore, Size
<1>5. Fit(F, k, Size(k))
  <2>1. ASSUME NEW c \in Components, c \in built
        PROVE  IsByteArray(F[c], Values) /\ Size(k) <= F[c].size
    <3>1. /\ IsByteArray(byte_arrays[k][c], Values)
          /\ Size(k) <= byte_arrays[k][c].size
          /\ vals[c] \in Values \cup {raw}
      BY <1>1, <1>4, <2>1, PayloadFacts DEF Fit
    <3>2. /\ IsByteArray(F[c], Values)
          /\ F[c].size >= Size(k) + 1
      <4> DEFINE a == byte_arrays[k][c]
                 n == Size(k)
      <4>1. F[c] = emplace_component(a, n, vals[c])
        BY <2>1
      <4> HIDE DEF a, n, F
      <4>2. IsByteArray(a, Values) /\ n \in Nat /\ n <= a.size
        BY <1>4, <3>1 DEF a, n
      <4>3. /\ IsByteArray(emplace_component(a, n, vals[c]), Values)
            /\ emplace_component(a, n, vals[c]).size >= n + 1
        BY <3>1, <4>2, EmplaceArray
      <4> QED BY <4>1, <4>3 DEF n
    <3>3. F[c].size \in Nat
      BY <3>2 DEF IsByteArray
    <3> HIDE DEF F
    <3> QED BY <1>4, <3>2, <3>3
  <2> QED BY <1>4, <2>1 DEF Fit
<1> HIDE DEF k, F
<1>6. IsIndex(entity_index)'
  BY <1>2, EmplacedIsIndex DEF IInv, IsIndex
<1>7. StoreFits'
  BY <1>1, <1>3, <1>4, <1>5 DEF IInv, StoreFits, IsStore, Size
<1>8. Lists(archetype_keys, archetypes)' /\ archetypes' \subseteq Keys
  BY <1>1, <1>3, ListedLists DEF IInv, Lists
<1>9. IdsOK'
  BY <1>2, IdsAfterGet DEF IInv
<1> QED BY <1>3, <1>6, <1>7, <1>8, <1>9 DEF IInv

(* Calls that do no more than register a component.                        *)
LEMMA RegistrationPreserves ==
  ASSUME IInv, NEW c \in Components,
         Save(c) \/ \E e \in DOMAIN entity_index : RemoveAbsent(e, c)
  PROVE  IInv'
<1>1. /\ UNCHANGED <<entity_index, archetypes, archetype_keys, entities,
                     byte_arrays, recycled, id_count>>
      /\ component_map' \subseteq Components
      /\ status' = status
  BY DEF IInv, Save, RemoveAbsent, storeVars, idVars
<1> QED BY <1>1 DEF IInv, IsIndex, StoreFits, IdsOK, Dispenser!TypeOK

(* remove(entity).                                                         *)
LEMMA RemoveEntityPreserves ==
  ASSUME IInv, NEW e \in DOMAIN entity_index, RemoveEntity(e)
  PROVE  IInv'
<1>1. /\ UNCHANGED <<entity_index, component_map, archetypes, archetype_keys,
                     entities, byte_arrays, status>>
      /\ Dispenser!Free(e)
  BY DEF RemoveEntity, storeVars
<1>2. e \in Entities
  BY RecordFacts DEF IInv
<1>3. IdsOK'
  BY <1>1, <1>2, IdsAfterFree DEF IInv
<1> QED BY <1>1, <1>3 DEF IInv, IsIndex, StoreFits

(* ~registry.                                                              *)
LEMMA DestroyPreserves ==
  ASSUME IInv, Destroy
  PROVE  IInv'
<1>1. StoreFits'
  <2>1. << >> \in Seq(Entities) /\ Len(<< >>) = 0
    BY EmptySeq
  <2>2. \A k \in Keys : Fit(NoArrays, k, 0)
    BY NoArraysFit
  <2> QED BY <2>1, <2>2 DEF Destroy, StoreFits, IsStore
<1>2. IsIndex(entity_index)'
  BY DEF Destroy, IsIndex
<1>3. IdsOK'
  <2>1. << >> \in Seq(Dispenser!Ids)
    BY EmptySeq
  <2> QED BY <2>1, BoundsAssumption
          DEF Destroy, IdsOK, Dispenser!TypeOK, Dispenser!Ids
<1>4. Lists(archetype_keys, archetypes)' /\ archetypes' = {}
  BY EmptySeq DEF Destroy, Lists
<1> QED BY <1>1, <1>2, <1>3, <1>4 DEF Destroy, IInv

(* add of the first component of an entity.                                *)
LEMMA AddFirstPreserves ==
  ASSUME IInv, NEW e \in DOMAIN entity_index, NEW c \in Components,
         NEW v \in Values, AddFirst(e, c, v)
  PROVE  IInv'
<1> DEFINE k == [signature |-> {c}, chunk_id |-> entity_index[e].chunk_id]
           F == [byte_arrays[k] EXCEPT ![c] = emplace_component(@, Size(k), v)]
<1>1. k \in Keys /\ k.signature = {c} /\ e \in Entities
  BY RecordFacts DEF Keys, IInv
<1>2. /\ entity_index' = Placed(entity_index, e, k, Size(k))
      /\ entities' = [entities EXCEPT ![k] = Append(@, e)]
      /\ archetypes' = archetypes \cup {k}
      /\ archetype_keys' = Listed(k)
      /\ byte_arrays' = [byte_arrays EXCEPT ![k] = F]
      /\ component_map' = component_map \cup {c}
      /\ UNCHANGED <<recycled, id_count, status>>
  BY DEF AddFirst, idVars
<1>3. entities[k] \in Seq(Entities) /\ Size(k) \in Nat /\ Fit(byte_arrays[k], k, Size(k))
  BY <1>1 DEF IInv, StoreFits, IsStore, Size
<1>4. Fit(F, k, Size(k) + 1)
  BY <1>1, <1>3, EmplaceArray DEF Fit
<1> HIDE DEF k, F
<1>5. IsIndex(entity_index)'
  BY <1>1, <1>2, <1>3, PlacedIsIndex DEF IInv, IsIndex
<1>6. StoreFits'
  BY <1>1, <1>2, <1>3, <1>4, AppendFacts, StoreUpdate DEF IInv, StoreFits, Size
<1>7. Lists(archetype_keys, archetypes)' /\ archetypes' \subseteq Keys
  BY <1>1, <1>2, ListedLists DEF IInv, Lists
<1> QED BY <1>2, <1>5, <1>6, <1>7 DEF IInv, IdsOK, Dispenser!TypeOK

(* What calls for an entity that sits in a slot start from.                *)
LEMMA HasSlotFacts ==
  ASSUME IInv, NEW e \in DOMAIN entity_index, HasSlot(e),
         NEW k, k = entity_index[e].entity_archetype,
         NEW x, x = entity_index[e].index
  PROVE  /\ e \in Entities
         /\ k \in Keys
         /\ k.signature \subseteq Components
         /\ x \in Nat
         /\ x < Size(k)
         /\ Size(k) \in Nat \ {0}
         /\ entities[k] \in Seq(Entities)
         /\ Size(k) = Len(entities[k])
         /\ Fit(byte_arrays[k], k, Size(k))
<1>1. e \in Entities /\ x \in Nat
  BY RecordFacts DEF IInv
<1>2. k \in Keys /\ x < Size(k)
  BY DEF HasSlot, HasArchetype
<1>3. entities[k] \in Seq(Entities) /\ Fit(byte_arrays[k], k, Size(k))
  BY <1>2 DEF IInv, StoreFits, IsStore, Size
<1>4. k.signature \subseteq Components
  BY <1>2 DEF Keys
<1> QED BY <1>1, <1>2, <1>3, <1>4 DEF Size

(* An assignment to a component.                                           *)
LEMMA WritePreserves ==
  ASSUME IInv, NEW e \in DOMAIN entity_index, NEW c \in Components,
         NEW v \in Values, Write(e, c, v)
  PROVE  IInv'
<1> DEFINE k == entity_index[e].entity_archetype
           x == entity_index[e].index
           F == [byte_arrays[k] EXCEPT ![c] = construct(@, x, v)]
<1>1. /\ k \in Keys
      /\ entities[k] \in Seq(Entities)
      /\ Size(k) = Len(entities[k])
      /\ Fit(byte_arrays[k], k, Size(k))
  BY HasSlotFacts DEF Write
<1>2. /\ byte_arrays' = [byte_arrays EXCEPT ![k] = F]
      /\ UNCHANGED <<entity_index, component_map, archetypes, archetype_keys,
                     entities, recycled, id_count, status>>
  BY DEF Write, idVars
<1>3. Fit(F, k, Size(k))
  BY <1>1, ConstructArray DEF Fit
<1> HIDE DEF k, x, F
<1>4. StoreFits'
  BY <1>1, <1>2, <1>3 DEF IInv, StoreFits, IsStore, Size
<1> QED BY <1>2, <1>4 DEF IInv, IsIndex, IdsOK, Dispenser!TypeOK

(* The arrays of the archetype that an entity has moved out of.            *)
LEMMA MovedOutFit ==
  ASSUME StoreFits, NEW k \in Keys, NEW x \in Nat, x < Size(k)
  PROVE  Fit(ArraysAfterLeaving(k,
               [d \in Components |->
                  IF d \in k.signature
                  THEN move_out(byte_arrays[k][d], x, Size(k))
                  ELSE byte_arrays[k][d]]),
             k, Size(k) - 1)
<1> DEFINE F == [d \in Components |->
                   IF d \in k.signature
                   THEN move_out(byte_arrays[k][d], x, Size(k))
                   ELSE byte_arrays[k][d]]
<1>1. Fit(byte_arrays[k], k, Size(k)) /\ Size(k) \in Nat \ {0}
  BY DEF StoreFits, IsStore, Size
<1>2. ASSUME NEW d \in Components
      PROVE  /\ IsByteArray(F[d], Values)
             /\ d \in k.signature => Size(k) <= F[d].size
  BY <1>1, MoveOutArray DEF Fit
<1> HIDE DEF F
<1>3. Fit(F, k, Size(k))
  BY <1>1, <1>2 DEF Fit, F
<1>4. Fit(F, k, Size(k) - 1)
  BY <1>1, <1>3, FitsFewer
<1>5. Size(k) = 1 => Fit(NoArrays, k, Size(k) - 1)
  BY NoArraysFit
<1> QED BY <1>4, <1>5 DEF ArraysAfterLeaving, F

(* The same with the array of one component shrunk.                        *)
LEMMA RemovedFit ==
  ASSUME StoreFits, NEW k \in Keys, NEW c \in Components, NEW x \in Nat,
         x < Size(k), c \in k.signature
  PROVE  Fit(ArraysAfterRemove(k, c, x, Size(k)), k, Size(k) - 1)
<1> DEFINE F == [d \in Components |->
                   CASE d = c -> erase_component(byte_arrays[k][d], x, Size(k))
                     [] d \in k.signature \ {c} ->
                          move_out(byte_arrays[k][d], x, Size(k))
                     [] OTHER -> byte_arrays[k][d]]
<1>1. Fit(byte_arrays[k], k, Size(k)) /\ Size(k) \in Nat \ {0}
  BY DEF StoreFits, IsStore, Size
<1>2. ASSUME NEW d \in Components
      PROVE  /\ IsByteArray(F[d], Values)
             /\ d \in k.signature => Size(k) <= F[d].size
  <2>1. CASE d = c
    BY <1>1, <2>1, EraseArray DEF Fit
  <2>2. CASE d \in k.signature \ {c}
    BY <1>1, <2>2, MoveOutArray DEF Fit
  <2>3. CASE d \notin k.signature
    BY <1>1, <2>3 DEF Fit
  <2> QED BY <2>1, <2>2, <2>3
<1> HIDE DEF F
<1>3. Fit(F, k, Size(k))
  BY <1>1, <1>2 DEF Fit, F
<1>4. Fit(F, k, Size(k) - 1)
  BY <1>1, <1>3, FitsFewer
<1>5. Size(k) = 1 => Fit(NoArrays, k, Size(k) - 1)
  BY NoArraysFit
<1> QED BY <1>4, <1>5 DEF ArraysAfterLeaving, ArraysAfterRemove, F

(* The components of an entity constructed in the archetype it moves to.   *)
LEMMA AddedFit ==
  ASSUME StoreFits, NEW old \in Keys, NEW c \in Components, NEW x \in Nat,
         x < Size(old), NEW v \in Values, c \notin old.signature
  PROVE  LET new == WithComponent(old, c)
         IN  Fit([d \in Components |->
                    CASE d = c -> emplace_component(byte_arrays[new][d],
                                                    Size(new), v)
                      [] d \in old.signature ->
                           emplace_component(byte_arrays[new][d], Size(new),
                                             byte_arrays[old][d].data[x])
                      [] OTHER -> byte_arrays[new][d]],
                 new, Size(new) + 1)
<1> DEFINE new == WithComponent(old, c)
           F == [d \in Components |->
                   CASE d = c -> emplace_component(byte_arrays[new][d],
                                                   Size(new), v)
                     [] d \in old.signature ->
                          emplace_component(byte_arrays[new][d], Size(new),
                                            byte_arrays[old][d].data[x])
                     [] OTHER -> byte_arrays[new][d]]
<1>1. new \in Keys /\ new.signature = old.signature \cup {c}
  BY KeyFacts
<1>2. Fit(byte_arrays[new], new, Size(new)) /\ Size(new) \in Nat
  BY <1>1 DEF StoreFits, IsStore, Size
<1> HIDE DEF new
<1>3. ASSUME NEW d \in Components
      PROVE  /\ IsByteArray(F[d], Values)
             /\ d \in new.signature => Size(new) + 1 <= F[d].size
  <2>1. IsByteArray(byte_arrays[new][d], Values)
    BY <1>2 DEF Fit
  <2>2. CASE d = c
    <3>1. Size(new) <= byte_arrays[new][d].size
      BY <1>1, <1>2, <2>2 DEF Fit
    <3>2. F[d] = emplace_component(byte_arrays[new][d], Size(new), v)
      BY <2>2
    <3> HIDE DEF F
    <3>3. /\ IsByteArray(F[d], Values)
          /\ F[d].size >= Size(new) + 1
      BY <1>2, <2>1, <3>1, <3>2, EmplaceArray
    <3> QED BY <1>2, <3>3 DEF IsByteArray
  <2>3. CASE d \in old.signature /\ d # c
    <3>1. Size(new) <= byte_arrays[new][d].size
      BY <1>1, <1>2, <2>3 DEF Fit
    <3>2. byte_arrays[old][d].data[x] \in Values \cup {raw}
      BY <2>3, SlotFacts
    <3>3. /\ IsByteArray(F[d], Values)
          /\ F[d].size >= Size(new) + 1
      BY <1>2, <2>1, <2>3, <3>1, <3>2, EmplaceArray
    <3> QED BY <1>2, <3>3 DEF IsByteArray
  <2>4. CASE d \notin old.signature /\ d # c
    BY <1>1, <2>1, <2>4
  <2> QED BY <2>2, <2>3, <2>4
<1> HIDE DEF F
<1>4. Fit(F, new, Size(new) + 1)
  BY <1>3 DEF Fit, F
<1> QED BY <1>4 DEF F, new

(* add of a component the entity does not have.                            *)
LEMMA AddNextPreserves ==
  ASSUME IInv, NEW e \in DOMAIN entity_index, NEW c \in Components,
         NEW v \in Values, AddNext(e, c, v)
  PROVE  IInv'
<1> DEFINE old == entity_index[e].entity_archetype
           new == WithComponent(old, c)
           x == entity_index[e].index
           F == ArraysAfterLeaving(old,
                  [d \in Components |->
                     IF d \in old.signature
                     THEN move_out(byte_arrays[old][d], x, Size(old))
                     ELSE byte_arrays[old][d]])
           G == [d \in Components |->
                   CASE d = c -> emplace_component(byte_arrays[new][d],
                                                   Size(new), v)
                     [] d \in old.signature ->
                          emplace_component(byte_arrays[new][d], Size(new),
                                            byte_arrays[old][d].data[x])
                     [] OTHER -> byte_arrays[new][d]]
<1>1. /\ HasSlot(e)
      /\ c \notin old.signature
      /\ component_map' = component_map \cup {c}
      /\ archetypes' = (archetypes \cup {new}) \ Deleted(old)
      /\ archetype_keys' \in KeysAfterLeaving(Listed(new), old)
      /\ byte_arrays' = [byte_arrays EXCEPT ![old] = F, ![new] = G]
      /\ entity_index' = Placed(Vacated(old, x), e, new, Size(new))
      /\ entities' = [entities EXCEPT ![old] = WithoutSlot(@, x),
                                      ![new] = Append(@, e)]
      /\ UNCHANGED <<recycled, id_count, status>>
  <2>1. new # old
    BY KeyFacts, HasSlotFacts DEF AddNext
  <2> QED BY <2>1 DEF AddNext, idVars
<1>2. /\ e \in Entities
      /\ old \in Keys
      /\ x \in Nat
      /\ x < Size(old)
      /\ entities[old] \in Seq(Entities)
      /\ Size(old) = Len(entities[old])
  BY <1>1, HasSlotFacts
<1>3. new \in Keys /\ new # old
  BY <1>1, <1>2, KeyFacts
<1>4. entities[new] \in Seq(Entities) /\ Size(new) = Len(entities[new]) /\ Size(new) \in Nat
  BY <1>3 DEF IInv, StoreFits, IsStore, Size
<1>5. Fit(F, old, Size(old) - 1)
  BY <1>2, MovedOutFit DEF IInv
<1>6. Fit(G, new, Size(new) + 1)
  BY <1>1, <1>2, AddedFit DEF IInv
<1> HIDE DEF old, new, x, F, G
<1>7. StoreFits'
  <2> DEFINE s == WithoutSlot(entities[old], x)
             t == Append(entities[new], e)
  <2>1. s \in Seq(Entities) /\ Len(s) = Size(old) - 1
    BY <1>2, WithoutSlotFacts
  <2>2. t \in Seq(Entities) /\ Len(t) = Size(new) + 1
    BY <1>2, <1>4, AppendFacts
  <2>3. entities' = [entities EXCEPT ![old] = s, ![new] = t]
    BY <1>1, <1>3
  <2> HIDE DEF s, t
  <2>4. IsStore([entities EXCEPT ![old] = s, ![new] = t],
                [byte_arrays EXCEPT ![old] = F, ![new] = G])
    <3>1. IsStore(entities, byte_arrays)
      BY DEF IInv, StoreFits
    <3>2. Fit(F, old, Len(s)) /\ Fit(G, new, Len(t))
      BY <1>5, <1>6, <2>1, <2>2
    <3> QED BY <1>2, <1>3, <2>1, <2>2, <3>1, <3>2, StoreUpdates
  <2>5. byte_arrays' = [byte_arrays EXCEPT ![old] = F, ![new] = G]
    BY <1>1
  <2>6. IsStore(entities', byte_arrays')
    BY <2>3, <2>4, <2>5
  <2> QED BY <2>6 DEF StoreFits
<1>8. IsIndex(entity_index)'
  <2>1. IsIndex(Vacated(old, x)) /\ e \in DOMAIN Vacated(old, x)
    BY <1>2, VacatedIsIndex DEF IInv
  <2>2. IsIndex(Placed(Vacated(old, x), e, new, Size(new)))
    BY <1>3, <1>4, <2>1, PlacedIsIndex
  <2> QED BY <1>1, <2>2 DEF IsIndex
<1>9. Lists(archetype_keys, archetypes)' /\ archetypes' \subseteq Keys
  <2>1. Lists(Listed(new), archetypes \cup {new})
    BY <1>3, ListedLists DEF IInv
  <2>2. Lists(archetype_keys', (archetypes \cup {new}) \ Deleted(old))
    BY <1>1, <1>2, <2>1, KeysAfterLeavingLists
  <2> QED BY <1>1, <1>3, <2>2 DEF IInv, Lists
<1> QED BY <1>1, <1>7, <1>8, <1>9 DEF IInv, IdsOK, Dispenser!TypeOK

(* add of a component the entity has already.                              *)
LEMMA AddAgainPreserves ==
  ASSUME IInv, NEW e \in DOMAIN entity_index, NEW c \in Components,
         NEW v \in Values, AddAgain(e, c, v)
  PROVE  IInv'
<1> DEFINE k == entity_index[e].entity_archetype
           x == entity_index[e].index
           n == Size(k)
           F == [d \in Components |->
                   CASE d = c -> emplace_component(byte_arrays[k][d], n, v)
                     [] d \in k.signature \ {c} ->
                          move_out(construct(byte_arrays[k][d], n,
                                             byte_arrays[k][d].data[x]), x, n)
                     [] OTHER -> byte_arrays[k][d]]
<1>1. /\ HasSlot(e)
      /\ c \in k.signature
      /\ component_map' = component_map \cup {c}
      /\ byte_arrays' = [byte_arrays EXCEPT ![k] = F]
      /\ entity_index' = Placed(Vacated(k, x), e, k, n - 1)
      /\ entities' = [entities EXCEPT ![k] = Append(WithoutSlot(@, x), e)]
      /\ UNCHANGED <<archetypes, archetype_keys, recycled, id_count, status>>
  BY DEF AddAgain, AgainIsDefined, idVars
<1>2. /\ e \in Entities
      /\ k \in Keys
      /\ x \in Nat
      /\ x < n
      /\ n \in Nat \ {0}
      /\ entities[k] \in Seq(Entities)
      /\ n = Len(entities[k])
      /\ Fit(byte_arrays[k], k, n)
  BY <1>1, HasSlotFacts
<1>3. StoreFits
  BY DEF IInv
<1> HIDE DEF k, x, n
<1>4. ASSUME NEW d \in Components
      PROVE  /\ IsByteArray(F[d], Values)
             /\ d \in k.signature => n <= F[d].size
  <2> DEFINE a == byte_arrays[k][d]
  <2>1. IsByteArray(a, Values) /\ (d \in k.signature => n <= a.size)
    BY <1>2 DEF Fit
  <2>2. CASE d = c
    <3>1. F[d] = emplace_component(a, n, v)
      BY <2>2
    <3> HIDE DEF a, F
    <3>2. IsByteArray(F[d], Values) /\ F[d].size >= n + 1
      BY <1>1, <1>2, <2>1, <2>2, <3>1, EmplaceArray
    <3> QED BY <1>2, <3>2 DEF IsByteArray
  <2>3. CASE d \in k.signature \ {c}
    <3>1. F[d] = move_out(construct(a, n, a.data[x]), x, n)
      BY <2>3
    <3>2. a.data[x] \in Values \cup {raw}
      BY <1>2, <1>3, <2>3, SlotFacts DEF n
    <3> DEFINE b == construct(a, n, a.data[x])
    <3> HIDE DEF a, F
    <3>3. IsByteArray(b, Values) /\ b.size = a.size
      BY <2>1, <3>2, ConstructArray
    <3> HIDE DEF b
    <3>4. IsByteArray(move_out(b, x, n), Values) /\ move_out(b, x, n).size = b.size
      BY <1>2, <2>1, <2>3, <3>3, MoveOutArray
    <3> QED BY <2>1, <3>1, <3>3, <3>4 DEF b
  <2>4. CASE d \notin k.signature
    BY <1>1, <2>1, <2>4
  <2> QED BY <2>2, <2>3, <2>4
<1>5. Fit(F, k, n)
  BY <1>4 DEF Fit
<1> HIDE DEF F
<1>6. StoreFits'
  <2> DEFINE s == Append(WithoutSlot(entities[k], x), e)
  <2>1. /\ WithoutSlot(entities[k], x) \in Seq(Entities)
        /\ Len(WithoutSlot(entities[k], x)) = n - 1
    BY <1>2, WithoutSlotFacts
  <2>2. s \in Seq(Entities) /\ Len(s) = n
    BY <1>2, <2>1, AppendFacts
  <2>3. entities' = [entities EXCEPT ![k] = s]
    BY <1>1
  <2> HIDE DEF s
  <2>4. IsStore([entities EXCEPT ![k] = s], [byte_arrays EXCEPT ![k] = F])
    BY <1>2, <1>3, <1>5, <2>2, StoreUpdate DEF StoreFits
  <2>5. byte_arrays' = [byte_arrays EXCEPT ![k] = F]
    BY <1>1
  <2>6. IsStore(entities', byte_arrays')
    BY <2>3, <2>4, <2>5
  <2> QED BY <2>6 DEF StoreFits
<1>7. IsIndex(entity_index)'
  <2>1. IsIndex(Vacated(k, x)) /\ e \in DOMAIN Vacated(k, x)
    BY <1>2, VacatedIsIndex DEF IInv
  <2>2. IsIndex(Placed(Vacated(k, x), e, k, n - 1))
    BY <1>2, <2>1, PlacedIsIndex
  <2> QED BY <1>1, <2>2 DEF IsIndex
<1> QED BY <1>1, <1>6, <1>7 DEF IInv, IdsOK, Dispenser!TypeOK

(* remove<C> of one of several components.                                 *)
LEMMA RemovePreserves ==
  ASSUME IInv, NEW e \in DOMAIN entity_index, NEW c \in Components,
         Remove(e, c)
  PROVE  IInv'
<1> DEFINE old == entity_index[e].entity_archetype
           new == WithoutComponent(old, c)
           x == entity_index[e].index
           m == Size(new)
           F == ArraysAfterRemove(old, c, x, Size(old))
           G == [d \in Components |->
                   IF d \in new.signature
                   THEN construct(auto_allocate(byte_arrays[new][d], m), m - 1,
                                  byte_arrays[old][d].data[x])
                   ELSE byte_arrays[new][d]]
<1>1. /\ HasSlot(e)
      /\ c \in old.signature
      /\ new.signature # {}
      /\ component_map' = component_map \cup {c}
      /\ archetypes' = (archetypes \cup {new}) \ Deleted(old)
      /\ archetype_keys' \in KeysAfterLeaving(Listed(new), old)
      /\ entity_index' = Placed(Vacated(old, x), e, new, m)
      /\ UNCHANGED <<recycled, id_count, status>>
  BY DEF Remove, idVars
<1>2. /\ e \in Entities
      /\ old \in Keys
      /\ x \in Nat
      /\ x < Size(old)
      /\ entities[old] \in Seq(Entities)
      /\ Size(old) = Len(entities[old])
  BY <1>1, HasSlotFacts
<1>3. new \in Keys /\ new # old /\ new.signature = old.signature \ {c}
  BY <1>1, <1>2, KeyFacts
<1>4. /\ byte_arrays' = [byte_arrays EXCEPT ![old] = F, ![new] = G]
      /\ entities' = [entities EXCEPT ![old] = WithoutSlot(@, x),
                                      ![new] = Append(@, e)]
  BY <1>3 DEF Remove
<1>5. /\ entities[new] \in Seq(Entities)
      /\ m = Len(entities[new])
      /\ m \in Nat
      /\ Fit(byte_arrays[new], new, m)
  BY <1>3 DEF IInv, StoreFits, IsStore, Size
<1>6. Fit(F, old, Size(old) - 1)
  BY <1>1, <1>2, RemovedFit DEF IInv
<1>7. Fit(G, new, m + 1)
  <2> HIDE DEF old, new, x, m
  <2>1. ASSUME NEW d \in Components
        PROVE  /\ IsByteArray(G[d], Values)
               /\ d \in new.signature => m + 1 <= G[d].size
    <3> DEFINE a == byte_arrays[new][d]
               b == auto_allocate(a, m)
    <3>1. IsByteArray(a, Values) /\ (d \in new.signature => m <= a.size)
      BY <1>5 DEF Fit
    <3>2. CASE d \in new.signature
      <4>1. G[d] = construct(b, m - 1, byte_arrays[old][d].data[x])
        BY <3>2
      <4>2. byte_arrays[old][d].data[x] \in Values \cup {raw}
        BY <1>2, <1>3, <3>2, SlotFacts DEF IInv
      <4> HIDE DEF a, G
      <4>3. IsByteArray(b, Values) /\ b.size >= m + 1
        BY <1>5, <3>1, <3>2, AutoAllocateArray
      <4> HIDE DEF b
      <4>4. IsByteArray(G[d], Values) /\ G[d].size = b.size
        BY <4>1, <4>2, <4>3, ConstructArray
      <4> QED BY <1>5, <4>3, <4>4 DEF IsByteArray
    <3>3. CASE d \notin new.signature
      BY <3>1, <3>3
    <3> QED BY <3>2, <3>3
  <2> QED BY <2>1 DEF Fit
<1> HIDE DEF old, new, x, m, F, G
<1>8. StoreFits'
  <2> DEFINE s == WithoutSlot(entities[old], x)
             t == Append(entities[new], e)
  <2>1. s \in Seq(Entities) /\ Len(s) = Size(old) - 1
    BY <1>2, WithoutSlotFacts
  <2>2. t \in Seq(Entities) /\ Len(t) = m + 1
    BY <1>2, <1>5, AppendFacts
  <2>3. entities' = [entities EXCEPT ![old] = s, ![new] = t]
    BY <1>3, <1>4
  <2> HIDE DEF s, t
  <2>4. IsStore([entities EXCEPT ![old] = s, ![new] = t],
                [byte_arrays EXCEPT ![old] = F, ![new] = G])
    <3>1. IsStore(entities, byte_arrays)
      BY DEF IInv, StoreFits
    <3>2. Fit(F, old, Len(s)) /\ Fit(G, new, Len(t))
      BY <1>6, <1>7, <2>1, <2>2
    <3> QED BY <1>2, <1>3, <2>1, <2>2, <3>1, <3>2, StoreUpdates
  <2>5. byte_arrays' = [byte_arrays EXCEPT ![old] = F, ![new] = G]
    BY <1>4
  <2>6. IsStore(entities', byte_arrays')
    BY <2>3, <2>4, <2>5
  <2> QED BY <2>6 DEF StoreFits
<1>9. IsIndex(entity_index)'
  <2>1. IsIndex(Vacated(old, x)) /\ e \in DOMAIN Vacated(old, x)
    BY <1>2, VacatedIsIndex DEF IInv
  <2>2. IsIndex(Placed(Vacated(old, x), e, new, m))
    BY <1>3, <1>5, <2>1, PlacedIsIndex
  <2> QED BY <1>1, <2>2 DEF IsIndex
<1>10. Lists(archetype_keys, archetypes)' /\ archetypes' \subseteq Keys
  <2>1. Lists(Listed(new), archetypes \cup {new})
    BY <1>3, ListedLists DEF IInv
  <2>2. Lists(archetype_keys', (archetypes \cup {new}) \ Deleted(old))
    BY <1>1, <1>2, <2>1, KeysAfterLeavingLists
  <2> QED BY <1>1, <1>3, <2>2 DEF IInv, Lists
<1> QED BY <1>1, <1>8, <1>9, <1>10 DEF IInv, IdsOK, Dispenser!TypeOK

(* remove<C> of the only component.                                        *)
LEMMA RemoveLastPreserves ==
  ASSUME IInv, NEW e \in DOMAIN entity_index, NEW c \in Components,
         RemoveLast(e, c)
  PROVE  IInv'
<1> DEFINE old == entity_index[e].entity_archetype
           x == entity_index[e].index
           F == ArraysAfterRemove(old, c, x, Size(old))
<1>1. /\ HasSlot(e)
      /\ c \in old.signature
      /\ component_map' = component_map \cup {c}
      /\ archetypes' = archetypes \ Deleted(old)
      /\ archetype_keys' \in KeysAfterLeaving(archetype_keys, old)
      /\ byte_arrays' = [byte_arrays EXCEPT ![old] = F]
      /\ entity_index' = Vacated(old, x)
      /\ entities' = [entities EXCEPT ![old] = WithoutSlot(@, x)]
      /\ UNCHANGED <<recycled, id_count, status>>
  BY DEF RemoveLast, idVars
<1>2. /\ old \in Keys
      /\ x \in Nat
      /\ x < Size(old)
      /\ entities[old] \in Seq(Entities)
      /\ Size(old) = Len(entities[old])
  BY <1>1, HasSlotFacts
<1>3. Fit(F, old, Size(old) - 1)
  BY <1>1, <1>2, RemovedFit DEF IInv
<1> HIDE DEF old, x, F
<1>4. StoreFits'
  <2> DEFINE s == WithoutSlot(entities[old], x)
  <2>1. s \in Seq(Entities) /\ Len(s) = Size(old) - 1
    BY <1>2, WithoutSlotFacts
  <2>2. entities' = [entities EXCEPT ![old] = s]
    BY <1>1
  <2> HIDE DEF s
  <2>3. IsStore([entities EXCEPT ![old] = s], [byte_arrays EXCEPT ![old] = F])
    BY <1>2, <1>3, <2>1, StoreUpdate DEF IInv, StoreFits
  <2> QED BY <1>1, <2>2, <2>3 DEF StoreFits
<1>5. IsIndex(entity_index)'
  BY <1>1, <1>2, VacatedIsIndex DEF IInv, IsIndex
<1>6. Lists(archetype_keys, archetypes)' /\ archetypes' \subseteq Keys
  <2>1. Lists(archetype_keys', archetypes \ Deleted(old))
    BY <1>1, <1>2, KeysAfterLeavingLists DEF IInv
  <2> QED BY <1>1, <2>1 DEF IInv, Lists
<1> QED BY <1>1, <1>4, <1>5, <1>6 DEF IInv, IdsOK, Dispenser!TypeOK

-------------------------------------------------------------------------------
(* IInv is an inductive invariant.                                         *)

(* A new registry satisfies IInv.                                          *)
LEMMA InitEstablishes == Init => IInv
<1> SUFFICES ASSUME Init PROVE IInv
  OBVIOUS
<1>1. StoreFits
  <2>1. << >> \in Seq(Entities) /\ Len(<< >>) = 0
    BY EmptySeq
  <2>2. \A k \in Keys : Fit(NoArrays, k, 0)
    BY NoArraysFit
  <2> QED BY <2>1, <2>2 DEF Init, StoreFits, IsStore
<1>2. IsIndex(entity_index)
  BY DEF Init, IsIndex
<1>3. IdsOK
  <2>1. << >> \in Seq(Dispenser!Ids)
    BY EmptySeq
  <2> QED BY <2>1, BoundsAssumption
          DEF Init, IdsOK, Dispenser!Init, Dispenser!TypeOK, Dispenser!Ids
<1>4. Lists(archetype_keys, archetypes) /\ archetypes = {}
  BY EmptySeq DEF Init, Lists
<1> QED BY <1>1, <1>2, <1>3, <1>4 DEF Init, IInv

(* The model changes no data when it stops.                                *)
LEMMA UndefinedPreserves ==
  ASSUME IInv, BecomesUndefined
  PROVE  IInv'
BY DEF IInv, BecomesUndefined, storeVars, idVars, IsIndex, StoreFits, IdsOK,
       Dispenser!TypeOK

(* Every call preserves IInv.                                              *)
LEMMA StepPreserves == IInv /\ Step => IInv'
<1> SUFFICES ASSUME IInv, Step PROVE IInv'
  OBVIOUS
<1>1. ASSUME NEW chunk \in Chunks, Create(chunk) PROVE IInv'
  BY <1>1, CreatePreserves
<1>2. ASSUME NEW chunk \in Chunks, NEW vals \in Payloads,
             CreateWith(chunk, vals)
      PROVE  IInv'
  BY <1>2, CreateWithPreserves
<1>3. ASSUME NEW chunk \in Chunks, NEW vals \in Payloads,
             NEW built \in SUBSET Components,
             CreateWithThrows(chunk, vals, built)
      PROVE  IInv'
  BY <1>3, CreateWithThrowsPreserves
<1>4. ASSUME NEW c \in Components, Save(c) PROVE IInv'
  BY <1>4, RegistrationPreserves
<1>5. ASSUME NEW e \in DOMAIN entity_index, NEW c \in Components,
             NEW v \in Values,
             AddFirst(e, c, v) \/ AddNext(e, c, v) \/ AddAgain(e, c, v)
               \/ Write(e, c, v)
      PROVE  IInv'
  BY <1>5, AddFirstPreserves, AddNextPreserves, AddAgainPreserves,
     WritePreserves
<1>6. ASSUME NEW e \in DOMAIN entity_index, NEW c \in Components,
             Remove(e, c) \/ RemoveLast(e, c) \/ RemoveAbsent(e, c)
               \/ UndefinedAdd(e, c) \/ UndefinedRemove(e, c)
      PROVE  IInv'
  <2>1. CASE Remove(e, c)
    BY <2>1, RemovePreserves
  <2>2. CASE RemoveLast(e, c)
    BY <2>2, RemoveLastPreserves
  <2>3. CASE RemoveAbsent(e, c)
    BY <2>3, RegistrationPreserves
  <2>4. CASE UndefinedAdd(e, c) \/ UndefinedRemove(e, c)
    BY <2>4, UndefinedPreserves DEF UndefinedAdd, UndefinedRemove
  <2> QED BY <1>6, <2>1, <2>2, <2>3, <2>4
<1>7. ASSUME NEW e \in DOMAIN entity_index,
             RemoveEntity(e) \/ UseOfStaleRecord(e) \/ UseOfNullArchetype(e)
      PROVE  IInv'
  BY <1>7, RemoveEntityPreserves, UndefinedPreserves
     DEF UseOfStaleRecord, UseOfNullArchetype
<1>8. ASSUME Destroy PROVE IInv'
  BY <1>8, DestroyPreserves
<1>9. ASSUME DestroyTerminates PROVE IInv'
  BY <1>9 DEF IInv, DestroyTerminates, storeVars, idVars, IsIndex, StoreFits,
              IdsOK, Dispenser!TypeOK
<1> QED BY <1>1, <1>2, <1>3, <1>4, <1>5, <1>6, <1>7, <1>8, <1>9 DEF Step

(* So does a step that changes nothing.                                    *)
LEMMA StutterPreserves == IInv /\ UNCHANGED vars => IInv'
BY DEF IInv, vars, storeVars, idVars, IsIndex, StoreFits, IdsOK,
       Dispenser!TypeOK

(* IInv holds in every state the registry reaches.                         *)
THEOREM InductiveInvariant == Spec => []IInv
<1>1. Init => IInv
  BY InitEstablishes
<1>2. IInv /\ [Next]_vars => IInv'
  BY StepPreserves, StutterPreserves DEF Next
<1> QED BY <1>1, <1>2, PTL DEF Spec

(* Whatever calls a client makes, every variable of the registry keeps its *)
(* type: records name existing keys, arrays are arrays of components.      *)
THEOREM TypeCorrectness == Spec => []TypeOK
<1>1. IInv => TypeOK
  BY IInvIsConjunction
<1> QED BY <1>1, InductiveInvariant, PTL

(* Whatever calls a client makes, each array of an archetype has room for  *)
(* all of the archetype's entities: auto_allocate, auto_shrink and the     *)
(* moves between archetypes never leave one too small.                     *)
THEOREM CapacityIsEnough == Spec => []CapacityCovers
<1>1. IInv => CapacityCovers
  BY IInvIsConjunction
<1> QED BY <1>1, InductiveInvariant, PTL

(* Whatever calls a client makes, the vector that views walk along lists   *)
(* every archetype of the table, on builds where delete_archetype          *)
(* (archetype_map.hpp:96) reads the freed key as it was or as no key, but  *)
(* never as another one.                                                   *)
THEOREM ViewsMissNoArchetype ==
  ASSUME NeverMistaken
  PROVE  Spec => []TableIsListed
<1>1. IInv => TableIsListed
  BY IInvIsConjunction
<1> QED BY <1>1, InductiveInvariant, PTL

(***************************************************************************)
(* The archetype map, the arrays of its archetypes, and the records of the *)
(* entities in them.                                                       *)
(*                                                                         *)
(* The vector of keys mirrors the table on builds where the freed key of a *)
(* deleted archetype reads as it was, no archetype is without entities     *)
(* unless create<Cs...> throws, and objects live in just the slots of      *)
(* entities.  All hold for clients that use stale records as well.         *)
(*                                                                         *)
(* Records and slots name each other, through every call of a client that  *)
(* neither takes the only component of an entity away nor removes          *)
(* entities: with any number of components, chunks and entities, whether   *)
(* or not the freed key can be read, and through create<Cs...> that throw, *)
(* components that are added twice and components that are misplaced.      *)
(***************************************************************************)

(* The keys list the set T, none twice.                                    *)
Mirrors(keys, T) ==
  /\ keys \in Seq(Keys)
  /\ \A k \in Keys : (\E i \in 1 .. Len(keys) : keys[i] = k) <=> k \in T
  /\ \A i, j \in 1 .. Len(keys) : keys[i] = keys[j] => i = j

Mirroring == Mirrors(archetype_keys, archetypes)

(***************************************************************************)
(* The two ways in which calls change the map.                             *)
(***************************************************************************)
(* archetype_map::get keeps table and keys alike.                          *)
LEMMA ListedMirrors ==
  ASSUME Mirroring, NEW k \in Keys
  PROVE  Mirrors(Listed(k), archetypes \cup {k})
<1>1. CASE k \in archetypes
  BY <1>1 DEF Mirroring, Mirrors, Listed
<1>2. CASE k \notin archetypes
  <2> DEFINE keys == Append(archetype_keys, k)
             n == Len(archetype_keys)
  <2>1. /\ keys \in Seq(Keys)
        /\ n \in Nat /\ Len(keys) = n + 1
        /\ keys[n + 1] = k
        /\ \A i \in 1 .. n : keys[i] = archetype_keys[i]
    BY DEF Mirroring, Mirrors
  <2>2. \A i \in 1 .. Len(keys) : i \in 1 .. n \/ i = n + 1
    BY <2>1
  <2>3. \A i \in 1 .. n : archetype_keys[i] \in archetypes
    <3> SUFFICES ASSUME NEW i \in 1 .. n
                 PROVE  archetype_keys[i] \in archetypes
      OBVIOUS
    <3>1. archetype_keys[i] \in Keys
      BY DEF Mirroring, Mirrors
    <3> QED BY <3>1 DEF Mirroring, Mirrors
  <2> HIDE DEF keys
  <2>4. \A j \in Keys : (\E i \in 1 .. Len(keys) : keys[i] = j)
                          <=> j \in archetypes \cup {k}
    <3> SUFFICES ASSUME NEW j \in Keys
                 PROVE  (\E i \in 1 .. Len(keys) : keys[i] = j)
                          <=> j \in archetypes \cup {k}
      OBVIOUS
    <3>1. (\E i \in 1 .. n : archetype_keys[i] = j) <=> j \in archetypes
      BY DEF Mirroring, Mirrors
    <3>2. (\E i \in 1 .. Len(keys) : keys[i] = j)
            <=> (\E i \in 1 .. n : archetype_keys[i] = j) \/ j = k
      BY <2>1, <2>2
    <3> QED BY <3>1, <3>2
  <2>5. \A i, j \in 1 .. Len(keys) : keys[i] = keys[j] => i = j
    BY <1>2, <2>1, <2>2, <2>3 DEF Mirroring, Mirrors
  <2>6. Mirrors(keys, archetypes \cup {k})
    BY <2>1, <2>4, <2>5 DEF Mirrors
  <2> QED BY <1>2, <2>6 DEF keys, Listed
<1> QED BY <1>1, <1>2

(* So does delete_archetype if it can read the key.                        *)
LEMMA LeavingMirrors ==
  ASSUME FreedReads = {"itself"}, NEW keys, NEW T, Mirrors(keys, T),
         NEW k \in Keys, NEW after \in KeysAfterLeaving(keys, k)
  PROVE  Mirrors(after, T \ Deleted(k))
<1>1. CASE Size(k) # 1
  BY <1>1 DEF KeysAfterLeaving, Deleted
<1>2. CASE Size(k) = 1
  <2>1. after = erase(keys, k)
    <3>1. ReadAs(k) = {k}
      BY DEF ReadAs
    <3> QED BY <1>2, <3>1 DEF KeysAfterLeaving, ErasedFrom
  <2>2. after \in Seq(Keys) /\ IsErased(after, keys, k)
    BY <2>1, EraseProperties DEF Mirrors
  <2>3. Deleted(k) = {k}
    BY <1>2 DEF Deleted
  <2>4. ASSUME NEW i \in 1 .. Len(after), NEW j \in 1 .. Len(after),
               after[i] = after[j]
        PROVE  i = j
    <3> DEFINE x == after[i]
    <3>1. x # k
      BY <2>2 DEF IsErased
    <3>2. Once(keys, Len(keys), x)
      BY DEF Mirrors, Once
    <3>3. Once(after, Len(after), x)
      BY <2>2, <3>1, <3>2 DEF IsErased
    <3> QED BY <2>4, <3>3 DEF Once
  <2>5. \A x \in Keys : (\E i \in 1 .. Len(after) : after[i] = x)
                          <=> x \in T \ Deleted(k)
    BY <2>2, <2>3 DEF Mirrors, IsErased
  <2> QED BY <2>2, <2>4, <2>5 DEF Mirrors
<1> QED BY <1>1, <1>2

(***************************************************************************)
(* One step.                                                               *)
(***************************************************************************)
(* Every step leaves the map alone, empties it, enters an archetype, or    *)
(* enters one (or none) and then lets an entity leave another.             *)
LEMMA MapStep ==
  ASSUME IInv, Step
  PROVE  \/ UNCHANGED <<archetypes, archetype_keys>>
         \/ archetypes' = {} /\ archetype_keys' = << >>
         \/ \E k \in Keys : /\ archetypes' = archetypes \cup {k}
                            /\ archetype_keys' = Listed(k)
         \/ \E old \in Keys :
              /\ archetypes' = archetypes \ Deleted(old)
              /\ archetype_keys' \in KeysAfterLeaving(archetype_keys, old)
         \/ \E old \in Keys, new \in Keys :
              /\ archetypes' = (archetypes \cup {new}) \ Deleted(old)
              /\ archetype_keys' \in KeysAfterLeaving(Listed(new), old)
<1>1. ASSUME NEW chunk \in Chunks, NEW vals \in Payloads,
             CreateWith(chunk, vals)
               \/ \E built \in SUBSET Components :
                    CreateWithThrows(chunk, vals, built)
      PROVE  \E k \in Keys : /\ archetypes' = archetypes \cup {k}
                             /\ archetype_keys' = Listed(k)
  BY <1>1, PayloadFacts DEF CreateWith, CreateWithThrows
<1>2. ASSUME NEW e \in DOMAIN entity_index, NEW c \in Components,
             NEW v \in Values, AddFirst(e, c, v)
      PROVE  \E k \in Keys : /\ archetypes' = archetypes \cup {k}
                             /\ archetype_keys' = Listed(k)
  <2>1. [signature |-> {c}, chunk_id |-> entity_index[e].chunk_id] \in Keys
    BY RecordFacts DEF IInv, Keys
  <2> QED BY <1>2, <2>1 DEF AddFirst
<1>3. ASSUME NEW e \in DOMAIN entity_index, NEW c \in Components,
             NEW v \in Values, AddNext(e, c, v)
      PROVE  \E old \in Keys, new \in Keys :
               /\ archetypes' = (archetypes \cup {new}) \ Deleted(old)
               /\ archetype_keys' \in KeysAfterLeaving(Listed(new), old)
  <2>1. entity_index[e].entity_archetype \in Keys
    BY <1>3 DEF AddNext, HasSlot, HasArchetype
  <2>2. WithComponent(entity_index[e].entity_archetype, c) \in Keys
    BY <2>1, KeyFacts
  <2> QED BY <1>3, <2>1, <2>2 DEF AddNext
<1>4. ASSUME NEW e \in DOMAIN entity_index, NEW c \in Components, Remove(e, c)
      PROVE  \E old \in Keys, new \in Keys :
               /\ archetypes' = (archetypes \cup {new}) \ Deleted(old)
               /\ archetype_keys' \in KeysAfterLeaving(Listed(new), old)
  <2>1. entity_index[e].entity_archetype \in Keys
    BY <1>4 DEF Remove, HasSlot, HasArchetype
  <2>2. WithoutComponent(entity_index[e].entity_archetype, c) \in Keys
    BY <1>4, <2>1, KeyFacts DEF Remove
  <2> QED BY <1>4, <2>1, <2>2 DEF Remove
<1>5. ASSUME NEW e \in DOMAIN entity_index, NEW c \in Components, RemoveLast(e, c)
      PROVE  \E old \in Keys :
               /\ archetypes' = archetypes \ Deleted(old)
               /\ archetype_keys' \in KeysAfterLeaving(archetype_keys, old)
  BY <1>5 DEF RemoveLast, HasSlot, HasArchetype
<1>6. CASE Destroy
  BY <1>6 DEF Destroy
<1>7. CASE \/ \E chunk \in Chunks : Create(chunk)
           \/ \E c \in Components : Save(c)
           \/ \E e \in DOMAIN entity_index, c \in Components, v \in Values :
                AddAgain(e, c, v) \/ Write(e, c, v)
           \/ \E e \in DOMAIN entity_index, c \in Components :
                RemoveAbsent(e, c) \/ UndefinedAdd(e, c) \/ UndefinedRemove(e, c)
           \/ \E e \in DOMAIN entity_index :
                RemoveEntity(e) \/ UseOfStaleRecord(e) \/ UseOfNullArchetype(e)
           \/ DestroyTerminates
  <2>1. /\ BecomesUndefined => UNCHANGED <<archetypes, archetype_keys>>
        /\ UNCHANGED storeVars => UNCHANGED <<archetypes, archetype_keys>>
    BY DEF BecomesUndefined, storeVars
  <2>2. ASSUME NEW e, NEW c, NEW v, AddAgain(e, c, v) \/ Write(e, c, v)
        PROVE  UNCHANGED <<archetypes, archetype_keys>>
    BY <2>2 DEF AddAgain, Write
  <2>3. ASSUME NEW e, NEW c,
               RemoveAbsent(e, c) \/ UndefinedAdd(e, c) \/ UndefinedRemove(e, c)
        PROVE  UNCHANGED <<archetypes, archetype_keys>>
    BY <2>1, <2>3 DEF RemoveAbsent, UndefinedAdd, UndefinedRemove
  <2>4. ASSUME NEW e,
               RemoveEntity(e) \/ UseOfStaleRecord(e) \/ UseOfNullArchetype(e)
        PROVE  UNCHANGED <<archetypes, archetype_keys>>
    BY <2>1, <2>4 DEF RemoveEntity, UseOfStaleRecord, UseOfNullArchetype
  <2>5. ASSUME NEW c, Create(c) \/ Save(c) \/ DestroyTerminates
        PROVE  UNCHANGED <<archetypes, archetype_keys>>
    BY <2>1, <2>5 DEF Create, Save, DestroyTerminates
  <2> QED BY <1>7, <2>2, <2>3, <2>4, <2>5
<1> QED BY <1>1, <1>2, <1>3, <1>4, <1>5, <1>6, <1>7 DEF Step

(* Every call keeps the keys a mirror of the table.                        *)
LEMMA StepMirrors ==
  ASSUME FreedReads = {"itself"}, IInv, Mirroring, [Next]_vars
  PROVE  Mirroring'
<1>1. CASE UNCHANGED <<archetypes, archetype_keys>>
  BY <1>1 DEF Mirroring
<1>2. CASE archetypes' = {} /\ archetype_keys' = << >>
  BY <1>2 DEF Mirroring, Mirrors
<1>3. ASSUME NEW k \in Keys, archetypes' = archetypes \cup {k},
             archetype_keys' = Listed(k)
      PROVE  Mirroring'
  BY <1>3, ListedMirrors DEF Mirroring
<1>4. ASSUME NEW old \in Keys, archetypes' = archetypes \ Deleted(old),
             archetype_keys' \in KeysAfterLeaving(archetype_keys, old)
      PROVE  Mirroring'
  BY <1>4, LeavingMirrors DEF Mirroring
<1>5. ASSUME NEW old \in Keys, NEW new \in Keys,
             archetypes' = (archetypes \cup {new}) \ Deleted(old),
             archetype_keys' \in KeysAfterLeaving(Listed(new), old)
      PROVE  Mirroring'
  <2>1. Mirrors(Listed(new), archetypes \cup {new})
    BY ListedMirrors
  <2> QED BY <1>5, <2>1, LeavingMirrors DEF Mirroring
<1>6. CASE UNCHANGED vars
  BY <1>1, <1>6 DEF vars, storeVars
<1>7. CASE Step
  BY <1>1, <1>2, <1>3, <1>4, <1>5, <1>7, MapStep
<1> QED BY <1>6, <1>7 DEF Next

(* On builds where delete_archetype (archetype_map.hpp:96) can read the key *)
(* it has freed, the vector that views walk along lists exactly the table,  *)
(* none of it twice, whatever calls a client makes.                         *)
THEOREM KeysStayMirrors ==
  ASSUME FreedReads = {"itself"}
  PROVE  Spec => []KeysMirrorTable
<1>1. Init => Mirroring
  BY DEF Init, Mirroring, Mirrors
<1>2. IInv /\ Mirroring /\ [Next]_vars => Mirroring'
  BY StepMirrors
<1>3. Mirroring => KeysMirrorTable
  <2> SUFFICES ASSUME Mirroring
               PROVE  KeysMirrorTable
    OBVIOUS
  <2>1. DOMAIN archetype_keys = 1 .. Len(archetype_keys)
    BY DEF Mirroring, Mirrors
  <2>2. \A i \in 1 .. Len(archetype_keys) : archetype_keys[i] \in Keys
    BY DEF Mirroring, Mirrors
  <2> QED BY <2>1, <2>2 DEF Mirroring, Mirrors, KeysMirrorTable
<1> QED BY <1>1, <1>2, <1>3, InductiveInvariant, PTL DEF Spec

(***************************************************************************)
(* Archetypes without entities.                                            *)
(***************************************************************************)
(* An archetype of the table has entities unless it was there without any  *)
(* before.                                                                 *)
NoneEmptied ==
  \A k \in archetypes' :
    Len(entities'[k]) > 0 \/ (k \in archetypes /\ Size(k) = 0)

(* An entity enters k.                                                     *)
LEMMA EnteringFills ==
  ASSUME IInv, NEW k \in Keys, NEW e \in Entities,
         archetypes' = archetypes \cup {k},
         entities' = [entities EXCEPT ![k] = Append(@, e)]
  PROVE  NoneEmptied
<1>1. entities \in [Keys -> Seq(Entities)] /\ archetypes \subseteq Keys
  BY DEF IInv, StoreFits, IsStore
<1>2. Len(entities'[k]) = Len(entities[k]) + 1 /\ Len(entities[k]) \in Nat
  BY <1>1, AppendFacts
<1>3. ASSUME NEW l \in archetypes, l # k
      PROVE  entities'[l] = entities[l] /\ Len(entities[l]) \in Nat
  BY <1>1, <1>3
<1> QED BY <1>2, <1>3 DEF NoneEmptied, Size

(* An entity leaves slot x of old, for new or for good.                    *)
LEMMA LeavingDeletes ==
  ASSUME IInv, NEW old \in Keys, NEW x \in Nat, x < Size(old),
         \/ /\ archetypes' = archetypes \ Deleted(old)
            /\ entities' = [entities EXCEPT ![old] = WithoutSlot(@, x)]
         \/ \E new \in Keys, e \in Entities :
              /\ new # old
              /\ archetypes' = (archetypes \cup {new}) \ Deleted(old)
              /\ entities' = [entities EXCEPT ![old] = WithoutSlot(@, x),
                                              ![new] = Append(@, e)]
  PROVE  NoneEmptied
<1>1. entities \in [Keys -> Seq(Entities)] /\ archetypes \subseteq Keys
  BY DEF IInv, StoreFits, IsStore
<1>2. /\ Size(old) \in Nat
      /\ Len(WithoutSlot(entities[old], x)) = Size(old) - 1
  BY <1>1, WithoutSlotFacts DEF Size
<1>3. \A new \in Keys, e \in Entities :
        /\ Len(Append(entities[new], e)) = Len(entities[new]) + 1
        /\ Len(entities[new]) \in Nat
  BY <1>1, AppendFacts
<1>4. archetypes' \subseteq Keys
  BY <1>1
<1>5. SUFFICES ASSUME NEW k \in archetypes'
               PROVE  Len(entities'[k]) > 0 \/ (k \in archetypes /\ Size(k) = 0)
  BY DEF NoneEmptied
<1>6. CASE k = old
  <2>1. Size(old) # 1
    BY <1>5, <1>6 DEF Deleted
  <2>2. entities'[old] = WithoutSlot(entities[old], x)
    BY <1>1
  <2> QED BY <1>2, <1>6, <2>1, <2>2
<1>7. CASE k # old /\ entities'[k] = entities[k] /\ k \in archetypes
  BY <1>1, <1>7 DEF Size
<1>8. CASE k # old /\ \E e \in Entities : entities'[k] = Append(entities[k], e)
  BY <1>1, <1>3, <1>4, <1>5, <1>8
<1>9. \/ k = old
      \/ entities'[k] = entities[k] /\ k \in archetypes
      \/ \E e \in Entities : entities'[k] = Append(entities[k], e)
  <2>1. CASE /\ archetypes' = archetypes \ Deleted(old)
             /\ entities' = [entities EXCEPT ![old] = WithoutSlot(@, x)]
    BY <1>1, <1>4, <1>5, <2>1
  <2>2. ASSUME NEW new \in Keys, NEW e \in Entities, new # old,
               archetypes' = (archetypes \cup {new}) \ Deleted(old),
               entities' = [entities EXCEPT ![old] = WithoutSlot(@, x),
                                            ![new] = Append(@, e)]
        PROVE  \/ k = old
               \/ entities'[k] = entities[k] /\ k \in archetypes
               \/ \E f \in Entities : entities'[k] = Append(entities[k], f)
    BY <1>1, <1>4, <1>5, <2>2
  <2> QED BY <2>1, <2>2
<1> QED BY <1>6, <1>7, <1>8, <1>9

(* No call but a create<Cs...> that throws leaves an archetype in the table *)
(* that has lost its entities, or that never had any.                      *)
LEMMA StepEmptiesNone ==
  ASSUME "create_unregistered" \notin Calls, IInv, [Next]_vars
  PROVE  NoneEmptied
<1>1. ASSUME NEW chunk \in Chunks, NEW vals \in Payloads,
             CreateWith(chunk, vals)
      PROVE  NoneEmptied
  BY <1>1, PayloadFacts, EnteringFills DEF CreateWith
<1>2. ASSUME NEW e \in DOMAIN entity_index, NEW c \in Components,
             NEW v \in Values, AddFirst(e, c, v)
      PROVE  NoneEmptied
  <2> DEFINE k == [signature |-> {c}, chunk_id |-> entity_index[e].chunk_id]
  <2>1. k \in Keys /\ e \in Entities
    BY RecordFacts DEF IInv, Keys
  <2>2. /\ archetypes' = archetypes \cup {k}
        /\ entities' = [entities EXCEPT ![k] = Append(@, e)]
    BY <1>2 DEF AddFirst
  <2> HIDE DEF k
  <2> QED BY <2>1, <2>2, EnteringFills
<1>3. ASSUME NEW e \in DOMAIN entity_index, HasSlot(e)
      PROVE  /\ entity_index[e].entity_archetype \in Keys
             /\ entity_index[e].index \in Nat
             /\ entity_index[e].index < Size(entity_index[e].entity_archetype)
             /\ e \in Entities
  BY <1>3, RecordFacts DEF IInv, HasSlot, HasArchetype
<1>4. ASSUME NEW e \in DOMAIN entity_index, NEW c \in Components,
             NEW v \in Values, AddNext(e, c, v)
      PROVE  NoneEmptied
  <2> DEFINE old == entity_index[e].entity_archetype
             new == WithComponent(old, c)
             x == entity_index[e].index
  <2>1. /\ HasSlot(e) /\ c \notin old.signature
        /\ archetypes' = (archetypes \cup {new}) \ Deleted(old)
        /\ entities' = [entities EXCEPT ![old] = WithoutSlot(@, x),
                                        ![new] = Append(@, e)]
    BY <1>4 DEF AddNext
  <2>2. new \in Keys /\ new # old
    BY <1>3, <2>1, KeyFacts
  <2> HIDE DEF new
  <2> QED BY <1>3, <2>1, <2>2, LeavingDeletes
<1>5. ASSUME NEW e \in DOMAIN entity_index, NEW c \in Components, Remove(e, c)
      PROVE  NoneEmptied
  <2> DEFINE old == entity_index[e].entity_archetype
             new == WithoutComponent(old, c)
             x == entity_index[e].index
  <2>1. /\ HasSlot(e) /\ c \in old.signature /\ new.signature # {}
        /\ archetypes' = (archetypes \cup {new}) \ Deleted(old)
        /\ entities' = [entities EXCEPT ![old] = WithoutSlot(@, x),
                                        ![new] = Append(@, e)]
    BY <1>5 DEF Remove
  <2>2. new \in Keys /\ new # old
    BY <1>3, <2>1, KeyFacts
  <2> HIDE DEF new
  <2> QED BY <1>3, <2>1, <2>2, LeavingDeletes
<1>6. ASSUME NEW e \in DOMAIN entity_index, NEW c \in Components, RemoveLast(e, c)
      PROVE  NoneEmptied
  BY <1>3, <1>6, LeavingDeletes DEF RemoveLast
<1>7. ASSUME NEW e \in DOMAIN entity_index, NEW c \in Components,
             NEW v \in Values, AddAgain(e, c, v)
      PROVE  NoneEmptied
  <2> DEFINE k == entity_index[e].entity_archetype
             x == entity_index[e].index
  <2>1. /\ HasSlot(e) /\ archetypes' = archetypes
        /\ entities' = [entities EXCEPT ![k] = Append(WithoutSlot(@, x), e)]
    BY <1>7 DEF AddAgain, AgainIsDefined
  <2>2. entities \in [Keys -> Seq(Entities)] /\ archetypes \subseteq Keys
    BY DEF IInv, StoreFits, IsStore
  <2>3. Len(Append(WithoutSlot(entities[k], x), e)) > 0
    <3>1. /\ WithoutSlot(entities[k], x) \in Seq(Entities)
          /\ e \in Entities
      BY <1>3, <2>1, <2>2, WithoutSlotFacts DEF Size
    <3> QED BY <3>1, AppendFacts
  <2>4. ASSUME NEW l \in archetypes, l # k
        PROVE  entities'[l] = entities[l] /\ Len(entities[l]) \in Nat
    BY <2>1, <2>2, <2>4
  <2> QED BY <2>1, <2>2, <2>3, <2>4 DEF NoneEmptied, Size
<1>8. CASE Destroy
  BY <1>8 DEF Destroy, NoneEmptied
<1>9. CASE \/ \E chunk \in Chunks : Create(chunk)
           \/ \E c \in Components : Save(c)
           \/ \E e \in DOMAIN entity_index, c \in Components, v \in Values :
                Write(e, c, v)
           \/ \E e \in DOMAIN entity_index, c \in Components :
                RemoveAbsent(e, c) \/ UndefinedAdd(e, c) \/ UndefinedRemove(e, c)
           \/ \E e \in DOMAIN entity_index :
                RemoveEntity(e) \/ UseOfStaleRecord(e) \/ UseOfNullArchetype(e)
           \/ DestroyTerminates
           \/ UNCHANGED vars
  <2>1. archetypes' = archetypes /\ entities' = entities
    BY <1>9 DEF Create, Save, Write, RemoveAbsent, UndefinedAdd,
                UndefinedRemove, RemoveEntity, UseOfStaleRecord,
                UseOfNullArchetype, DestroyTerminates, BecomesUndefined,
                storeVars, vars
  <2>2. entities \in [Keys -> Seq(Entities)] /\ archetypes \subseteq Keys
    BY DEF IInv, StoreFits, IsStore
  <2>3. ASSUME NEW k \in archetypes PROVE Len(entities[k]) \in Nat
    BY <2>2
  <2> QED BY <2>1, <2>3 DEF NoneEmptied, Size
<1>10. \A chunk, vals, built : ~ CreateWithThrows(chunk, vals, built)
  BY DEF CreateWithThrows, Calling
<1> QED BY <1>1, <1>2, <1>4, <1>5, <1>6, <1>7, <1>8, <1>9, <1>10 DEF Next, Step

(* As long as no create<Cs...> throws (registry.hpp:139), an archetype in   *)
(* the table has entities, whatever else a client does: iterators, which    *)
(* dereference the first slot of an archetype unseen, find one there.       *)
THEOREM ArchetypesHaveEntities ==
  ASSUME "create_unregistered" \notin Calls
  PROVE  Spec => []NoEmptyArchetype
<1>1. Init => NoEmptyArchetype
  BY DEF Init, NoEmptyArchetype
<1>2. IInv /\ NoEmptyArchetype /\ [Next]_vars => NoEmptyArchetype'
  BY StepEmptiesNone DEF NoneEmptied, NoEmptyArchetype, Size
<1> QED BY <1>1, <1>2, InductiveInvariant, PTL DEF Spec

-------------------------------------------------------------------------------
(***************************************************************************)
(* Objects live in exactly the slots of entities, for clients that neither *)
(* add a component twice nor remove one of several nor create entities     *)
(* with unregistered components.  Their records may be stale: no call of   *)
(* theirs writes behind the last slot or leaves an object behind.          *)
(***************************************************************************)

(* The arrays of k with objects for n entities.                            *)
ExactFor(arrays, k, n) ==
  \A c \in Components : Exact(arrays[c], IF c \in k.signature THEN n ELSE 0)

AllExact(ents, arrays) == \A k \in Keys : ExactFor(arrays[k], k, Len(ents[k]))

Exactness == AllExact(entities, byte_arrays)

(* StorageExact says this.                                                 *)
LEMMA ExactnessIsExact == IInv /\ Exactness => StorageExact
<1> SUFFICES ASSUME IInv, Exactness, NEW k \in Keys, NEW c \in Components,
                    NEW i \in 0 .. byte_arrays[k][c].size - 1
             PROVE  byte_arrays[k][c].data[i] # raw
                      <=> c \in k.signature /\ i < Size(k)
  BY DEF StorageExact
<1>1. Exact(byte_arrays[k][c], IF c \in k.signature THEN Size(k) ELSE 0)
  BY DEF Exactness, AllExact, ExactFor, Size
<1>2. ~ (i < 0)
  OBVIOUS
<1> QED BY <1>1, <1>2 DEF Exact

(* No arrays hold no objects.                                              *)
LEMMA NoArraysExact ==
  ASSUME NEW k, NEW n
  PROVE  ExactFor(NoArrays, k, n)
<1>1. NewArray.size = 0
  BY DEF NewArray
<1>2. 0 .. 0 - 1 = {}
  OBVIOUS
<1> QED BY <1>1, <1>2 DEF ExactFor, Exact, NoArrays

(* One archetype changes.                                                  *)
LEMMA ExactUpdate ==
  ASSUME NEW ents, NEW arrays, IsStore(ents, arrays), AllExact(ents, arrays),
         NEW k \in Keys, NEW s, NEW a, ExactFor(a, k, Len(s))
  PROVE  AllExact([ents EXCEPT ![k] = s], [arrays EXCEPT ![k] = a])
BY DEF IsStore, AllExact

(* Two archetypes change.                                                  *)
LEMMA ExactUpdates ==
  ASSUME NEW ents, NEW arrays, IsStore(ents, arrays), AllExact(ents, arrays),
         NEW k \in Keys, NEW s, NEW a, ExactFor(a, k, Len(s)),
         NEW l \in Keys, NEW t, NEW b, ExactFor(b, l, Len(t)), k # l
  PROVE  AllExact([ents EXCEPT ![k] = s, ![l] = t],
                  [arrays EXCEPT ![k] = a, ![l] = b])
BY DEF IsStore, AllExact

(* The arrays of an archetype that gains an entity: those of the signature *)
(* gain an object each.                                                    *)
LEMMA GainsObjects ==
  ASSUME IInv, NEW k \in Keys, ExactFor(byte_arrays[k], k, Size(k)),
         NEW vals, \A d \in k.signature : vals[d] # raw
  PROVE  ExactFor([d \in Components |->
                     IF d \in k.signature
                     THEN emplace_component(byte_arrays[k][d], Size(k), vals[d])
                     ELSE byte_arrays[k][d]],
                  k, Size(k) + 1)
<1>1. Fit(byte_arrays[k], k, Size(k)) /\ Size(k) \in Nat
  BY DEF IInv, StoreFits, IsStore, Size
<1> SUFFICES ASSUME NEW d \in Components, d \in k.signature
             PROVE  Exact(emplace_component(byte_arrays[k][d], Size(k), vals[d]),
                          Size(k) + 1)
  BY DEF ExactFor
<1>2. /\ IsByteArray(byte_arrays[k][d], Values)
      /\ Size(k) <= byte_arrays[k][d].size
      /\ Exact(byte_arrays[k][d], Size(k))
  BY <1>1 DEF Fit, ExactFor
<1> QED BY <1>1, <1>2, EmplaceExact

(* The arrays of an archetype that loses the entity in slot x: an object   *)
(* is moved out of each, or erased.                                        *)
LEMMA LosesObjects ==
  ASSUME IInv, NEW k \in Keys, ExactFor(byte_arrays[k], k, Size(k)),
         NEW x \in Nat, x < Size(k), NEW arrays, DOMAIN arrays = Components,
         \A d \in Components :
           \/ /\ d \in k.signature
              /\ \/ arrays[d] = move_out(byte_arrays[k][d], x, Size(k))
                 \/ arrays[d] = erase_component(byte_arrays[k][d], x, Size(k))
           \/ d \notin k.signature /\ arrays[d] = byte_arrays[k][d]
  PROVE  ExactFor(ArraysAfterLeaving(k, arrays), k, Size(k) - 1)
<1>1. Fit(byte_arrays[k], k, Size(k)) /\ Size(k) \in Nat \ {0}
  BY DEF IInv, StoreFits, IsStore, Size
<1>2. ASSUME NEW d \in Components
      PROVE  Exact(arrays[d], IF d \in k.signature THEN Size(k) - 1 ELSE 0)
  <2>1. /\ IsByteArray(byte_arrays[k][d], Values)
        /\ d \in k.signature => Size(k) <= byte_arrays[k][d].size
        /\ Exact(byte_arrays[k][d], IF d \in k.signature THEN Size(k) ELSE 0)
    BY <1>1 DEF Fit, ExactFor
  <2>2. CASE /\ d \in k.signature
             /\ arrays[d] = move_out(byte_arrays[k][d], x, Size(k))
    BY <1>1, <2>1, <2>2, MoveOutExact
  <2>3. CASE /\ d \in k.signature
             /\ arrays[d] = erase_component(byte_arrays[k][d], x, Size(k))
    BY <1>1, <2>1, <2>3, EraseExact
  <2>4. CASE d \notin k.signature /\ arrays[d] = byte_arrays[k][d]
    BY <2>1, <2>4
  <2> QED BY <2>2, <2>3, <2>4
<1>3. ExactFor(arrays, k, Size(k) - 1)
  BY <1>2 DEF ExactFor
<1> QED BY <1>3, NoArraysExact DEF ArraysAfterLeaving

(* The object an entity has in its slot is a value.                        *)
LEMMA ObjectsAreValues ==
  ASSUME IInv, Exactness, NEW k \in Keys, NEW d \in k.signature,
         NEW x \in Nat, x < Size(k)
  PROVE  byte_arrays[k][d].data[x] \in Values
<1>1. /\ d \in Components
      /\ IsByteArray(byte_arrays[k][d], Values)
      /\ Size(k) \in Nat /\ Size(k) <= byte_arrays[k][d].size
      /\ byte_arrays[k][d].data[x] \in Values \cup {raw}
  BY SlotFacts DEF IInv, Keys
<1>2. x \in 0 .. byte_arrays[k][d].size - 1
  BY <1>1 DEF IsByteArray
<1>3. Exact(byte_arrays[k][d], Size(k))
  BY <1>1 DEF Exactness, AllExact, ExactFor, Size
<1> QED BY <1>1, <1>2, <1>3 DEF Exact

(* create<Cs...>(chunk, cs...) of registered components.                   *)
LEMMA CreateWithIsExact ==
  ASSUME IInv, Exactness, NEW chunk \in Chunks, NEW vals \in Payloads,
         CreateWith(chunk, vals)
  PROVE  Exactness'
<1> DEFINE k == [signature |-> DOMAIN vals, chunk_id |-> chunk]
           F == [c \in Components |->
                   IF c \in DOMAIN vals
                   THEN emplace_component(byte_arrays[k][c], Size(k), vals[c])
                   ELSE byte_arrays[k][c]]
<1>1. /\ k \in Keys /\ k.signature = DOMAIN vals
      /\ \A c \in DOMAIN vals : vals[c] # raw
  BY PayloadFacts, RawAssumption
<1>2. PICK e \in Entities : entities' = [entities EXCEPT ![k] = Append(@, e)]
  BY DEF CreateWith
<1>3. byte_arrays' = [byte_arrays EXCEPT ![k] = F]
  BY DEF CreateWith
<1>4. AllExact(entities, byte_arrays) /\ IsStore(entities, byte_arrays)
  BY DEF Exactness, IInv, StoreFits
<1>5. Len(Append(entities[k], e)) = Size(k) + 1
  BY <1>1, <1>4, AppendFacts DEF IsStore, Size
<1>6. ExactFor(F, k, Size(k) + 1)
  BY <1>1, <1>4, GainsObjects DEF AllExact, Size
<1> HIDE DEF k, F
<1> QED BY <1>1, <1>2, <1>3, <1>4, <1>5, <1>6, ExactUpdate DEF Exactness

(* add of the first component of an entity.                                *)
LEMMA AddFirstIsExact ==
  ASSUME IInv, Exactness, NEW e \in DOMAIN entity_index, NEW c \in Components,
         NEW v \in Values, AddFirst(e, c, v)
  PROVE  Exactness'
<1> DEFINE k == [signature |-> {c}, chunk_id |-> entity_index[e].chunk_id]
           vals == [d \in {c} |-> v]
           F == [d \in Components |->
                   IF d \in k.signature
                   THEN emplace_component(byte_arrays[k][d], Size(k), vals[d])
                   ELSE byte_arrays[k][d]]
<1>1. k \in Keys /\ k.signature = {c} /\ e \in Entities
  BY RecordFacts DEF Keys, IInv
<1>2. AllExact(entities, byte_arrays) /\ IsStore(entities, byte_arrays)
  BY DEF Exactness, IInv, StoreFits
<1>3. /\ entities' = [entities EXCEPT ![k] = Append(@, e)]
      /\ byte_arrays' = [byte_arrays EXCEPT ![k][c] =
                           emplace_component(@, Size(k), v)]
  BY DEF AddFirst
<1>4. DOMAIN byte_arrays = Keys /\ DOMAIN byte_arrays[k] = Components
  BY <1>1, <1>2 DEF IsStore, Fit
<1>5. byte_arrays' = [byte_arrays EXCEPT ![k] = F]
  <2>1. F = [byte_arrays[k] EXCEPT ![c] = emplace_component(@, Size(k), v)]
    <3>1. \A d \in Components : d # c => F[d] = byte_arrays[k][d]
      BY <1>1
    <3>2. F[c] = emplace_component(byte_arrays[k][c], Size(k), v)
      BY <1>1
    <3> QED BY <1>4, <3>1, <3>2
  <2> HIDE DEF F
  <2> QED BY <1>1, <1>3, <1>4, <2>1
<1>6. ExactFor(F, k, Size(k) + 1)
  <2>1. \A d \in k.signature : vals[d] # raw
    BY <1>1, RawAssumption
  <2> HIDE DEF vals
  <2> QED BY <1>1, <1>2, <2>1, GainsObjects DEF AllExact, Size
<1>7. entities' = [entities EXCEPT ![k] = Append(@, e)]
  BY <1>3
<1> HIDE DEF k, F, vals
<1>8. Len(Append(entities[k], e)) = Size(k) + 1
  BY <1>1, <1>2, AppendFacts DEF IsStore, Size
<1> QED BY <1>1, <1>2, <1>5, <1>6, <1>7, <1>8, ExactUpdate DEF Exactness

(* add of a component the entity does not have.                            *)
LEMMA AddNextIsExact ==
  ASSUME IInv, Exactness, NEW e \in DOMAIN entity_index, NEW c \in Components,
         NEW v \in Values, AddNext(e, c, v)
  PROVE  Exactness'
<1> DEFINE old == entity_index[e].entity_archetype
           new == WithComponent(old, c)
           x == entity_index[e].index
           vals == [d \in new.signature |->
                      IF d = c THEN v ELSE byte_arrays[old][d].data[x]]
           moved == [d \in Components |->
                       IF d \in old.signature
                       THEN move_out(byte_arrays[old][d], x, Size(old))
                       ELSE byte_arrays[old][d]]
           F == ArraysAfterLeaving(old, moved)
           G == [d \in Components |->
                   IF d \in new.signature
                   THEN emplace_component(byte_arrays[new][d], Size(new), vals[d])
                   ELSE byte_arrays[new][d]]
<1>1. HasSlot(e) /\ c \notin old.signature
  BY DEF AddNext
<1>2. /\ e \in Entities /\ old \in Keys /\ x \in Nat /\ x < Size(old)
      /\ entities[old] \in Seq(Entities) /\ Size(old) = Len(entities[old])
  BY <1>1, HasSlotFacts
<1>3. /\ new \in Keys /\ new # old
      /\ new.signature = old.signature \cup {c}
  BY <1>1, <1>2, KeyFacts
<1>4. /\ entities' = [entities EXCEPT ![old] = WithoutSlot(@, x),
                                      ![new] = Append(@, e)]
      /\ byte_arrays' = [byte_arrays EXCEPT
           ![old] = F,
           ![new] = [d \in Components |->
                      CASE d = c -> emplace_component(@[d], Size(new), v)
                        [] d \in old.signature ->
                             emplace_component(@[d], Size(new),
                                               byte_arrays[old][d].data[x])
                        [] OTHER -> @[d]]]
  BY <1>3 DEF AddNext
<1>5. byte_arrays' = [byte_arrays EXCEPT ![old] = F, ![new] = G]
  <2>1. G = [d \in Components |->
               CASE d = c -> emplace_component(byte_arrays[new][d], Size(new), v)
                 [] d \in old.signature ->
                      emplace_component(byte_arrays[new][d], Size(new),
                                        byte_arrays[old][d].data[x])
                 [] OTHER -> byte_arrays[new][d]]
    <3> SUFFICES ASSUME NEW d \in Components
                 PROVE  G[d] =
                   CASE d = c -> emplace_component(byte_arrays[new][d], Size(new), v)
                     [] d \in old.signature ->
                          emplace_component(byte_arrays[new][d], Size(new),
                                            byte_arrays[old][d].data[x])
                     [] OTHER -> byte_arrays[new][d]
      OBVIOUS
    <3>1. d \in new.signature =>
            vals[d] = IF d = c THEN v ELSE byte_arrays[old][d].data[x]
      OBVIOUS
    <3>2. G[d] = IF d \in new.signature
                 THEN emplace_component(byte_arrays[new][d], Size(new), vals[d])
                 ELSE byte_arrays[new][d]
      OBVIOUS
    <3> HIDE DEF vals, G, new, old, x
    <3>3. CASE d = c
      BY <1>1, <1>3, <3>1, <3>2, <3>3
    <3>4. CASE d \in old.signature /\ d # c
      BY <1>3, <3>1, <3>2, <3>4
    <3>5. CASE d \notin old.signature /\ d # c
      <4>1. d \notin new.signature
        BY <1>3, <3>5
      <4> QED BY <3>2, <3>5, <4>1
    <3> QED BY <3>3, <3>4, <3>5
  <2> HIDE DEF F, G
  <2> QED BY <1>3, <1>4, <2>1
<1>6. AllExact(entities, byte_arrays) /\ IsStore(entities, byte_arrays)
  BY DEF Exactness, IInv, StoreFits
<1>7. ExactFor(F, old, Size(old) - 1)
  <2>1. ExactFor(byte_arrays[old], old, Size(old))
    BY <1>2, <1>6 DEF AllExact, Size
  <2>2. /\ DOMAIN moved = Components
        /\ \A d \in Components :
             \/ /\ d \in old.signature
                /\ moved[d] = move_out(byte_arrays[old][d], x, Size(old))
             \/ d \notin old.signature /\ moved[d] = byte_arrays[old][d]
    OBVIOUS
  <2> HIDE DEF moved
  <2> QED BY <1>2, <2>1, <2>2, LosesObjects
<1>8. ExactFor(G, new, Size(new) + 1)
  <2>1. \A d \in new.signature : vals[d] # raw
    <3> SUFFICES ASSUME NEW d \in new.signature PROVE vals[d] # raw
      OBVIOUS
    <3>1. vals[d] = IF d = c THEN v ELSE byte_arrays[old][d].data[x]
      OBVIOUS
    <3>2. CASE d = c
      BY <3>1, <3>2, RawAssumption
    <3>3. CASE d # c
      <4>1. d \in old.signature
        BY <1>3, <3>3
      <4>2. byte_arrays[old][d].data[x] \in Values
        BY <1>2, <4>1, ObjectsAreValues
      <4> QED BY <3>1, <3>3, <4>2, RawAssumption
    <3> QED BY <3>2, <3>3
  <2> HIDE DEF vals
  <2> QED BY <1>3, <1>6, <2>1, GainsObjects DEF AllExact, Size
<1> HIDE DEF old, new, x, F, G
<1>9. /\ Len(WithoutSlot(entities[old], x)) = Size(old) - 1
      /\ Len(Append(entities[new], e)) = Size(new) + 1
  BY <1>2, <1>3, <1>6, AppendFacts, WithoutSlotFacts DEF IsStore, Size
<1>10. entities' = [entities EXCEPT ![old] = WithoutSlot(entities[old], x),
                                    ![new] = Append(entities[new], e)]
  BY <1>3, <1>4
<1> DEFINE s == WithoutSlot(entities[old], x)
           t == Append(entities[new], e)
<1>11. ExactFor(F, old, Len(s)) /\ ExactFor(G, new, Len(t))
  BY <1>7, <1>8, <1>9
<1> HIDE DEF s, t
<1>12. AllExact([entities EXCEPT ![old] = s, ![new] = t],
                [byte_arrays EXCEPT ![old] = F, ![new] = G])
  BY <1>2, <1>3, <1>6, <1>11, ExactUpdates
<1>13. entities' = [entities EXCEPT ![old] = s, ![new] = t]
  BY <1>10 DEF s, t
<1> QED BY <1>5, <1>12, <1>13 DEF Exactness

(* An assignment to a component.                                           *)
LEMMA WriteIsExact ==
  ASSUME IInv, Exactness, NEW e \in DOMAIN entity_index, NEW c \in Components,
         NEW v \in Values, Write(e, c, v)
  PROVE  Exactness'
<1> DEFINE k == entity_index[e].entity_archetype
           x == entity_index[e].index
           F == [byte_arrays[k] EXCEPT ![c] = construct(@, x, v)]
<1>1. HasSlot(e) /\ c \in k.signature
  BY DEF Write
<1>2. /\ k \in Keys /\ x \in Nat /\ x < Size(k)
      /\ Size(k) \in Nat \ {0} /\ Fit(byte_arrays[k], k, Size(k))
  BY <1>1, HasSlotFacts
<1>3. byte_arrays' = [byte_arrays EXCEPT ![k] = F] /\ entities' = entities
  BY DEF Write
<1>4. AllExact(entities, byte_arrays) /\ IsStore(entities, byte_arrays)
  BY DEF Exactness, IInv, StoreFits
<1>5. ExactFor(byte_arrays[k], k, Size(k))
  BY <1>2, <1>4 DEF AllExact, Size
<1>6. Exact(construct(byte_arrays[k][c], x, v), Size(k))
  <2>1. /\ IsByteArray(byte_arrays[k][c], Values)
        /\ Size(k) <= byte_arrays[k][c].size
        /\ Exact(byte_arrays[k][c], Size(k))
    BY <1>1, <1>2, <1>5 DEF Fit, ExactFor
  <2> QED BY <1>2, <2>1, AssignExact, RawAssumption
<1>7. ExactFor(F, k, Size(k))
  BY <1>1, <1>2, <1>5, <1>6 DEF ExactFor, Fit
<1> HIDE DEF k, x, F
<1> QED BY <1>2, <1>3, <1>4, <1>7 DEF Exactness, AllExact, IsStore, Size

(* remove<C> of the only component.                                        *)
LEMMA RemoveLastIsExact ==
  ASSUME IInv, Exactness, NEW e \in DOMAIN entity_index, NEW c \in Components,
         RemoveLast(e, c)
  PROVE  Exactness'
<1> DEFINE k == entity_index[e].entity_archetype
           x == entity_index[e].index
           erased == [d \in Components |->
             CASE d = c -> erase_component(byte_arrays[k][d], x, Size(k))
               [] d \in k.signature \ {c} -> move_out(byte_arrays[k][d], x, Size(k))
               [] OTHER -> byte_arrays[k][d]]
           F == ArraysAfterLeaving(k, erased)
<1>1. HasSlot(e) /\ k.signature = {c}
  BY DEF RemoveLast
<1>2. /\ k \in Keys /\ x \in Nat /\ x < Size(k)
      /\ entities[k] \in Seq(Entities) /\ Size(k) = Len(entities[k])
  BY <1>1, HasSlotFacts
<1>3. /\ byte_arrays' = [byte_arrays EXCEPT ![k] = F]
      /\ entities' = [entities EXCEPT ![k] = WithoutSlot(@, x)]
  BY DEF RemoveLast, ArraysAfterRemove
<1>4. AllExact(entities, byte_arrays) /\ IsStore(entities, byte_arrays)
  BY DEF Exactness, IInv, StoreFits
<1>5. ExactFor(F, k, Size(k) - 1)
  <2>1. ExactFor(byte_arrays[k], k, Size(k))
    BY <1>2, <1>4 DEF AllExact, Size
  <2>2. /\ DOMAIN erased = Components
        /\ \A d \in Components :
             \/ /\ d \in k.signature
                /\ \/ erased[d] = move_out(byte_arrays[k][d], x, Size(k))
                   \/ erased[d] = erase_component(byte_arrays[k][d], x, Size(k))
             \/ d \notin k.signature /\ erased[d] = byte_arrays[k][d]
    BY <1>1
  <2> HIDE DEF erased
  <2> QED BY <1>2, <2>1, <2>2, LosesObjects
<1> HIDE DEF k, x, F
<1>6. Len(WithoutSlot(entities[k], x)) = Size(k) - 1
  BY <1>2, WithoutSlotFacts
<1> QED BY <1>2, <1>3, <1>4, <1>5, <1>6, ExactUpdate DEF Exactness

(* The clients the theorem is about.                                       *)
KeepsStorage ==
  Calls \cap {"create_unregistered", "add_again", "remove"} = {}

(* Every call of theirs keeps the storage exact.                           *)
LEMMA StepIsExact ==
  KeepsStorage /\ IInv /\ Exactness /\ [Next]_vars => Exactness'
<1> SUFFICES ASSUME KeepsStorage, IInv, Exactness, [Next]_vars PROVE Exactness'
  OBVIOUS
<1>1. ASSUME NEW chunk \in Chunks, NEW vals \in Payloads,
             CreateWith(chunk, vals)
      PROVE  Exactness'
  BY <1>1, CreateWithIsExact
<1>2. ASSUME NEW e \in DOMAIN entity_index, NEW c \in Components,
             NEW v \in Values, AddFirst(e, c, v) \/ AddNext(e, c, v) \/ Write(e, c, v)
      PROVE  Exactness'
  BY <1>2, AddFirstIsExact, AddNextIsExact, WriteIsExact
<1>3. ASSUME NEW e \in DOMAIN entity_index, NEW c \in Components,
             RemoveLast(e, c)
      PROVE  Exactness'
  BY <1>3, RemoveLastIsExact
<1>4. CASE Destroy
  BY <1>4, NoArraysExact DEF Destroy, Exactness, AllExact
<1>5. CASE \/ \E chunk \in Chunks : Create(chunk)
           \/ \E c \in Components : Save(c)
           \/ \E e \in DOMAIN entity_index, c \in Components :
                RemoveAbsent(e, c) \/ UndefinedAdd(e, c) \/ UndefinedRemove(e, c)
           \/ \E e \in DOMAIN entity_index :
                RemoveEntity(e) \/ UseOfStaleRecord(e) \/ UseOfNullArchetype(e)
           \/ DestroyTerminates
           \/ UNCHANGED vars
  <2>1. byte_arrays' = byte_arrays /\ entities' = entities
    BY <1>5 DEF Create, Save, RemoveAbsent, UndefinedAdd, UndefinedRemove,
                RemoveEntity, UseOfStaleRecord, UseOfNullArchetype,
                DestroyTerminates, BecomesUndefined, storeVars, vars
  <2> QED BY <2>1 DEF Exactness
<1>6. \A chunk, vals, built : ~ CreateWithThrows(chunk, vals, built)
  BY DEF CreateWithThrows, Calling, KeepsStorage
<1>7. \A e, c, v : ~ AddAgain(e, c, v)
  BY DEF AddAgain, Calling, KeepsStorage
<1>8. \A e, c : ~ Remove(e, c)
  BY DEF Remove, Calling, KeepsStorage
<1> QED BY <1>1, <1>2, <1>3, <1>4, <1>5, <1>6, <1>7, <1>8 DEF Next, Step

(* For every client that does not add a component twice                    *)
(* (archetype_handler.hpp: the old value is not destroyed), remove one of  *)
(* several (the components land one slot too low) or have create<Cs...>    *)
(* throw midway, an object lives in exactly the slots below the number of  *)
(* entities, through growth, shrinking, swaps with the last slot and moves *)
(* between archetypes, also when records are stale.                        *)
THEOREM StorageStaysExact ==
  ASSUME KeepsStorage
  PROVE  Spec => []StorageExact
<1>1. Init => Exactness
  BY NoArraysExact DEF Init, Exactness, AllExact
<1>2. IInv /\ Exactness /\ [Next]_vars => Exactness'
  BY StepIsExact
<1> QED BY <1>1, <1>2, ExactnessIsExact, InductiveInvariant, PTL DEF Spec

-------------------------------------------------------------------------------

(***************************************************************************)
(* Records and slots that agree but for the entities in transit, which are *)
(* in no slot and whose records do not count.                              *)
(***************************************************************************)
RecordsRight(index, ents, T, transit) ==
  \A g \in DOMAIN index \ transit :
    LET r == index[g] IN
    \/ r.entity_archetype = nullptr
    \/ /\ r.entity_archetype \in T
       /\ r.index < Len(ents[r.entity_archetype])
       /\ ents[r.entity_archetype][r.index + 1] = g
       /\ r.entity_archetype.chunk_id = r.chunk_id

SlotsRight(index, ents, T, transit) ==
  \A k \in Keys : \A i \in 1 .. Len(ents[k]) :
    /\ k \in T
    /\ ents[k][i] \in DOMAIN index \ transit
    /\ index[ents[k][i]].entity_archetype = k
    /\ index[ents[k][i]].index = i - 1

Agree(index, ents, T, transit) ==
  /\ IsIndex(index)
  /\ ents \in [Keys -> Seq(Entities)]
  /\ T \subseteq Keys
  /\ RecordsRight(index, ents, T, transit)
  /\ SlotsRight(index, ents, T, transit)

Agreeing == Agree(entity_index, entities, archetypes, {})

(* Without an entity in transit this is what the two properties say.       *)
LEMMA AgreeingIsBoth ==
  IInv => (Agreeing <=> RecordsNameSlots /\ SlotsNameRecords)
BY DEF IInv, StoreFits, IsStore, Agreeing, Agree, RecordsRight, SlotsRight,
       RecordsNameSlots, SlotsNameRecords, Size

(* An archetype without entities changes nothing.                          *)
LEMMA AgreeWithMore ==
  ASSUME NEW index, NEW ents, NEW T, NEW transit, Agree(index, ents, T, transit),
         NEW k \in Keys
  PROVE  Agree(index, ents, T \cup {k}, transit)
BY DEF Agree, RecordsRight, SlotsRight

(* An entity whose record has no archetype is in no slot.                  *)
LEMMA WithoutArchetype ==
  ASSUME NEW index, NEW ents, NEW T, Agree(index, ents, T, {}),
         NEW e \in DOMAIN index, index[e].entity_archetype = nullptr
  PROVE  Agree(index, ents, T, {e})
BY PointerAssumption DEF Agree, RecordsRight, SlotsRight

(* emplace of a new entity.                                                *)
LEMMA NewRecord ==
  ASSUME NEW ents, NEW T, Agree(entity_index, ents, T, {}),
         NEW e \in Entities, e \notin DOMAIN entity_index, NEW chunk \in Chunks
  PROVE  /\ Agree(Emplaced(e, chunk), ents, T, {})
         /\ DOMAIN Emplaced(e, chunk) = DOMAIN entity_index \cup {e}
         /\ \A g \in DOMAIN entity_index :
              Emplaced(e, chunk)[g] = entity_index[g]
         /\ Emplaced(e, chunk)[e].entity_archetype = nullptr
         /\ Emplaced(e, chunk)[e].chunk_id = chunk
<1> DEFINE index == Emplaced(e, chunk)
<1>1. IsIndex(index) /\ e \in DOMAIN index
  BY EmplacedIsIndex DEF Agree
<1>2. /\ DOMAIN index = DOMAIN entity_index \cup {e}
      /\ \A g \in DOMAIN entity_index : index[g] = entity_index[g]
      /\ index[e].entity_archetype = nullptr /\ index[e].chunk_id = chunk
  BY DEF Emplaced
<1> HIDE DEF index
<1>3. RecordsRight(index, ents, T, {})
  BY <1>2 DEF Agree, RecordsRight
<1>4. SlotsRight(index, ents, T, {})
  BY <1>2 DEF Agree, SlotsRight
<1> QED BY <1>1, <1>2, <1>3, <1>4 DEF index, Agree

(* The entity in transit is put behind the last slot of k.                 *)
LEMMA Entering ==
  ASSUME NEW index, NEW ents, NEW T, NEW e \in DOMAIN index,
         Agree(index, ents, T, {e}),
         NEW k \in Keys, k.chunk_id = index[e].chunk_id
  PROVE  Agree(Placed(index, e, k, Len(ents[k])),
               [ents EXCEPT ![k] = Append(@, e)], T \cup {k}, {})
<1> DEFINE n == Len(ents[k])
           after == Placed(index, e, k, n)
           s == Append(ents[k], e)
           ents2 == [ents EXCEPT ![k] = s]
<1>1. e \in Entities /\ ents[k] \in Seq(Entities) /\ n \in Nat
  BY DEF Agree, IsIndex
<1>2. /\ s \in Seq(Entities) /\ Len(s) = n + 1 /\ s[n + 1] = e
      /\ \A i \in 1 .. n : s[i] = ents[k][i]
  BY <1>1
<1>3. IsIndex(after)
  BY <1>1, PlacedIsIndex DEF Agree
<1>4. /\ DOMAIN after = DOMAIN index
      /\ \A g \in DOMAIN index : g # e => after[g] = index[g]
      /\ after[e] = [entity_archetype |-> k, index |-> n,
                     chunk_id |-> index[e].chunk_id]
  BY DEF Placed
<1> HIDE DEF s, after
<1>5. /\ ents2 \in [Keys -> Seq(Entities)] /\ ents2[k] = s
      /\ \A l \in Keys : l # k => ents2[l] = ents[l]
  BY <1>1, <1>2 DEF Agree
<1> HIDE DEF ents2
<1>6. RecordsRight(after, ents2, T \cup {k}, {})
  <2> SUFFICES ASSUME NEW g \in DOMAIN index, after[g].entity_archetype # nullptr
               PROVE  LET r == after[g] IN
                      /\ r.entity_archetype \in T \cup {k}
                      /\ r.index < Len(ents2[r.entity_archetype])
                      /\ ents2[r.entity_archetype][r.index + 1] = g
                      /\ r.entity_archetype.chunk_id = r.chunk_id
    BY <1>4 DEF RecordsRight
  <2>1. CASE g = e
    BY <1>1, <1>2, <1>4, <1>5, <2>1
  <2>2. CASE g # e
    <3> DEFINE l == index[g].entity_archetype
               i == index[g].index
    <3>1. /\ after[g] = index[g] /\ l \in T /\ l \in Keys /\ i \in Nat
          /\ i < Len(ents[l]) /\ ents[l][i + 1] = g
          /\ l.chunk_id = index[g].chunk_id
      BY <1>4, <2>2 DEF Agree, RecordsRight, IsIndex, Records
    <3>2. i < Len(ents2[l]) /\ ents2[l][i + 1] = g
      <4>1. CASE l = k
        BY <1>1, <1>2, <1>5, <3>1, <4>1
      <4>2. CASE l # k
        BY <1>5, <3>1, <4>2
      <4> QED BY <4>1, <4>2
    <3> QED BY <3>1, <3>2
  <2> QED BY <2>1, <2>2
<1>7. SlotsRight(after, ents2, T \cup {k}, {})
  <2> SUFFICES ASSUME NEW l \in Keys, NEW i \in 1 .. Len(ents2[l])
               PROVE  /\ l \in T \cup {k}
                      /\ ents2[l][i] \in DOMAIN index
                      /\ after[ents2[l][i]].entity_archetype = l
                      /\ after[ents2[l][i]].index = i - 1
    BY <1>4 DEF SlotsRight
  <2>1. CASE l = k /\ i = n + 1
    BY <1>1, <1>2, <1>4, <1>5, <2>1
  <2>2. CASE l # k \/ i # n + 1
    <3>1. i \in 1 .. Len(ents[l]) /\ ents2[l][i] = ents[l][i]
      BY <1>1, <1>2, <1>5, <2>2
    <3>2. /\ l \in T /\ ents[l][i] \in DOMAIN index \ {e}
          /\ index[ents[l][i]].entity_archetype = l
          /\ index[ents[l][i]].index = i - 1
      BY <3>1 DEF Agree, SlotsRight
    <3> QED BY <1>4, <3>1, <3>2
  <2> QED BY <2>1, <2>2
<1>8. T \cup {k} \subseteq Keys
  BY DEF Agree
<1> QED BY <1>3, <1>5, <1>6, <1>7, <1>8 DEF Agree, after, ents2, s

(* What agreement says of an entity in a slot, and of the last slot.       *)
LEMMA SlotOwner ==
  ASSUME IInv, Agreeing, NEW e \in DOMAIN entity_index, HasSlot(e),
         NEW k, k = entity_index[e].entity_archetype,
         NEW x, x = entity_index[e].index
  PROVE  LET n == Len(entities[k])
             last == entities[k][n]
         IN
         /\ k \in Keys /\ k \in archetypes /\ e \in Entities
         /\ k.chunk_id = entity_index[e].chunk_id
         /\ x \in Nat /\ n \in Nat \ {0} /\ x < n /\ Size(k) = n
         /\ entities[k] \in Seq(Entities) /\ entities[k][x + 1] = e
         /\ last \in DOMAIN entity_index
         /\ entity_index[last].entity_archetype = k
         /\ entity_index[last].index = n - 1
<1> DEFINE n == Len(entities[k])
           last == entities[k][n]
<1>1. /\ e \in Entities /\ k \in Keys /\ x \in Nat /\ x < n
      /\ n \in Nat \ {0} /\ Size(k) = n /\ entities[k] \in Seq(Entities)
  BY HasSlotFacts
<1>2. k # nullptr
  BY <1>1, PointerAssumption
<1>3. /\ k \in archetypes /\ entities[k][x + 1] = e
      /\ k.chunk_id = entity_index[e].chunk_id
  BY <1>2 DEF Agreeing, Agree, RecordsRight
<1>4. n \in 1 .. Len(entities[k])
  BY <1>1
<1>5. /\ last \in DOMAIN entity_index
      /\ entity_index[last].entity_archetype = k
      /\ entity_index[last].index = n - 1
  BY <1>1, <1>4 DEF Agreeing, Agree, SlotsRight
<1> QED BY <1>1, <1>3, <1>5

(* When e leaves slot x of k, the entity of the last slot fills the hole,  *)
(* unless it is e itself; every other entity keeps its record.             *)
LEMMA OthersWhenVacated ==
  ASSUME IInv, Agreeing, NEW e \in DOMAIN entity_index, HasSlot(e),
         NEW k, k = entity_index[e].entity_archetype,
         NEW x, x = entity_index[e].index,
         NEW g \in DOMAIN entity_index, g # e
  PROVE  LET n == Len(entities[k])
             last == entities[k][n]
             after == Vacated(k, x)
         IN
         /\ entity_index[g].entity_archetype = k =>
              /\ entity_index[g].index \in 0 .. n - 1
              /\ entities[k][entity_index[g].index + 1] = g
              /\ entity_index[g].index # x /\ n # 1
         /\ x + 1 # n /\ g = last =>
              after[g].entity_archetype = k /\ after[g].index = x
         /\ g # last => after[g] = entity_index[g]
         /\ x + 1 = n => g # last
<1> DEFINE n == Len(entities[k])
           last == entities[k][n]
           after == Vacated(k, x)
<1>1. /\ k \in Keys /\ x \in Nat /\ n \in Nat \ {0} /\ x < n /\ Size(k) = n
      /\ entities[k] \in Seq(Entities) /\ entities[k][x + 1] = e
      /\ last \in DOMAIN entity_index
      /\ entity_index[last].entity_archetype = k
      /\ entity_index[last].index = n - 1
  BY SlotOwner
<1>2. ASSUME entity_index[g].entity_archetype = k
      PROVE  /\ entity_index[g].index \in 0 .. n - 1
             /\ entities[k][entity_index[g].index + 1] = g
             /\ entity_index[g].index # x /\ n # 1
  <2>1. k # nullptr /\ entity_index[g].index \in Nat
    BY <1>1, PointerAssumption, RecordFacts DEF IInv
  <2>2. /\ entity_index[g].index < n
        /\ entities[k][entity_index[g].index + 1] = g
    BY <1>2, <2>1 DEF Agreeing, Agree, RecordsRight
  <2> HIDE DEF n
  <2> QED BY <1>1, <1>2, <2>1, <2>2
<1>3. x + 1 = n => g # last
  BY <1>1
<1>4. ~ (Size(k) = 1 /\ entity_index[g].entity_archetype = k)
  BY <1>1, <1>2
<1>5. after[g] = IF x + 1 # n /\ g = last
                 THEN [entity_index[g] EXCEPT !.index = x]
                 ELSE entity_index[g]
  BY <1>1, <1>4 DEF Vacated
<1>6. entity_index[g] \in Records
  BY DEF IInv, IsIndex
<1> HIDE DEF n, last, after
<1>7. /\ x + 1 # n /\ g = last =>
           after[g].entity_archetype = k /\ after[g].index = x
      /\ g # last => after[g] = entity_index[g]
  BY <1>1, <1>5, <1>6 DEF Records
<1> QED BY <1>2, <1>3, <1>7 DEF n, last, after

(* An entity leaves its slot, and is in transit.                           *)
LEMMA Leaving ==
  ASSUME IInv, Agreeing, NEW e \in DOMAIN entity_index, HasSlot(e),
         NEW k, k = entity_index[e].entity_archetype,
         NEW x, x = entity_index[e].index
  PROVE  /\ Agree(Vacated(k, x), [entities EXCEPT ![k] = WithoutSlot(@, x)],
                  archetypes \ Deleted(k), {e})
         /\ DOMAIN Vacated(k, x) = DOMAIN entity_index
         /\ Vacated(k, x)[e].chunk_id = k.chunk_id
<1> DEFINE n == Len(entities[k])
           last == entities[k][n]
           s == WithoutSlot(entities[k], x)
           after == Vacated(k, x)
           ents2 == [entities EXCEPT ![k] = s]
           T == archetypes \ Deleted(k)
<1>1. /\ k \in Keys /\ k \in archetypes /\ e \in Entities
      /\ k.chunk_id = entity_index[e].chunk_id
      /\ x \in Nat /\ n \in Nat \ {0} /\ x < n /\ Size(k) = n
      /\ entities[k] \in Seq(Entities) /\ entities[k][x + 1] = e
      /\ last \in DOMAIN entity_index
      /\ entity_index[last].entity_archetype = k
      /\ entity_index[last].index = n - 1
  BY SlotOwner
<1>2. /\ s \in Seq(Entities) /\ Len(s) = n - 1
      /\ \A i \in 1 .. n - 1 :
           s[i] = IF i = x + 1 THEN last ELSE entities[k][i]
  BY <1>1, WithoutSlotFacts DEF WithoutSlot
<1>3. IsIndex(after) /\ DOMAIN after = DOMAIN entity_index
  BY <1>1, VacatedIsIndex DEF IInv
<1>4. \A g \in DOMAIN entity_index : after[g].chunk_id = entity_index[g].chunk_id
  BY DEF Vacated, IInv, IsIndex, Records
<1>5. T \subseteq Keys /\ T \subseteq archetypes /\ archetypes \ {k} \subseteq T
      /\ (n # 1 => T = archetypes)
  BY <1>1 DEF IInv, Deleted
<1>6. ASSUME NEW g \in DOMAIN entity_index, g # e,
             entity_index[g].entity_archetype = k
      PROVE  /\ entity_index[g].index \in 0 .. n - 1
             /\ entities[k][entity_index[g].index + 1] = g
             /\ entity_index[g].index # x /\ n # 1
  BY <1>6, OthersWhenVacated
<1>7. ASSUME NEW g \in DOMAIN entity_index, g # e
      PROVE  /\ x + 1 # n /\ g = last =>
                  after[g].entity_archetype = k /\ after[g].index = x
             /\ g # last => after[g] = entity_index[g]
             /\ x + 1 = n => g # last
  BY <1>7, OthersWhenVacated
<1> HIDE DEF s, after, T
<1>8. /\ ents2 \in [Keys -> Seq(Entities)] /\ ents2[k] = s
      /\ \A l \in Keys : l # k => ents2[l] = entities[l]
  BY <1>1, <1>2 DEF IInv, StoreFits, IsStore
<1> HIDE DEF ents2
<1>9. RecordsRight(after, ents2, T, {e})
  <2> SUFFICES ASSUME NEW g \in DOMAIN entity_index, g # e,
                      after[g].entity_archetype # nullptr
               PROVE  LET r == after[g] IN
                      /\ r.entity_archetype \in T
                      /\ r.index < Len(ents2[r.entity_archetype])
                      /\ ents2[r.entity_archetype][r.index + 1] = g
                      /\ r.entity_archetype.chunk_id = r.chunk_id
    BY <1>3 DEF RecordsRight
  <2> DEFINE l == entity_index[g].entity_archetype
             i == entity_index[g].index
  <2>1. /\ after[g].entity_archetype = l
        /\ after[g].chunk_id = entity_index[g].chunk_id
    BY <1>1, <1>4, <1>7
  <2>2. /\ l \in archetypes /\ l \in Keys /\ i \in Nat /\ i < Len(entities[l])
        /\ entities[l][i + 1] = g /\ l.chunk_id = entity_index[g].chunk_id
    BY <2>1, RecordFacts DEF Agreeing, Agree, RecordsRight, IInv
  <2>3. CASE l # k
    <3>1. after[g] = entity_index[g] /\ l \in T
      BY <1>1, <1>5, <1>7, <2>2, <2>3
    <3> QED BY <1>8, <2>2, <2>3, <3>1
  <2>4. CASE l = k
    <3>1. l \in T /\ i \in 0 .. n - 1 /\ i # x /\ entities[k][i + 1] = g
      BY <1>5, <1>6, <2>2, <2>4
    <3>2. g # last => after[g].index = i
      BY <1>7
    <3> HIDE DEF i, n, last
    <3>3. CASE g = last
      <4>1. x + 1 # n /\ after[g].index = x
        BY <1>7, <3>3
      <4>2. x + 1 \in 1 .. n - 1
        BY <1>1, <4>1
      <4>3. x < Len(s)
        BY <1>1, <1>2, <4>2
      <4>4. s[x + 1] = last
        BY <1>2, <4>2
      <4> QED BY <1>8, <2>1, <2>2, <2>4, <3>1, <3>3, <4>1, <4>3, <4>4
    <3>4. CASE g # last
      <4>1. i + 1 \in 1 .. n - 1 /\ i + 1 # x + 1
        BY <1>1, <3>1, <3>4 DEF last
      <4>2. i < Len(s)
        BY <1>1, <1>2, <3>1, <4>1
      <4>3. s[i + 1] = g
        BY <1>2, <3>1, <4>1
      <4> QED BY <1>8, <2>1, <2>2, <2>4, <3>1, <3>2, <3>4, <4>2, <4>3
    <3> QED BY <3>3, <3>4
  <2> QED BY <2>3, <2>4
<1>10. SlotsRight(after, ents2, T, {e})
  <2> SUFFICES ASSUME NEW l \in Keys, NEW i \in 1 .. Len(ents2[l])
               PROVE  /\ l \in T
                      /\ ents2[l][i] \in DOMAIN entity_index \ {e}
                      /\ after[ents2[l][i]].entity_archetype = l
                      /\ after[ents2[l][i]].index = i - 1
    BY <1>3 DEF SlotsRight
  <2>1. CASE l # k
    <3> DEFINE g == entities[l][i]
    <3>1. /\ i \in 1 .. Len(entities[l]) /\ ents2[l][i] = g
      BY <1>8, <2>1
    <3>2. /\ l \in archetypes /\ g \in DOMAIN entity_index
          /\ entity_index[g].entity_archetype = l
          /\ entity_index[g].index = i - 1
      BY <3>1 DEF Agreeing, Agree, SlotsRight
    <3>3. g # e /\ g # last
      BY <1>1, <2>1, <3>2
    <3>4. l \in T
      BY <1>5, <2>1, <3>2
    <3>5. after[g] = entity_index[g]
      BY <1>7, <3>2, <3>3
    <3> QED BY <3>1, <3>2, <3>3, <3>4, <3>5
  <2>2. CASE l = k /\ i = x + 1
    <3>1. i \in 1 .. n - 1 /\ ents2[l][i] = s[i]
      BY <1>2, <1>8, <2>2
    <3>2. x + 1 # n /\ n # 1
      BY <1>1, <2>2, <3>1
    <3>3. ents2[l][i] = last
      BY <1>2, <2>2, <3>1
    <3>4. last # e
      BY <1>1, <3>2
    <3> QED BY <1>1, <1>5, <1>7, <2>2, <3>2, <3>3, <3>4
  <2>3. CASE l = k /\ i # x + 1
    <3> DEFINE g == entities[k][i]
    <3>1. i \in 1 .. n - 1 /\ ents2[l][i] = s[i]
      BY <1>2, <1>8, <2>3
    <3>2. i \in 1 .. n /\ n # 1
      BY <1>1, <3>1
    <3>3. ents2[l][i] = g
      BY <1>2, <2>3, <3>1
    <3>4. /\ g \in DOMAIN entity_index
          /\ entity_index[g].entity_archetype = k
          /\ entity_index[g].index = i - 1
      BY <1>1, <3>2 DEF Agreeing, Agree, SlotsRight
    <3>5. g # e /\ g # last
      BY <1>1, <2>3, <3>1, <3>4
    <3>6. k \in T /\ after[g] = entity_index[g]
      BY <1>1, <1>5, <1>7, <3>2, <3>4, <3>5
    <3> QED BY <2>3, <3>3, <3>4, <3>5, <3>6
  <2> QED BY <2>1, <2>2, <2>3
<1> QED BY <1>1, <1>3, <1>4, <1>5, <1>8, <1>9, <1>10
        DEF Agree, after, ents2, T, s

-------------------------------------------------------------------------------
(* What clients that do not remove entities rely on: no id is recycled, so *)
(* the ids of the index are those the counter has passed.                  *)
IdsFresh ==
  /\ recycled = << >>
  /\ \A e \in DOMAIN entity_index : e <= id_count

(* The id the dispenser hands out is then beyond every id of the index.    *)
LEMMA FreshId ==
  ASSUME IInv, IdsFresh, NEW e \in Entities, Dispenser!Get(e)
  PROVE  /\ e \notin DOMAIN entity_index
         /\ recycled' = << >> /\ id_count' = e
         /\ \A g \in DOMAIN entity_index : g <= e
<1>1. /\ id_count \in 0 .. MaxEntities /\ MaxEntities \in Nat
      /\ DOMAIN entity_index \subseteq 1 .. MaxEntities /\ e \in 1 .. MaxEntities
  BY BoundsAssumption
     DEF IInv, IsIndex, IdsOK, Dispenser!TypeOK, Dispenser!Ids, Entities
<1>2. /\ e = (id_count + 1) % (MaxEntities + 1)
      /\ id_count' = e /\ recycled' = recycled
  BY DEF Dispenser!Get, Dispenser!GetFresh, Dispenser!GetRecycled, IdsFresh
<1>3. e = id_count + 1
  BY <1>1, <1>2
<1> QED BY <1>1, <1>2, <1>3 DEF IdsFresh

(* The invariant: records and slots agree, and ids are fresh.              *)
Right == Agreeing /\ IdsFresh

(* No entity changes its slot, and no id is handed out.                    *)
LEMMA SameRight ==
  ASSUME Right,
         UNCHANGED <<entity_index, archetypes, entities, recycled, id_count>>
  PROVE  Right'
BY DEF Right, Agreeing, Agree, IsIndex, RecordsRight, SlotsRight, IdsFresh

(* create(chunk) emplaces a record under an id no record has.              *)
LEMMA CreateIsRight ==
  ASSUME IInv, Right, NEW chunk \in Chunks, Create(chunk)
  PROVE  Right'
<1>1. PICK e \in Entities : /\ Dispenser!Get(e)
                           /\ entity_index' = Emplaced(e, chunk)
  BY DEF Create
<1>2. /\ e \notin DOMAIN entity_index /\ recycled' = << >> /\ id_count' = e
      /\ \A g \in DOMAIN entity_index : g <= e
  BY <1>1, FreshId DEF Right
<1>3. Agree(Emplaced(e, chunk), entities, archetypes, {})
  BY <1>2, NewRecord DEF Right, Agreeing
<1>4. entities' = entities /\ archetypes' = archetypes
  BY DEF Create, storeVars
<1>5. DOMAIN Emplaced(e, chunk) = DOMAIN entity_index \cup {e}
  BY DEF Emplaced
<1>6. IdsFresh'
  BY <1>1, <1>2, <1>5 DEF IdsFresh, Entities
<1> QED BY <1>1, <1>3, <1>4, <1>6 DEF Right, Agreeing

(* create<Cs...>(chunk, cs...) puts the new entity behind the last slot of *)
(* its archetype.                                                          *)
LEMMA CreateWithIsRight ==
  ASSUME IInv, Right, NEW chunk \in Chunks, NEW vals \in Payloads,
         CreateWith(chunk, vals)
  PROVE  Right'
<1> DEFINE k == [signature |-> DOMAIN vals, chunk_id |-> chunk]
<1>1. PICK e \in Entities :
        /\ Dispenser!Get(e)
        /\ entity_index' = Placed(Emplaced(e, chunk), e, k, Size(k))
        /\ entities' = [entities EXCEPT ![k] = Append(@, e)]
        /\ archetypes' = archetypes \cup {k}
  BY DEF CreateWith
<1>2. k \in Keys /\ k.chunk_id = chunk
  BY PayloadFacts
<1>3. /\ e \notin DOMAIN entity_index /\ recycled' = << >> /\ id_count' = e
      /\ \A g \in DOMAIN entity_index : g <= e
  BY <1>1, FreshId DEF Right
<1> DEFINE index == Emplaced(e, chunk)
<1>4. /\ Agree(index, entities, archetypes, {}) /\ e \in DOMAIN index
      /\ index[e].entity_archetype = nullptr /\ index[e].chunk_id = chunk
  BY <1>3, NewRecord DEF Right, Agreeing
<1>5. DOMAIN index = DOMAIN entity_index \cup {e}
  BY DEF Emplaced
<1> HIDE DEF index, k
<1>6. Agree(index, entities, archetypes, {e})
  BY <1>4, WithoutArchetype
<1>7. Agree(Placed(index, e, k, Size(k)), [entities EXCEPT ![k] = Append(@, e)],
            archetypes \cup {k}, {})
  BY <1>2, <1>4, <1>6, Entering DEF Size
<1>8. DOMAIN Placed(index, e, k, Size(k)) = DOMAIN entity_index \cup {e}
  BY <1>5 DEF Placed
<1>9. IdsFresh'
  BY <1>1, <1>3, <1>8 DEF IdsFresh, Entities, index
<1> QED BY <1>1, <1>7, <1>9 DEF Right, Agreeing, index

(* create<Cs...>(chunk, cs...) that throws leaves a record without an      *)
(* archetype, and an archetype the entity is not in.                       *)
LEMMA CreateWithThrowsIsRight ==
  ASSUME IInv, Right, NEW chunk \in Chunks, NEW vals \in Payloads,
         NEW built \in SUBSET Components, CreateWithThrows(chunk, vals, built)
  PROVE  Right'
<1> DEFINE k == [signature |-> DOMAIN vals, chunk_id |-> chunk]
<1>1. PICK e \in Entities :
        /\ Dispenser!Get(e)
        /\ entity_index' = Emplaced(e, chunk)
        /\ entities' = entities
        /\ archetypes' = archetypes \cup {k}
  BY DEF CreateWithThrows
<1>2. k \in Keys
  BY PayloadFacts
<1>3. /\ e \notin DOMAIN entity_index /\ recycled' = << >> /\ id_count' = e
      /\ \A g \in DOMAIN entity_index : g <= e
  BY <1>1, FreshId DEF Right
<1> HIDE DEF k
<1>4. Agree(Emplaced(e, chunk), entities, archetypes, {})
  BY <1>3, NewRecord DEF Right, Agreeing
<1>5. Agree(Emplaced(e, chunk), entities, archetypes \cup {k}, {})
  BY <1>2, <1>4, AgreeWithMore
<1>6. DOMAIN Emplaced(e, chunk) = DOMAIN entity_index \cup {e}
  BY DEF Emplaced
<1>7. IdsFresh'
  BY <1>1, <1>3, <1>6 DEF IdsFresh, Entities
<1> QED BY <1>1, <1>5, <1>7 DEF Right, Agreeing

(* add of the first component of an entity.                                *)
LEMMA AddFirstIsRight ==
  ASSUME IInv, Right, NEW e \in DOMAIN entity_index, NEW c \in Components,
         NEW v \in Values, AddFirst(e, c, v)
  PROVE  Right'
<1> DEFINE k == [signature |-> {c}, chunk_id |-> entity_index[e].chunk_id]
<1>1. k \in Keys /\ k.chunk_id = entity_index[e].chunk_id
  BY RecordFacts DEF Keys, IInv
<1>2. /\ entity_index[e].entity_archetype = nullptr
      /\ entity_index' = Placed(entity_index, e, k, Size(k))
      /\ entities' = [entities EXCEPT ![k] = Append(@, e)]
      /\ archetypes' = archetypes \cup {k}
      /\ UNCHANGED <<recycled, id_count>>
  BY DEF AddFirst, idVars
<1> HIDE DEF k
<1>3. Agree(entity_index, entities, archetypes, {e})
  BY <1>2, WithoutArchetype DEF Right, Agreeing
<1>4. Agreeing'
  BY <1>1, <1>2, <1>3, Entering DEF Agreeing, Size
<1>5. DOMAIN entity_index' = DOMAIN entity_index
  BY <1>2 DEF Placed
<1> QED BY <1>2, <1>4, <1>5 DEF Right, IdsFresh

(* An entity moves from its archetype to another one of its chunk.         *)
LEMMA MovingIsRight ==
  ASSUME IInv, Right, NEW e \in DOMAIN entity_index, HasSlot(e),
         NEW old, old = entity_index[e].entity_archetype,
         NEW x, x = entity_index[e].index,
         NEW new \in Keys, new # old, new.chunk_id = old.chunk_id,
         archetypes' = (archetypes \cup {new}) \ Deleted(old),
         entity_index' = Placed(Vacated(old, x), e, new, Size(new)),
         entities' = [entities EXCEPT ![old] = WithoutSlot(@, x),
                                      ![new] = Append(@, e)],
         UNCHANGED <<recycled, id_count>>
  PROVE  Right'
<1> DEFINE index == Vacated(old, x)
           ents == [entities EXCEPT ![old] = WithoutSlot(@, x)]
           T == archetypes \ Deleted(old)
<1>1. /\ Agree(index, ents, T, {e})
      /\ DOMAIN index = DOMAIN entity_index
      /\ index[e].chunk_id = old.chunk_id
  BY Leaving DEF Right
<1>2. old \in Keys /\ entities \in [Keys -> Seq(Entities)]
  BY HasSlotFacts DEF IInv, StoreFits, IsStore
<1>3. ents[new] = entities[new] /\ Len(ents[new]) = Size(new)
  BY <1>2 DEF Size
<1>4. entities' = [ents EXCEPT ![new] = Append(@, e)]
  BY <1>2
<1>5. archetypes' = T \cup {new}
  BY DEF Deleted
<1> HIDE DEF index, ents, T
<1>6. Agree(Placed(index, e, new, Len(ents[new])),
            [ents EXCEPT ![new] = Append(@, e)], T \cup {new}, {})
  BY <1>1, Entering
<1>7. Agreeing'
  BY <1>3, <1>4, <1>5, <1>6 DEF Agreeing, index
<1>8. DOMAIN entity_index' = DOMAIN entity_index
  BY <1>1 DEF Placed, index
<1> QED BY <1>7, <1>8 DEF Right, IdsFresh

(* add of a component the entity did not have.                             *)
LEMMA AddNextIsRight ==
  ASSUME IInv, Right, NEW e \in DOMAIN entity_index, NEW c \in Components,
         NEW v \in Values, AddNext(e, c, v)
  PROVE  Right'
<1> DEFINE old == entity_index[e].entity_archetype
           new == WithComponent(old, c)
           x == entity_index[e].index
<1>1. /\ HasSlot(e) /\ c \notin old.signature
      /\ archetypes' = (archetypes \cup {new}) \ Deleted(old)
      /\ entity_index' = Placed(Vacated(old, x), e, new, Size(new))
      /\ entities' = [entities EXCEPT ![old] = WithoutSlot(@, x),
                                      ![new] = Append(@, e)]
      /\ UNCHANGED <<recycled, id_count>>
  BY DEF AddNext, idVars
<1>2. old \in Keys
  BY <1>1, HasSlotFacts
<1>3. new \in Keys /\ new # old /\ new.chunk_id = old.chunk_id
  BY <1>1, <1>2, KeyFacts DEF WithComponent, Keys
<1> QED BY <1>1, <1>3, MovingIsRight

(* remove<C> of one of several components.                                 *)
LEMMA RemoveIsRight ==
  ASSUME IInv, Right, NEW e \in DOMAIN entity_index, NEW c \in Components,
         Remove(e, c)
  PROVE  Right'
<1> DEFINE old == entity_index[e].entity_archetype
           new == WithoutComponent(old, c)
           x == entity_index[e].index
<1>1. /\ HasSlot(e) /\ c \in old.signature /\ new.signature # {}
      /\ archetypes' = (archetypes \cup {new}) \ Deleted(old)
      /\ entity_index' = Placed(Vacated(old, x), e, new, Size(new))
      /\ entities' = [entities EXCEPT ![old] = WithoutSlot(@, x),
                                      ![new] = Append(@, e)]
      /\ UNCHANGED <<recycled, id_count>>
  BY DEF Remove, idVars
<1>2. old \in Keys
  BY <1>1, HasSlotFacts
<1>3. new \in Keys /\ new # old /\ new.chunk_id = old.chunk_id
  BY <1>1, <1>2, KeyFacts DEF WithoutComponent, Keys
<1> QED BY <1>1, <1>3, MovingIsRight

(* add of a component the entity has: it leaves its slot and comes back as *)
(* the last entity of the same archetype.                                  *)
LEMMA AddAgainIsRight ==
  ASSUME IInv, Right, NEW e \in DOMAIN entity_index, NEW c \in Components,
         NEW v \in Values, AddAgain(e, c, v)
  PROVE  Right'
<1> DEFINE k == entity_index[e].entity_archetype
           x == entity_index[e].index
           index == Vacated(k, x)
           ents == [entities EXCEPT ![k] = WithoutSlot(@, x)]
<1>1. /\ HasSlot(e) /\ Size(k) > 1
      /\ entity_index' = Placed(Vacated(k, x), e, k, Size(k) - 1)
      /\ entities' = [entities EXCEPT ![k] = Append(WithoutSlot(@, x), e)]
      /\ UNCHANGED <<archetypes, recycled, id_count>>
  BY DEF AddAgain, AgainIsDefined, idVars
<1>2. /\ Agree(index, ents, archetypes \ Deleted(k), {e})
      /\ DOMAIN index = DOMAIN entity_index
      /\ index[e].chunk_id = k.chunk_id
  BY <1>1, Leaving DEF Right
<1>3. /\ k \in Keys /\ entities \in [Keys -> Seq(Entities)]
      /\ Size(k) \in Nat /\ Size(k) = Len(entities[k])
      /\ x \in Nat /\ x < Size(k) /\ k \in archetypes
  BY <1>1, HasSlotFacts, SlotOwner DEF IInv, StoreFits, IsStore, Right
<1>4. ents[k] = WithoutSlot(entities[k], x) /\ Len(ents[k]) = Size(k) - 1
  BY <1>3, WithoutSlotFacts
<1>5. entities' = [ents EXCEPT ![k] = Append(@, e)]
  BY <1>1, <1>3
<1>6. archetypes' = (archetypes \ Deleted(k)) \cup {k}
  BY <1>1, <1>3 DEF Deleted
<1> HIDE DEF index, ents, k
<1>7. Agree(Placed(index, e, k, Len(ents[k])),
            [ents EXCEPT ![k] = Append(@, e)],
            (archetypes \ Deleted(k)) \cup {k}, {})
  BY <1>2, <1>3, Entering
<1>8. Agreeing'
  BY <1>1, <1>4, <1>5, <1>6, <1>7 DEF Agreeing, index
<1>9. DOMAIN entity_index' = DOMAIN entity_index
  BY <1>1, <1>2 DEF Placed, index
<1> QED BY <1>1, <1>8, <1>9 DEF Right, IdsFresh

(* A destroyed registry has neither records nor slots.                     *)
LEMMA DestroyIsRight ==
  ASSUME Destroy
  PROVE  Right'
<1>1. << >> \in Seq(Entities) /\ Len(<< >>) = 0
  BY EmptySeq
<1>2. IsIndex(entity_index)' /\ DOMAIN entity_index' = {}
  BY DEF Destroy, IsIndex
<1>3. entities' \in [Keys -> Seq(Entities)] /\ \A k \in Keys : entities'[k] = << >>
  BY <1>1 DEF Destroy
<1>4. SlotsRight(entity_index, entities, archetypes, {})'
  BY <1>1, <1>3 DEF SlotsRight
<1> QED BY <1>2, <1>3, <1>4
        DEF Right, Agreeing, Agree, RecordsRight, IdsFresh, Destroy

(* A new registry has neither.                                             *)
LEMMA InitIsRight == Init => Right
<1> SUFFICES ASSUME Init PROVE Right
  OBVIOUS
<1>1. << >> \in Seq(Entities) /\ Len(<< >>) = 0
  BY EmptySeq
<1>2. IsIndex(entity_index) /\ DOMAIN entity_index = {}
  BY DEF Init, IsIndex
<1>3. entities \in [Keys -> Seq(Entities)] /\ \A k \in Keys : entities[k] = << >>
  BY <1>1 DEF Init
<1>4. SlotsRight(entity_index, entities, archetypes, {})
  BY <1>1, <1>3 DEF SlotsRight
<1> QED BY <1>2, <1>3, <1>4
        DEF Right, Agreeing, Agree, RecordsRight, IdsFresh, Init, Dispenser!Init

-------------------------------------------------------------------------------
(* The clients the theorems are about.                                     *)
KeepsRecords == Calls \cap {"remove_last", "remove_entity"} = {}

(* Every call of theirs keeps records and slots right.                     *)
LEMMA StepIsRight ==
  KeepsRecords /\ IInv /\ Right /\ [Next]_vars => Right'
<1> SUFFICES ASSUME KeepsRecords, IInv, Right, [Next]_vars PROVE Right'
  OBVIOUS
<1>1. CASE UNCHANGED vars
  BY <1>1, SameRight DEF vars, storeVars, idVars
<1>2. ASSUME NEW chunk \in Chunks, Create(chunk) PROVE Right'
  BY <1>2, CreateIsRight
<1>3. ASSUME NEW chunk \in Chunks, NEW vals \in Payloads,
             CreateWith(chunk, vals)
      PROVE  Right'
  BY <1>3, CreateWithIsRight
<1>4. ASSUME NEW chunk \in Chunks, NEW vals \in Payloads,
             NEW built \in SUBSET Components,
             CreateWithThrows(chunk, vals, built)
      PROVE  Right'
  BY <1>4, CreateWithThrowsIsRight
<1>5. ASSUME NEW c \in Components, Save(c) PROVE Right'
  BY <1>5, SameRight DEF Save, storeVars, idVars
<1>6. ASSUME NEW e \in DOMAIN entity_index, NEW c \in Components,
             NEW v \in Values,
             AddFirst(e, c, v) \/ AddNext(e, c, v) \/ AddAgain(e, c, v)
               \/ Write(e, c, v)
      PROVE  Right'
  <2>1. CASE AddFirst(e, c, v) \/ AddNext(e, c, v) \/ AddAgain(e, c, v)
    BY <2>1, AddFirstIsRight, AddNextIsRight, AddAgainIsRight
  <2>2. CASE Write(e, c, v)
    BY <2>2, SameRight DEF Write, idVars
  <2> QED BY <1>6, <2>1, <2>2
<1>7. ASSUME NEW e \in DOMAIN entity_index, NEW c \in Components,
             Remove(e, c) \/ RemoveLast(e, c) \/ RemoveAbsent(e, c)
               \/ UndefinedAdd(e, c) \/ UndefinedRemove(e, c)
      PROVE  Right'
  <2>1. CASE Remove(e, c)
    BY <2>1, RemoveIsRight
  <2>2. CASE RemoveLast(e, c)
    BY <2>2 DEF RemoveLast, Calling, KeepsRecords
  <2>3. CASE RemoveAbsent(e, c)
    BY <2>3, SameRight DEF RemoveAbsent, storeVars, idVars
  <2>4. CASE UndefinedAdd(e, c) \/ UndefinedRemove(e, c)
    BY <2>4, SameRight
       DEF UndefinedAdd, UndefinedRemove, BecomesUndefined, storeVars, idVars
  <2> QED BY <1>7, <2>1, <2>2, <2>3, <2>4
<1>8. ASSUME NEW e \in DOMAIN entity_index,
             RemoveEntity(e) \/ UseOfStaleRecord(e) \/ UseOfNullArchetype(e)
      PROVE  Right'
  <2>1. CASE RemoveEntity(e)
    BY <2>1 DEF RemoveEntity, Calling, KeepsRecords
  <2>2. CASE UseOfStaleRecord(e) \/ UseOfNullArchetype(e)
    BY <2>2, SameRight
       DEF UseOfStaleRecord, UseOfNullArchetype, BecomesUndefined, storeVars,
           idVars
  <2> QED BY <1>8, <2>1, <2>2
<1>9. ASSUME Destroy PROVE Right'
  BY <1>9, DestroyIsRight
<1>10. ASSUME DestroyTerminates PROVE Right'
  BY <1>10, SameRight DEF DestroyTerminates, storeVars, idVars
<1> QED BY <1>1, <1>2, <1>3, <1>4, <1>5, <1>6, <1>7, <1>8, <1>9, <1>10
        DEF Next, Step

(* So it is right in every state such a client reaches.                    *)
LEMMA RightInvariant ==
  ASSUME KeepsRecords
  PROVE  Spec => []Right
<1>1. Init => Right
  BY InitIsRight
<1>2. IInv /\ Right /\ [Next]_vars => Right'
  BY StepIsRight
<1> QED BY <1>1, <1>2, InductiveInvariant, PTL DEF Spec

(* For every client that leaves each entity a component (registry.hpp:242, *)
(* where the record of one that loses its last stays as it was) and does   *)
(* not remove entities, whose ids would be handed out again while their    *)
(* records stay in the index (registry.hpp:62), an entity's record names   *)
(* the slot it sits in.                                                    *)
THEOREM RecordsAreRight ==
  ASSUME KeepsRecords
  PROVE  Spec => []RecordsNameSlots
<1>1. IInv /\ Right => RecordsNameSlots
  BY AgreeingIsBoth DEF Right
<1> QED BY <1>1, RightInvariant, InductiveInvariant, PTL

(* For the same clients the record of the entity in any slot, which views  *)
(* and for_each walk along, names that slot: no entity is in two slots.    *)
THEOREM SlotsAreRight ==
  ASSUME KeepsRecords
  PROVE  Spec => []SlotsNameRecords
<1>1. IInv /\ Right => SlotsNameRecords
  BY AgreeingIsBoth DEF Right
<1> QED BY <1>1, RightInvariant, InductiveInvariant, PTL

(* No call of such a client reads a record that is stale or dangling: the  *)
(* only undefined calls are those for an entity without components, those  *)
(* that add a component twice and those that remove into an archetype      *)
(* without entities.                                                       *)
THEOREM NoStaleRecords ==
  ASSUME KeepsRecords
  PROVE  Spec => [][\A e \in DOMAIN entity_index : ~ UseOfStaleRecord(e)]_vars
<1>1. RecordsNameSlots /\ IInv =>
        \A e \in DOMAIN entity_index :
          ~ (\/ entity_index[e].entity_archetype = dangling
             \/ HasArchetype(e) /\ ~ HasSlot(e))
  BY PointerAssumption DEF RecordsNameSlots, IInv, HasSlot, HasArchetype
<1>2. IInv /\ RecordsNameSlots =>
        [\A e \in DOMAIN entity_index : ~ UseOfStaleRecord(e)]_vars
  BY <1>1 DEF UseOfStaleRecord
<1> QED BY <1>2, RecordsAreRight, InductiveInvariant, PTL

===============================================================================

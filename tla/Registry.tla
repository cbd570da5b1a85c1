------------------------------- MODULE Registry -------------------------------
(***************************************************************************)
(* The registry of the entity-component store (core/registry.hpp) with     *)
(* everything one of its calls changes: entity_index, component_map, the   *)
(* archetype_map and its archetypes, and the id dispenser.  The registry   *)
(* is single-threaded, so a call is one step.                              *)
(*                                                                         *)
(* An archetype* is represented by the key of the archetype it points to:  *)
(* the table owns one archetype per key and archetype::key is const.  When *)
(* an archetype is deleted the pointers to it become `dangling' (in C++    *)
(* their values become invalid).  A signature is the set of its component  *)
(* ids.  An archetype that is not in the table has no entities and no      *)
(* arrays.  Calls that throw before changing anything are stuttering       *)
(* steps and have no action: add or remove of an unknown entity, a second  *)
(* save of a component, access to a component the entity does not have.    *)
(***************************************************************************)
EXTENDS ByteArray, Vectors, FiniteSets

CONSTANTS
  Components,      \* ids of the component types of the program
  Chunks,          \* chunk ids in use, _null_chunk included
  Values,          \* payloads of components
  nullptr,         \* entity_archetype of an entity without components
  dangling,        \* an archetype* that outlived its archetype
  Calls,           \* the kinds of calls the client makes
  FreedReads,      \* what the key that delete_archetype has freed reads as
  MaxEntities,     \* bound: entity ids, and entities in an archetype
  MaxKeys,         \* bound: length of archetype_keys
  MaxFreed         \* bound: length of the dispenser's queue

MaxComponents == 64

AllCalls ==
  {"create", "create_with", "create_unregistered", "save", "add", "add_again",
   "write", "remove", "remove_last", "remove_absent", "remove_entity",
   "no_archetype", "destroy"}

ASSUME ComponentsAssumption == Components \subseteq 0 .. MaxComponents - 1
ASSUME CallsAssumption == Calls \subseteq AllCalls
ASSUME FreedKeyAssumption ==
  FreedReads \subseteq {"itself", "nothing", "another"} /\ FreedReads # {}
ASSUME BoundsAssumption ==
  /\ MaxEntities \in Nat
  /\ MaxKeys \in Nat
  /\ MaxFreed \in Nat
ASSUME RawAssumption == raw \notin Values

VARIABLES
  entity_index,    \* entity_t -> record_t, for the entities in the index
  component_map,   \* ids of the registered components
  archetypes,      \* the keys of archetype_hashtable_
  archetype_keys,  \* archetype_keys_, the vector that views walk along
  entities,        \* archetype::entities, by key
  byte_arrays,     \* archetype::byte_arrays, by key and component id
  recycled,        \* the id dispenser's queue
  id_count,        \* the id dispenser's counter
  status           \* whether the program still runs, and how it ended

storeVars == <<archetypes, archetype_keys, entities, byte_arrays>>
idVars == <<recycled, id_count>>
vars == <<entity_index, component_map, storeVars, idVars, status>>

Entities == 1 .. MaxEntities

Keys == [signature : (SUBSET Components) \ {{}}, chunk_id : Chunks]

ASSUME PointerAssumption ==
  /\ nullptr \notin Keys
  /\ dangling \notin Keys \cup {nullptr}

Records ==
  [entity_archetype : Keys \cup {nullptr, dangling},
   index            : Nat,
   chunk_id         : Chunks]

(* Ids above MaxEntities are not handed out, so the counter never wraps.   *)
Dispenser ==
  INSTANCE UniqueIdDispenser WITH IdModulus <- MaxEntities + 1, start <- 0

NoArrays == [c \in Components |-> NewArray]

TypeOK ==
  /\ DOMAIN entity_index \subseteq Entities
  /\ entity_index \in [DOMAIN entity_index -> Records]
  /\ component_map \subseteq Components
  /\ archetypes \subseteq Keys
  /\ archetype_keys \in Seq(Keys)
  /\ entities \in [Keys -> Seq(Entities)]
  /\ DOMAIN byte_arrays = Keys
  /\ \A k \in Keys :
       /\ DOMAIN byte_arrays[k] = Components
       /\ \A c \in Components : IsByteArray(byte_arrays[k][c], Values)
  /\ Dispenser!TypeOK
  /\ status \in {"running", "undefined", "destroyed", "terminated"}

Init ==
  /\ entity_index = [e \in {} |-> nullptr]
  /\ component_map = {}
  /\ archetypes = {}
  /\ archetype_keys = << >>
  /\ entities = [k \in Keys |-> << >>]
  /\ byte_arrays = [k \in Keys |-> NoArrays]
  /\ Dispenser!Init
  /\ status = "running"

-------------------------------------------------------------------------------
(* The parts calls are made of.                                            *)

Size(k) == Len(entities[k])

(* Slips in create_archetype: the key is listed without a check, or never. *)
ListedAlways(k) == Append(archetype_keys, k)
ListedNever(k) == archetype_keys

(* archetype_map::get enters a missing archetype into the table and the    *)
(* vector of keys.                                                         *)
Listed(k) ==
  IF k \in archetypes THEN archetype_keys ELSE Append(archetype_keys, k)

(* emplace leaves the record of an entity that is in the index alone.      *)
Emplaced(e, chunk) ==
  [f \in DOMAIN entity_index \cup {e} |->
     IF f \in DOMAIN entity_index
     THEN entity_index[f]
     ELSE [entity_archetype |-> nullptr, index |-> 0, chunk_id |-> chunk]]

(* The record of an entity that is appended to the entities of k.          *)
Placed(index, e, k, n) ==
  [index EXCEPT ![e] =
     [entity_archetype |-> k, index |-> n, chunk_id |-> @.chunk_id]]

(* Slip: pop_back without try_move_last_entity_to.                         *)
WithoutLast(s, x) == SubSeq(s, 1, Len(s) - 1)

(* try_move_last_entity_to followed by pop_back.                           *)
WithoutSlot(s, x) ==
  [i \in 1 .. Len(s) - 1 |-> IF i = x + 1 THEN s[Len(s)] ELSE s[i]]

(* Slips in try_move_last_entity_to: the moved entity keeps its index, or  *)
(* gets one too low.                                                       *)
VacatedSilently(k, x) ==
  [f \in DOMAIN entity_index |->
     IF Size(k) = 1 /\ entity_index[f].entity_archetype = k
     THEN [entity_index[f] EXCEPT !.entity_archetype = dangling]
     ELSE entity_index[f]]

VacatedTooLow(k, x) ==
  [f \in DOMAIN entity_index |->
     IF x + 1 # Size(k) /\ f = entities[k][Size(k)]
     THEN [entity_index[f] EXCEPT !.index = x - 1]
     ELSE entity_index[f]]

(* The index once slot x of k has been vacated: the entity that filled the *)
(* hole has moved, and if k is deleted the pointers to it are dangling.    *)
Vacated(k, x) ==
  [f \in DOMAIN entity_index |->
     CASE Size(k) = 1 /\ entity_index[f].entity_archetype = k ->
            [entity_index[f] EXCEPT !.entity_archetype = dangling]
       [] x + 1 # Size(k) /\ f = entities[k][Size(k)] ->
            [entity_index[f] EXCEPT !.index = x]
       [] OTHER -> entity_index[f]]

(* Slip: archetypes without entities are kept.                             *)
DeletedNever(k) == {}

(* When the last entity of k leaves, k is deleted.                         *)
Deleted(k) == IF Size(k) = 1 THEN {k} ELSE {}

(* The keys that the freed memory of k may be equal to.                    *)
ReadAs(k) ==
  {l \in Keys : IF l = k THEN "itself" \in FreedReads
                         ELSE "another" \in FreedReads}

(* delete_archetype(old->key) erases the archetype that owns the key it    *)
(* was passed, and then compares the listed keys with that key's freed     *)
(* memory.  If the bytes are intact the key goes; if they have changed no  *)
(* key is equal to them, or another one, which goes in its place.          *)
ErasedFrom(keys, k) ==
  {erase(keys, l) : l \in ReadAs(k)}
    \cup {same \in {keys} : "nothing" \in FreedReads}

KeysAfterLeaving(keys, k) ==
  IF Size(k) = 1 THEN ErasedFrom(keys, k) ELSE {keys}

(* The arrays of k after its last entity has left are freed.               *)
ArraysAfterLeaving(k, arrays) == IF Size(k) = 1 THEN NoArrays ELSE arrays

HasArchetype(e) ==
  /\ e \in DOMAIN entity_index
  /\ entity_index[e].entity_archetype \in Keys

(* The slot of e's record is one of its archetype's entities.              *)
HasSlot(e) ==
  /\ HasArchetype(e)
  /\ entity_index[e].index < Size(entity_index[e].entity_archetype)

WithComponent(k, c) == [k EXCEPT !.signature = @ \cup {c}]
WithoutComponent(k, c) == [k EXCEPT !.signature = @ \ {c}]

-------------------------------------------------------------------------------
(* Calls.                                                                  *)

Calling(call) == status = "running" /\ call \in Calls

Create(chunk) ==
  /\ Calling("create")
  /\ \E e \in Entities :
       /\ Dispenser!Get(e)
       /\ entity_index' = Emplaced(e, chunk)
  /\ UNCHANGED <<component_map, storeVars, status>>

(* create<Cs...>(chunk, cs...), vals being the function from Cs to cs.     *)
CreateWith(chunk, vals) ==
  LET k == [signature |-> DOMAIN vals, chunk_id |-> chunk]
  IN
  /\ Calling("create_with")
  /\ DOMAIN vals \subseteq component_map
  /\ \E e \in Entities :
       /\ Dispenser!Get(e)
       /\ entity_index' = Placed(Emplaced(e, chunk), e, k, Size(k))
       /\ entities' = [entities EXCEPT ![k] = Append(@, e)]
  /\ archetypes' = archetypes \cup {k}
  /\ archetype_keys' = Listed(k)
  /\ byte_arrays' = [byte_arrays EXCEPT ![k] =
       [c \in Components |->
          IF c \in DOMAIN vals THEN emplace_component(@[c], Size(k), vals[c])
                               ELSE @[c]]]
  /\ UNCHANGED <<component_map, status>>

(* component_map_->at throws for the first of the Cs that is not           *)
(* registered; the ones before it, built, have been constructed by then.   *)
CreateWithThrows(chunk, vals, built) ==
  LET k == [signature |-> DOMAIN vals, chunk_id |-> chunk]
  IN
  /\ Calling("create_unregistered")
  /\ ~ (DOMAIN vals \subseteq component_map)
  /\ built \subseteq DOMAIN vals \cap component_map
  /\ \E e \in Entities :
       /\ Dispenser!Get(e)
       /\ entity_index' = Emplaced(e, chunk)
  /\ archetypes' = archetypes \cup {k}
  /\ archetype_keys' = Listed(k)
  /\ byte_arrays' = [byte_arrays EXCEPT ![k] =
       [c \in Components |->
          IF c \in built THEN emplace_component(@[c], Size(k), vals[c])
                         ELSE @[c]]]
  /\ UNCHANGED <<component_map, entities, status>>

Save(c) ==
  /\ Calling("save")
  /\ c \notin component_map
  /\ component_map' = component_map \cup {c}
  /\ UNCHANGED <<entity_index, storeVars, idVars, status>>

(* add_impl for an entity that has no archetype yet.                       *)
AddFirst(e, c, v) ==
  LET k == [signature |-> {c}, chunk_id |-> entity_index[e].chunk_id]
  IN
  /\ Calling("add")
  /\ entity_index[e].entity_archetype = nullptr
  /\ component_map' = component_map \cup {c}
  /\ archetypes' = archetypes \cup {k}
  /\ archetype_keys' = Listed(k)
  /\ byte_arrays' = [byte_arrays EXCEPT ![k][c] =
                       emplace_component(@, Size(k), v)]
  /\ entity_index' = Placed(entity_index, e, k, Size(k))
  /\ entities' = [entities EXCEPT ![k] = Append(@, e)]
  /\ UNCHANGED <<idVars, status>>

(* add_impl for an entity that gets a component it did not have: its       *)
(* components move to the archetype that has c as well.                    *)
AddNext(e, c, v) ==
  LET old == entity_index[e].entity_archetype
      new == WithComponent(old, c)
      x   == entity_index[e].index
      n   == Size(old)
      m   == Size(new)
  IN
  /\ Calling("add")
  /\ HasSlot(e)
  /\ c \notin old.signature
  /\ component_map' = component_map \cup {c}
  /\ archetypes' = (archetypes \cup {new}) \ Deleted(old)
  /\ archetype_keys' \in KeysAfterLeaving(Listed(new), old)
  /\ byte_arrays' = [byte_arrays EXCEPT
       ![old] = ArraysAfterLeaving(old,
                  [d \in Components |->
                     IF d \in old.signature THEN move_out(@[d], x, n)
                                            ELSE @[d]]),
       ![new] = [d \in Components |->
                  CASE d = c -> emplace_component(@[d], m, v)
                    [] d \in old.signature ->
                         emplace_component(@[d], m, byte_arrays[old][d].data[x])
                    [] OTHER -> @[d]]]
  /\ entity_index' = Placed(Vacated(old, x), e, new, m)
  /\ entities' = [entities EXCEPT ![old] = WithoutSlot(@, x),
                                  ![new] = Append(@, e)]
  /\ UNCHANGED <<idVars, status>>

(* add_impl for an entity that has c already.  Source and destination are  *)
(* the same archetype: the components below c move to slot n without a     *)
(* check of the capacity, c is constructed in slot n, and its old value is *)
(* neither moved nor destroyed; the entity itself ends in slot n - 1.  The *)
(* arrays above c would be read at the wrong position, and an archetype    *)
(* with one entity is deleted under way: see UndefinedAdd.                 *)
AgainIsDefined(e, c) ==
  LET k == entity_index[e].entity_archetype
  IN
  /\ HasSlot(e)
  /\ Size(k) > 1
  /\ \A d \in k.signature : d <= c
  /\ \A d \in k.signature \ {c} : Size(k) < byte_arrays[k][d].size

AddAgain(e, c, v) ==
  LET k == entity_index[e].entity_archetype
      x == entity_index[e].index
      n == Size(k)
  IN
  /\ Calling("add_again")
  /\ HasArchetype(e)
  /\ c \in k.signature
  /\ AgainIsDefined(e, c)
  /\ component_map' = component_map \cup {c}
  /\ byte_arrays' = [byte_arrays EXCEPT ![k] =
       [d \in Components |->
          CASE d = c -> emplace_component(@[d], n, v)
            [] d \in k.signature \ {c} ->
                 move_out(construct(@[d], n, @[d].data[x]), x, n)
            [] OTHER -> @[d]]]
  /\ entity_index' = Placed(Vacated(k, x), e, k, n - 1)
  /\ entities' = [entities EXCEPT ![k] = Append(WithoutSlot(@, x), e)]
  /\ UNCHANGED <<archetypes, archetype_keys, idVars, status>>

(* An assignment through the reference get_entity_components<C> returns.   *)
Write(e, c, v) ==
  LET k == entity_index[e].entity_archetype
      x == entity_index[e].index
  IN
  /\ Calling("write")
  /\ HasSlot(e)
  /\ c \in k.signature
  /\ byte_arrays' = [byte_arrays EXCEPT ![k][c] = construct(@, x, v)]
  /\ UNCHANGED <<entity_index, component_map, archetypes, archetype_keys,
                 entities, idVars, status>>

(* The arrays of the archetype that remove<C> takes the entity out of.     *)
ArraysAfterRemove(k, c, x, n) ==
  ArraysAfterLeaving(k,
    [d \in Components |->
       CASE d = c -> erase_component(byte_arrays[k][d], x, n)
         [] d \in k.signature \ {c} -> move_out(byte_arrays[k][d], x, n)
         [] OTHER -> byte_arrays[k][d]])

(* remove_impl for an entity that has other components.  They are moved to *)
(* slot m - 1 of the other archetype, the slot of its last entity, while   *)
(* the entity itself gets slot m.  For m = 0 see UndefinedRemove.          *)
Remove(e, c) ==
  LET old == entity_index[e].entity_archetype
      new == WithoutComponent(old, c)
      x   == entity_index[e].index
      m   == Size(new)
  IN
  /\ Calling("remove")
  /\ HasSlot(e)
  /\ c \in old.signature
  /\ new.signature # {}
  /\ m > 0
  /\ component_map' = component_map \cup {c}
  /\ archetypes' = (archetypes \cup {new}) \ Deleted(old)
  /\ archetype_keys' \in KeysAfterLeaving(Listed(new), old)
  /\ byte_arrays' = [byte_arrays EXCEPT
       ![old] = ArraysAfterRemove(old, c, x, Size(old)),
       ![new] = [d \in Components |->
                  IF d \in new.signature
                  THEN construct(auto_allocate(@[d], m), m - 1,
                                 byte_arrays[old][d].data[x])
                  ELSE @[d]]]
  /\ entity_index' = Placed(Vacated(old, x), e, new, m)
  /\ entities' = [entities EXCEPT ![old] = WithoutSlot(@, x),
                                  ![new] = Append(@, e)]
  /\ UNCHANGED <<idVars, status>>

(* remove_impl for an entity's only component: there is no new archetype,  *)
(* and the entity's record is left as it was.                              *)
RemoveLast(e, c) ==
  LET old == entity_index[e].entity_archetype
      x   == entity_index[e].index
  IN
  /\ Calling("remove_last")
  /\ HasSlot(e)
  /\ old.signature = {c}
  /\ component_map' = component_map \cup {c}
  /\ archetypes' = archetypes \ Deleted(old)
  /\ archetype_keys' \in KeysAfterLeaving(archetype_keys, old)
  /\ byte_arrays' = [byte_arrays EXCEPT
       ![old] = ArraysAfterRemove(old, c, x, Size(old))]
  /\ entity_index' = Vacated(old, x)
  /\ entities' = [entities EXCEPT ![old] = WithoutSlot(@, x)]
  /\ UNCHANGED <<idVars, status>>

(* component_id_index.at throws, after save has registered the component.  *)
RemoveAbsent(e, c) ==
  /\ Calling("remove_absent")
  /\ HasArchetype(e)
  /\ c \notin entity_index[e].entity_archetype.signature
  /\ c \notin component_map
  /\ component_map' = component_map \cup {c}
  /\ UNCHANGED <<entity_index, storeVars, idVars, status>>

(* remove(entity): the id goes back to the dispenser; nothing else.        *)
RemoveEntity(e) ==
  /\ Calling("remove_entity")
  /\ e \in DOMAIN entity_index
  /\ Dispenser!Free(e)
  /\ UNCHANGED <<entity_index, component_map, storeVars, status>>

(* ~registry looks every component of every archetype up; an exception     *)
(* leaves the destructor and terminates the program.                       *)
Destroy ==
  /\ Calling("destroy")
  /\ \A k \in archetypes : k.signature \subseteq component_map
  /\ status' = "destroyed"
  /\ archetypes' = {}
  /\ archetype_keys' = << >>
  /\ entities' = [k \in Keys |-> << >>]
  /\ byte_arrays' = [k \in Keys |-> NoArrays]
  /\ entity_index' = [e \in {} |-> nullptr]
  /\ component_map' = {}
  /\ recycled' = << >> /\ id_count' = 0

DestroyTerminates ==
  /\ Calling("destroy")
  /\ \E k \in archetypes : ~ (k.signature \subseteq component_map)
  /\ status' = "terminated"
  /\ UNCHANGED <<entity_index, component_map, storeVars, idVars>>

-------------------------------------------------------------------------------
(* Calls whose behaviour C++ does not define; the model stops there.       *)

BecomesUndefined ==
  /\ status' = "undefined"
  /\ UNCHANGED <<entity_index, component_map, storeVars, idVars>>

(* A record with a dangling archetype, or with a slot that holds no entity *)
(* of its archetype, is read by add, remove or get_entity_components.      *)
UseOfStaleRecord(e) ==
  /\ status = "running"
  /\ Calls \cap {"add", "add_again", "remove", "remove_last", "write"} # {}
  /\ \/ entity_index[e].entity_archetype = dangling
     \/ HasArchetype(e) /\ ~ HasSlot(e)
  /\ BecomesUndefined

(* remove or get_entity_components for an entity without components        *)
(* dereferences nullptr.                                                   *)
UseOfNullArchetype(e) ==
  /\ Calling("no_archetype")
  /\ entity_index[e].entity_archetype = nullptr
  /\ BecomesUndefined

UndefinedAdd(e, c) ==
  /\ Calling("add_again")
  /\ HasSlot(e)
  /\ c \in entity_index[e].entity_archetype.signature
  /\ ~ AgainIsDefined(e, c)
  /\ BecomesUndefined

(* The components go to slot 0 - 1 of an array, before its first byte.     *)
UndefinedRemove(e, c) ==
  LET old == entity_index[e].entity_archetype
  IN
  /\ Calling("remove")
  /\ HasSlot(e)
  /\ c \in old.signature
  /\ old.signature # {c}
  /\ Size(WithoutComponent(old, c)) = 0
  /\ BecomesUndefined

-------------------------------------------------------------------------------
(* create<Cs...> with at least one component.                              *)
Payloads ==
  UNION {[Cs -> Values] : Cs \in (SUBSET Components) \ {{}}}

WithinBounds ==
  /\ \A k \in Keys : Size(k) <= MaxEntities
  /\ Len(archetype_keys) <= MaxKeys
  /\ Len(recycled) <= MaxFreed

Step ==
  \/ \E chunk \in Chunks : Create(chunk)
  \/ \E chunk \in Chunks, vals \in Payloads : CreateWith(chunk, vals)
  \/ \E chunk \in Chunks, vals \in Payloads, built \in SUBSET Components :
       CreateWithThrows(chunk, vals, built)
  \/ \E c \in Components : Save(c)
  \/ \E e \in DOMAIN entity_index, c \in Components, v \in Values :
       \/ AddFirst(e, c, v)
       \/ AddNext(e, c, v)
       \/ AddAgain(e, c, v)
       \/ Write(e, c, v)
  \/ \E e \in DOMAIN entity_index, c \in Components :
       \/ Remove(e, c)
       \/ RemoveLast(e, c)
       \/ RemoveAbsent(e, c)
       \/ UndefinedAdd(e, c)
       \/ UndefinedRemove(e, c)
  \/ \E e \in DOMAIN entity_index :
       \/ RemoveEntity(e)
       \/ UseOfStaleRecord(e)
       \/ UseOfNullArchetype(e)
  \/ Destroy
  \/ DestroyTerminates

Next == Step /\ WithinBounds'

Spec == Init /\ [][Next]_vars
-------------------------------------------------------------------------------
(* Properties.                                                             *)

(* Every record names the slot its entity sits in, in an archetype of the  *)
(* table whose chunk is the record's.  add, remove and                     *)
(* get_entity_components reach components through the record alone.        *)
RecordsNameSlots ==
  \A e \in DOMAIN entity_index :
    LET r == entity_index[e]
    IN  \/ r.entity_archetype = nullptr
        \/ /\ r.entity_archetype \in archetypes
           /\ r.index < Size(r.entity_archetype)
           /\ entities[r.entity_archetype][r.index + 1] = e
           /\ r.entity_archetype.chunk_id = r.chunk_id

(* Every slot of every archetype is named by the record of the entity in   *)
(* it, so no entity sits in two slots.  Views reach components this way.   *)
SlotsNameRecords ==
  \A k \in Keys : \A i \in 1 .. Size(k) :
    /\ k \in archetypes
    /\ entities[k][i] \in DOMAIN entity_index
    /\ entity_index[entities[k][i]].entity_archetype = k
    /\ entity_index[entities[k][i]].index = i - 1

(* Every array has room for all the entities of its archetype: resize and  *)
(* the moves stay within the block that was allocated.                     *)
CapacityCovers ==
  \A k \in Keys : \A c \in k.signature : Size(k) <= byte_arrays[k][c].size

(* Objects live in exactly the slots below the number of entities: no slot *)
(* of an entity is garbage, and nothing is left undestroyed in a slot that *)
(* the next construction overwrites or that is freed with the array.       *)
StorageExact ==
  \A k \in Keys : \A c \in Components :
    \A i \in 0 .. byte_arrays[k][c].size - 1 :
      byte_arrays[k][c].data[i] # raw <=> c \in k.signature /\ i < Size(k)

(* Views and for_each find every archetype of the table among the keys,    *)
(* unless a freed key reads as another.                                    *)
TableIsListed ==
  \A k \in archetypes : \E i \in DOMAIN archetype_keys : archetype_keys[i] = k

(* The keys list the table: no deleted archetype, none listed twice.       *)
KeysMirrorTable ==
  /\ \A i \in DOMAIN archetype_keys : archetype_keys[i] \in archetypes
  /\ \A i, j \in DOMAIN archetype_keys :
       archetype_keys[i] = archetype_keys[j] => i = j

(* An archetype is in the table only while it has entities: iterators of   *)
(* views dereference the first slot of an archetype unseen.                *)
NoEmptyArchetype == \A k \in archetypes : Size(k) > 0

(* The components a client finds through an entity's record.               *)
Stored(e) ==
  IF HasSlot(e)
  THEN LET r == entity_index[e]
       IN  [c \in r.entity_archetype.signature |->
              byte_arrays[r.entity_archetype][c].data[r.index]]
  ELSE [c \in {} |-> raw]

(* A call changes the components of at most one entity.                    *)
OthersUntouched ==
  [][status' = "running" =>
       \E e \in Entities : \A f \in DOMAIN entity_index \ {e} :
         Stored(f)' = Stored(f)]_vars

===============================================================================

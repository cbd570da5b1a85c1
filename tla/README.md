# Verification of antity

antity is a header-only entity-component store (C++20): an entity is an id, a
component is an object of any type, and entities with the same set of component
types in the same chunk are stored together in an *archetype*, one array per
component type. This directory holds TLA+ models of it, the TLC configurations
that check them and theorems about them, proved with TLAPS.

Paths are relative to `src/include/antity/` unless they begin with `src/`.

## The system

| Component | State | Operations |
|---|---|---|
| `registry` (core/registry.hpp) | `entity_index_` (id to record: archetype pointer, slot, chunk), `component_map_` (registered types) | `create`, `create<Cs...>`, `add`, `remove<C>`, `remove(entity)`, `save`, `get`, `get_entity_components`, `for_each`, destructor |
| `archetype_handler` | none (points at the registry's maps) | the moves of components between archetypes and within one |
| `archetype_allocator` | none | growth and shrinking of a `byte_array` |
| `archetype_map` | `archetype_hashtable_` (key to archetype), `archetype_keys_` (vector) | `get` (creates), `delete_archetype`, `signatures_begin/end` |
| `archetype` | key, `entities`, one `byte_array` per component | |
| `unique_id_dispenser` | `recycled_` (queue), `id_count_` | `get`, `free` |
| `archetype_map_view` (core/view.hpp) | an iterator: position in `archetype_keys_`, slot, end slot | `begin`, `end`, `++`, `*` |
| `archetype_view`, `multi_archetype_view`, `component_array` | iterators | pointer and index arithmetic |
| `type_id_generator`, signatures (core/identifier.hpp) | a static counter | id of a type, set operations on signatures |
| `robin_hood::Table` (utility/robin_hood.hpp) | nodes, info bytes, mask, unit and shift of the info bytes, multiplier | `emplace`, `operator[]`, `insert_or_assign`, `erase`, `clear`, `reserve`, `compact`, iteration, `==`, copies, moves, `swap` |
| `hasher`, `function_traits`, `registry_debugger` | | |

How they interact: every call on an entity goes through its *record*, which
names an archetype by pointer and a slot by number. Queries go the other way:
along `archetype_keys_` to the archetypes and along their `entities`. The two
views of the world are kept in agreement by hand in `add_impl`, `remove_impl`
and `try_move_last_entity_to`. An archetype exists while it has entities; when
the last one leaves, `delete_archetype` frees it.

The tables behind `entity_index_` and `component_map_` are robin-hood hash
tables from a header that the repository carries along.

What is hard here. The registry has no threads, no messages and nothing
persistent, so its hazards are those of a long sequence of legal calls: the
swap with the last slot (three structures to agree on), growth and shrinking of
arrays while objects move between them, pointers and keys that outlive their
archetype, exceptions halfway, recycled ids, a counter that wraps, and client
code that runs between the steps of a walk. Two parts differ: the generator of
type ids is static, so that threads with registries of their own meet in it,
and the hash table packs distances into bytes that overflow and are halved.
`PROJECT.json` lists each hazard with its line and the properties that watch it.

What makes each component correct:

- registry: a call does to its entity what its comment says and nothing to the
  others; records and slots name each other; a call that throws leaves a usable
  registry.
- allocator and handler: arrays are large enough before anything is written,
  objects live in exactly the slots of entities (none lost, none leaked).
- archetype map: the vector of keys lists the table, without repetition, and
  no archetype is without entities.
- dispenser: no id with two holders, none lost, none at or below `start`.
- views: a walk shows exactly the matching entities, each once, and ends; an
  iterator reads the entity it stands on, whatever became of its copies.
- type ids: a type has one id and two types have two, whoever asks when; a
  signature is the set of the types put into it.
- hash tables: they answer like maps through growth, overflow, copies and
  moves, and iteration meets every node once.

## Modules

| Module | Models | Built from |
|---|---|---|
| `ByteArray` | a `byte_array`, archetype_allocator.hpp, the per-array part of archetype_handler.hpp | |
| `Vectors` | the elements of a vector that are in a set, in their order; `std::erase` (external) | |
| `UniqueIdDispenser` | utility/unique_id_dispenser.hpp | |
| `IdClients` | the dispenser with clients that free what they hold | `UniqueIdDispenser` |
| `Registry` | registry.hpp with the archetype map and handler | `ByteArray`, `Vectors`, `UniqueIdDispenser` |
| `EntityComponents` | what the registry promises, without archetypes (abstract) | |
| `RegistryRefinement` | the map from `Registry` to `EntityComponents` | both |
| `Views` | walks: `get` and `for_each` | `RegistryRefinement` |
| `ArrayCalls` | what calls do to whole arrays (abstract) | `ByteArray` |
| `ArrayMoves` | archetype_allocator.hpp and archetype_handler.hpp object by object, with exceptions | `ByteArray`, `ArrayCalls` |
| `ViewIterators` | the iterators of core/view.hpp, their copies and arithmetic; `build_multiarchetype_view` | `Vectors` |
| `TypeIds` | core/identifier.hpp: the generator under threads, and signatures | `Vectors` |
| `RobinHood` | utility/robin_hood.hpp, `class Table`: each member function as an operator on tables | |
| `RobinHoodTables` | tables in use | `RobinHood`, `KeyedMaps` |
| `KeyedMaps` | what hash maps promise (abstract) | |
| `MCRegistry`, `MCIterators`, `MCTables` | instances for TLC | |
| `StorageProofs`, `MovesProofs`, `RegistryProofs`, `WorldProofs`, `RobinHoodProofs`, `IdClientsProofs`, `TypeIdsProofs`, `ViewIteratorsProofs` | theorems | |

Definitions named *slip* in a comment are plausible mistakes in the definition
after them. No specification uses them; `PROJECT.json` pairs each with the
property that notices it when it takes the definition's place.

### Registry

A call is one step: the library is single-threaded and takes no callback except
in walks, which `Views` splits into steps. The variables are the fields of the
classes:

| Variable | Code |
|---|---|
| `entity_index` | `registry::entity_index_` |
| `component_map` | `registry::component_map_` (its keys) |
| `archetypes` | the keys of `archetype_map::archetype_hashtable_` |
| `archetype_keys` | `archetype_map::archetype_keys_` |
| `entities[k]`, `byte_arrays[k][c]` | fields of the archetype with key `k` |
| `recycled`, `id_count` | the dispenser |
| `status` | running, destroyed, terminated by an exception, or left defined behaviour |

An `archetype*` is represented by the key of its archetype. That is faithful as
long as the archetype lives, since the table owns one archetype per key; when it
is deleted, `Vacated` turns the pointers to it into `dangling`. A signature is
the set of its component ids, a component is a payload in a slot, and a slot
without an object is `raw`. Sizes are in slots: all the sizes the code computes
are multiples of `sizeof(C)`.

Each action is a whole call. `AddNext`, for instance, is `add`, `add_impl`,
`get_next_archetype_add`, `move_old_comp_and_emplace_new`,
`try_move_last_entity_to`, `pop_back` and `delete_archetype`, in that order.
`add` has three actions because the code has three paths (no archetype; another
archetype; the same archetype, which the code does not distinguish from the
second but which does something else). The constant `Calls` says which kinds of
calls a client makes, so that a run can study one class of clients.

Where C++ does not define what the code does:

- `delete_archetype(old->key)` compares with a key it has freed. What the bytes
  read as is a choice (`ReadAs`) among the outcomes that `FreedReads` allows: the
  key itself, no key (then `std::erase` finds nothing), or another key (then it
  erases that one, which may be the key of an archetype that is in the table).
- a record with a dangling archetype or an impossible slot, a null archetype, a
  write before the first byte of an array: the model enters `undefined` and
  stops. Nothing is claimed about what follows.
- moving a destroyed object (`erase_component` followed by `auto_shrink`) yields
  garbage (`raw`). That is what happens for trivial types.

### Views

`cursor` is an iterator or the loop of `for_each`: the position in the vector of
keys, the slot, and how often each entity was shown to the body. One step per
shown entity; in between the body may do what `src/README.md:77` does not forbid:
write components, create bare entities, remove entities (which leaves their
components where they are), register components. `create<Cs...>` counts as
adding components; a walk inside the body of another is not modelled.
`Asked` is where a walk should look by the comment on `get` (all chunks if it is
given none), `Match` where it does. `FairViewsSpec`
assumes weak fairness of the loop itself: the body is code of the client on
the same thread and returns to the loop, and every pass of the loop
(`operator++`, `apply`) terminates. Calls outside of walks have no fairness.

### UniqueIdDispenser and IdClients

The counter has the width of its type (`IdModulus`). In `Registry` it does not
wrap, since ids are bounded; `IdClients` studies the wrap. `free` checks nothing;
its comment says "Free unused ID", and in `IdClients` a client frees an id only
while it holds it. In `Registry`, `remove(entity)` frees whatever it is given.

### ArrayMoves and ArrayCalls

`ByteArray` gives a call's effect on an array at once. `ArrayMoves` takes the
same calls apart: one step per allocation, move construction, destruction and
placement new, and in place of each step that runs client code or allocates, the
call may throw (`Throw`): also where `add` makes a new archetype, before it has
visited any array, and at the end of `add`, where `push_back` of the entity
throws after the old archetype has given it up (`ThrowPushingBack`). `phase` is where in the code the call is: which statement comes
next for the array it is at (`array`, and `e` for the loop over its slots), with
`next` for the loop over arrays in `move_old_comp_and_emplace_new` and
`move_comp_to_and_omit`, and `idle` between calls. `pending` has the arrays the
call has not come to; an archetype's are taken in the order of their ids. The
block under construction in `resize` (`newData`) is `blocks[fresh]`. Slots are
`raw`, hold an object, or hold the `husk` of one that was moved from. The
library catches nothing, so a throw ends the call with the arrays as they are
(`thrown`); the model follows the client up to the first one, because no record
can be trusted after it. `owned`, `used`, `dead` and `saved` are history. The calls
are `add` (both paths), removal of an only component and the destructor; the
calls whose effect is disputed (`MCRemove`, `add_again`) are in `Registry` only.

### ViewIterators

Where `Views` has one iterator and a changing registry, `ViewIterators` has
several over archetypes that stay. The iterator of `registry::get` keeps the
view of its archetype inside itself, and its `archetype_view_iterator` points
there: `owner` says into which object, and a copy keeps the owner of the
original. `steps` is a history variable. An iterator of a multi view points into
the vector of the view. `includes` is `std::ranges::includes` (external): it
goes through both ranges once, so that it finds ids only in the order in which
they are wanted; the ids of an archetype rise.

### TypeIds

A thread inside `get<T>()` is `entering` (at the guard of the function-local
static), `loading` or `storing` (the two halves of `value++`), or `leaving`.
Only the guard synchronises. `before`, `overlapped`, `held` and `returned` are
history. A signature is the set of its bits, and `get_type_signature` has the
outcomes that a shift by the width or more can have: the id modulo the width, or
no bit at all. Weak fairness of `Proceed(t)` says that a thread inside
`get<T>()` keeps being scheduled; a thread that waits for the guard is not
enabled. Calls themselves have no fairness.

### RobinHood, RobinHoodTables and KeyedMaps

A table is the record of its members; the operators carry the names of the
member functions and return the table that the function leaves, together with
whether it threw. The hash functor is a constant: any function from multiplier
and key to a mixed product, so that keys collide as an instance likes. Nodes are
kept in place (`IsFlat`); nodes on the heap only change what a move costs. The
constants of the code are constants of the module and are made smaller in the
runs: 8 buckets to start with become 4, 256 attempts become 6 or 4, and an info
byte of 255 with a unit of 32 becomes one of 7 with a unit of 4, or of 5 or 4
with a unit of 2. The proportions are not those of the code: a byte of 255 tells
seven distances of a unit of 32, the small bytes one or two, and the unit is
halved once or not at all instead of four times. So bytes overflow, are halved
and run out within two to four keys. A byte that is narrowed is taken modulo `MaxInfo + 1`.

`answers` is what `contains` and `at` say, and `KeyedMaps` is that as a map: the
calls may change it only as a map would, and only a call that throws may lose
entries.

A search along the slots is the least index at which its loop stops (`First`);
the loops that change the table they go through (the nodes of a rehash, the
rounds of an insertion, the turns of an erasing walk) are recursive functions on
their counters. `TableAssumption` has what the code's constants satisfy:
the initial size is a number of at least 3, the unit of the info bytes a power
of two that a byte can hold nearly twice, the load between 11 and 99 percent,
and the key of empty storage is not a key. `ClientAssumption` says that a hash
functor is defined for every multiplier and key.

## Runs

| Run | Bounds | Shows |
|---|---|---|
| `MCBuild` | 2 types, 1 chunk, 2 values, 3 entities | `NoEmptyArchetype`, `StorageExact`, `ImplementsWorld` for clients that do not remove |
| `MCShuffle` | 2 types, 2 chunks, 1 value, 3 entities | `TypeOK`, `RecordsNameSlots`, `SlotsNameRecords`, `KeysMirrorTable` for clients that also remove and add again, and whose `create<Cs...>` may throw midway |
| `MCViews` | 2 types, 2 chunks, 2 entities, freed keys read as themselves or as none, fairness | `CapacityCovers`, `TableIsListed`, `ShowsMatching`, `ShowsOnce`, `WalksAreDefined`, `WalksEnd` for clients that make nearly every call between walks and in their bodies what a body may do |
| `MCIds` | 7 ids, start 1 | `OneHolderEach`, `UpToStartUnused`, `HeldOrWaiting` |
| `MCMoves` | 2 types, 5 objects | `ObjectsAreConserved`, `OnlyRemoveTouchesDead`, `ImplementsArrayCalls` step by step and through the first exception |
| `MCIterators` | up to 2 archetypes of 1 or 2 entities, 3 iterator objects | `StepsCountEntities`, `TakesMatching`, `OwnersReadTrue`, `PostfixReadsOld`, `IndicesAgree` |
| `MCTypeIds` | 2 threads, 3 types, 2 bits | `OneIdPerType`, `LaterIdsAreHigher`, `SignaturesMirrorTypes`, `IdListsAreSorted`, `CallsReturn` |
| `MCTable` | 4 colliding keys, 3 sizes, bytes of 3 bits | `KeysAreFound`, `InfoTellsDistance`, `WalkSeesEveryNode`, `ErasingWalkSeesAll` |
| `MCTwoTables` | 2 keys, 2 values, 2 tables, 2 sizes, 2 multipliers, 4 attempts | `EqualityIgnoresOrder`, `ImplementsMaps` |

Bounds: `MaxEntities` caps ids and the entities of an archetype, `MaxKeys` the
vector of keys, `MaxFreed` the queue, `LastFresh` and `MaxQueue` the clients of
the dispenser. They are conjuncts of the next-state relation. Three entities are
enough for a slot to be vacated in front of, at and behind the slot of another
entity, and for an array to grow twice (0, 1, 3 slots); two types are enough for
archetypes that include one another, for a component that moves and one that
does not; two chunks for archetypes that differ in the chunk alone; two values to
tell the components of two entities apart where payloads matter. Values are only
moved and compared, chunk ids only compared, hence the symmetries that `MCShuffle`
and `MCRemove` use: their properties name no value and no chunk. `MCViews`, which
checks liveness, uses none, and two entities have to do there: enough for an
archetype with two, for two archetypes with one, for a stale key before, between
and behind them, and for a record that names the slot of another entity. That
walks of more entities are right is proved. Deadlock is not
checked where the bound on ids, destruction or an exception rightly ends a
behaviour; in `MCIds` and `MCTypeIds` it is.

Two archetypes suffice for an iterator to cross from one to the next, three
objects for an original, its copy and a copy of the copy. Two threads can be in
`value++` at once while a third type comes before or after them, and with two
bits the third id is beyond the width. In `MCMoves` five objects are the fewest
with which an array grows and moves an object to its new block while, in the
other archetype, the last entity fills the hole of another. In `MCTable` all
keys may share a bucket, so that the third displaces a node to the last distance
a byte can tell, the unit is halved until it cannot be, and the table grows to
its bound. There `MaxBuckets` cuts off the insertions that would grow it
further, so that only `reserve` and `compact` can throw in that run; in
`MCTwoTables` no call reaches the bound. There one key's byte leaves no room
behind it: its table grows, takes the other multiplier, and its insertions throw
when all attempts are used up, if it finds no room there either; a `rehash` that
moves that key first throws and loses the other. `Edited` limits there which of
the tables is changed other than by copies, moves, `swap` and `clear`.

Runs that end in a violation, each a disagreement between code and its comments
or tests (quoted in `PROJECT.json` under findings):

| Run | Violates | Because |
|---|---|---|
| `MCRemove` | `OthersUntouched` | `size() - 1` instead of `size()`: another entity's components are overwritten (core/archetype_handler.hpp:202) |
| `MCAllChunks` | `ShowsAsked` | `match` compares chunk ids also for the null chunk, the default of `get` and `for_each`: a walk without a chunk shows the entities of one chunk (core/archetype.hpp:35, against the comment at core/registry.hpp:96); only `multi_archetype_view` takes those of all (core/view.hpp:348) |
| `MCStaleViewsOnce` | `ShowsNoneTwice` | `delete_archetype` compares with a freed key (core/archetype_map.hpp:96); the key stays and is listed twice later |

The passing runs stop where the code stops keeping a promise. What lies beyond
is in the model, and is seen by adding a kind of call to a run:

| Add | to | and TLC refutes | Because |
|---|---|---|---|
| `"add_again"` | `MCBuild` | `StorageExact`, `ImplementsWorld` | `add` of a component the entity has mixes up two entities |
| `"remove"` | `MCBuild` | `StorageExact`, `ImplementsWorld` | as in `MCRemove` |
| `"remove_last"` | `MCShuffle` | `RecordsNameSlots` | the record survives the last component (core/registry.hpp:242) |
| `"remove_entity"` | `MCBuild` (`MaxFreed = 1`) | `ImplementsWorld` | `remove(entity)` frees the id and leaves the components; the code calls it not implemented (core/registry.hpp:59) |
| `"create_unregistered"` | `MCBuild` | `NoEmptyArchetype`, `StorageExact` | `create<Cs...>` throws after the archetype was entered; the destructor then throws too and the program terminates (`DestroyTerminates`) |
| `FreedReads = {"itself", "nothing"}` | `MCShuffle` | `KeysMirrorTable` | as in `MCStaleViewsOnce` |
| `"another"` in `FreedReads` | `MCViews` | `TableIsListed`; the other invariants still hold | `std::erase` drops the key of an archetype that is in the table: walks no longer come to it |
| `LastFresh = 7` | `MCIds` | `UpToStartUnused`, `OneHolderEach` | the counter wraps and returns ids that are held |

Some disagreements show in the definitions themselves and no run is spent on
them.
`operator--` moves an index up, as `operator++` does, under a tag that says
random access (`ViewIterators!decremented`; core/view.hpp:15 and :36).
`needs_shrinking` also shrinks arrays that are exactly full, so that
`erase_component` moves the object it has just destroyed
(`ByteArray!needs_shrinking`; core/archetype_allocator.hpp:77): hence the
exception that `OnlyRemoveTouchesDead` makes. Two types whose ids are generated
at once may share an id (`TypeIds!Load`; core/identifier.hpp:21), although
src/test/src/utility/type_id_generator.cpp:11 expects ids of types to differ:
hence `overlapped` in `LaterIdsAreHigher`, and the premise of
`SignaturesMirrorTypes`.

## Proofs

Proved for all values of the constants that satisfy the named assumptions of the
modules. Where a theorem is about a class of clients, the class is a condition
on the constant `Calls`, and the runs and the tables above show that it is no
narrower than the code makes it:

| Condition | Calls a client does not make | Why |
|---|---|---|
| `KeepsRecords` | `remove_last`, `remove_entity` | a record survives the last component; components survive the entity |
| `KeepsStorage` | `create_unregistered`, `add_again`, `remove` | an archetype without objects is left; an object is overwritten; objects land in the wrong slot |
| `KeepsWorld` | `add_again`, `remove`, `remove_last`, `remove_entity` | each does something else than its comment says |

### The registry

The modules build on one another: `StorageProofs` on `Vectors` and `ByteArray`,
then `RegistryProofs` and `WorldProofs`.

- `RegistryProofs!InductiveInvariant`, and from it `TypeCorrectness` (`TypeOK`),
  `CapacityIsEnough` (`CapacityCovers`) and `ViewsMissNoArchetype`
  (`TableIsListed`, under `NeverMistaken`: no freed key reads as another one,
  without which TLC refutes it). The invariant `IInv` is their conjunction, the
  third under that condition (lemma `IInvIsConjunction`), rearranged into parts
  that a call changes together. The three need one another: a slot taken from a record is within its
  array only because arrays cover the entities, the payload that is moved out of
  it is of the right type only for that reason, and after a deletion the vector
  still lists the rest of the table only because it did before, whether or not
  the freed key is found. There is one lemma per call (named
  `...Preserves`), on top of lemmas about the operations on one array, about
  `std::erase` (both in `StorageProofs`) and about the parts of a call. They hold for
  every client, also for those that remove last components, add twice and use
  stale records, until behaviour is undefined.
- `StorageProofs!SelectedProperties` and `EraseProperties`: which elements a
  selection and `erase` keep, how often, and in which order. A vector is
  processed by a recursive function on its prefixes; the induction is carried
  out with a set of natural numbers, since theorems with operator parameters are
  not at hand.
- `RegistryProofs`, archetypes: `KeysStayMirrors` (`KeysMirrorTable`, assuming that the
  freed key reads as it was) and `ArchetypesHaveEntities` (`NoEmptyArchetype`,
  assuming that no `create<Cs...>` throws), for every client; `MapStep` reduces
  the calls to five ways of changing the map, and `IInv` supplies the types.
  `StorageStaysExact` (`StorageExact`, under `KeepsStorage`): `Exact` says of one
  array that objects are in the slots below a number and nowhere else; each
  operation of the allocator and the handler takes an exact array to an exact
  one of the number of entities after it, and a move between archetypes does so
  for both, whichever slot the record names.
- `RegistryProofs`, records: `RecordsAreRight` (`RecordsNameSlots`), `SlotsAreRight`
  (`SlotsNameRecords`) and `NoStaleRecords` (no call reads a stale or dangling
  record), under `KeepsRecords`. A move takes an entity out of one archetype and
  puts it into another, and halfway it is in no slot: `Agree` says that records
  and slots agree but for entities in transit, `Leaving` and `Entering` prove
  the two halves once for every call. The invariant adds that ids are fresh
  (`IdsFresh`), without which `emplace` could find the record of an earlier
  entity.
- `WorldProofs!RegistryImplementsWorld` (`ImplementsWorld`, under `KeepsWorld`):
  every call maps to the step of `EntityComponents` that its comment promises, or
  to a stutter. The mapping follows the record of each entity to its slot, so that a
  step is right only if the records of *all* entities still lead to the objects
  they led to: those of the entity that moves, of the one that is moved into
  the hole it leaves, and of the others, whose arrays may have been resized. The
  proof of each call computes what is found through every record afterwards,
  from `Right` (records and slots name each other) and the invariants above.
  `OthersAreUntouched` (`OthersUntouched`) follows: a call changes the components
  of at most one entity.
- `WorldProofs`, walks: `WalksAreTyped` (`ViewsTypeOK`) for every client;
  `WalksShowMatching` (`ShowsMatching`) and `WalksShowOnce` (`ShowsOnce`) under
  `KeepsRecords`; `WalksStayDefined` (`WalksAreDefined`) for clients whose
  creates do not throw; all of them whatever freed keys read as, though
  `ShowsMatching` only speaks of walks that end while no archetype is missing from
  the keys, and of the one chunk the walk was given. Its other premise, that
  records name slots, always holds for clients under `KeepsRecords`
  (`RecordsAreRight`); `MCViews` also has clients that break it. Neither the
  walk nor its body moves an entity or takes a key away (`WalkInv`), so that what
  a walk has shown is determined by where it is (`ShowInv`): the entities of
  matching archetypes at positions passed and of the slots passed in the present
  one. `for_each` may enter an archetype anew under a stale key and finds no
  entity there; `WalksStayDefined` needs that such an archetype is not listed
  exactly once (`EmptyNotOnce`), so that the vector does not mirror the table.

### The calls, object by object

`MovesProofs` is about any set of components, any number of objects and arrays
of any size: `MovesTypes` (`MovesTypeOK`), `ObjectsStayConserved`
(`ObjectsAreConserved`), `OnlyRemoveTouches` (`OnlyRemoveTouchesDead`), and the
refinement `MovesImplementCalls` (`ImplementsArrayCalls`).

None of the three invariants is inductive. That a step overwrites no object and
destroys none that a client still has depends on what the slots it writes to
hold, hence on every step the call has made. `MovesInv` therefore says of each
phase what the arrays are, in terms of what they were when the call began:

- `AllExact`: at that time objects were in just the slots of entities;
- `Ahead`, `Behind`: an array that is pending is as it was then, one that is done
  is what the operation of `ByteArray` makes of it (`emplace_component`,
  `move_out`, `erase_component`);
- `Resizing`, `Moving`: the array the call is at is part of the way there. During
  a resize, the old block is without its first `e` objects (`Emptied`), and the
  new one is `resize` as if there were `e` entities; while the last object moves
  into the hole, the array is `Hollow`, what `erase_component` or the move left of
  it, with one or two slots written to.

Per action there is a lemma (`...Keeps`), which shows that the part of the phase
before it becomes that of the phase after it; `MoveKeeps` and `DestroyKeeps`
reduce conservation to whether the slot moved from holds an object, the slot
moved to holds none, and the slot destroyed holds none that is owned. At the
end of a call every array is `Behind`, so that counting the entities anew makes
the arrays exact again (`RecountedExact`), and the step is the call of
`ArrayCalls` (`EndOfAddFirst`, `EndOfAddNext`, `EndOfRemove`, `EndOfClean`); every
other step is a stutter or the throw. With 4 objects `MovesInv` holds of all
106,523 states. The assumptions are that component ids are numbers and that
`raw` and `husk` are not objects.

### The hash tables

`RobinHoodProofs` is about any keys and values, hash functors (one that sends all
keys to one bucket included), sizes, loads and widths of the info bytes, and any
number of tables. A table is `Sound` when

- `IsTable`: its members have their types, the unit of the info bytes and the
  shift of the hash multiply to the initial unit, and the bound on elements is 0
  or that of the size;
- `BytesTell`: the byte of a slot is 0 if the slot is empty, and otherwise tells
  how far its node is from its bucket (`Byte`); `SentinelStands` behind the slots;
- `RunsRise`: from slot to slot a distance rises by at most one, unless a run
  begins;
- `KeysDiffer`, `CountIsRight`;
- `BytesHaveRoom`: unless the bound is 0, every byte can rise by a unit.

`TablesInv` says this of every table, and that `answers` is what they contain. It
is inductive (`TablesStaySound`); none of the invariants of the runs is. That a
lookup finds a key depends on the runs in front of it (`RunsCover`: between its
bucket and a node no byte is lower than the node's would be, hence `FindIs`), and
runs stay as they are only because an insertion enters at the first slot
with a lower byte and pushes up what follows (`PlaceKeeps`), a removal pulls
it down as far as the next node that is at home (`RemovedKeeps`), and halving
keeps the order of bytes (`IncreaseKeeps`). That a probe ends
before the end of the bytes (`RoomAhead`) is counting: a run is no longer than
the bytes or the number of nodes allow, and there are that many slots behind
the last bucket. This is what the unchecked loops of the code rely on.
A rehash is followed node by node: what has arrived and what is still to come
are disjoint and make up the old contents, until an insertion throws. The
rounds of an insertion and the turns of an erasing walk are inductions
of the same kind.

From `TablesInv` follow all invariants of the runs: `KeysStayFound`
(`KeysAreFound`), `TablesKeepTypes` (`TablesTypeOK`), `BytesTellDistance`
(`InfoTellsDistance`), `WalksSeeEveryNode` (`WalkSeesEveryNode`),
`ErasingWalksSeeAll` (`ErasingWalkSeesAll`) and `EqualityStaysRight`
(`EqualityIgnoresOrder`). `TablesImplementMaps` is the refinement
(`ImplementsMaps`): every call is the call on a map that its name promises, and one that
throws removes at most entries.

### The other components

- `IdClientsProofs`: under `NoWrap` (no fresh id is asked for once the counter
  has reached the last value of its type) `IdInv` is an inductive invariant
  (`IdsInvariant`): an id beyond `start` that the counter has reached is either
  with one holder or once in the queue. Hence `IdsAreUnique` (`OneHolderEach`),
  `StartIsExcluded` (`UpToStartUnused`) and `NoIdIsLost` (`HeldOrWaiting`).
  `OneHolderEach` alone is not inductive: that the id at the front of the queue
  has no holder, and is not in the queue again, must be known as well.
- `TypeIdsProofs`: `IdsInvariant`, and from it `IdsAreTyped` (`TypeIdsTypeOK`),
  `TypesHaveOneId` (`OneIdPerType`), `CounterStaysAhead` (`LaterIdsAreHigher`)
  and `SignaturesAreSets` (`SignaturesMirrorTypes`), for any number of threads,
  types and bits. The invariant adds what a race in `value++` cannot undo: the
  counter, and whatever a thread has loaded from it and not stored, is above the
  id of every type that was generated alone (`CounterAhead`), because two
  threads between load and store have put both their types among `overlapped`
  (`StoringTogether`). `IdListsStaySorted` (`IdListsAreSorted`) says of the list
  of ids an archetype takes from any signature what `std::ranges::includes` and
  `component_id_index` need.
- `ViewIteratorsProofs`: `IteratorsInvariant` (every iterator carries the view
  of the archetype it stands on), and from it `OwnersAreTrue`
  (`OwnersReadTrue`), `PostfixIsRight` (`PostfixReadsOld`) and
  `ArithmeticIsConsistent` (`IndicesAgree`), for any archetypes and objects.
  `CountInv` adds how many entities an iterator has behind it, with which
  `IteratorsAreTyped` (`IteratorsTypeOK`) and `EntitiesAreCounted`
  (`StepsCountEntities`) follow: an increment crosses to the next archetype
  exactly when the entities of the present one are used up, since no archetype
  is empty (`IteratorsAssumption`; the theorem `ArchetypesHaveEntities` is the
  reason). `MultiViewsTakeMatching` (`TakesMatching`): a rising list of wanted
  ids is met in the rising list of an archetype exactly if it is a subset.

### Only model-checked

- Liveness under fairness, which is beyond the prover: `WalksEnd`, `CallsReturn`.
- That a step which should be possible is possible (`ENABLED`), as in the runs
  that check for deadlock.

## Not modelled

- What records name after a component's constructor has thrown: `ArrayMoves`
  stops at the first exception.
- Walks inside the body of another walk, and several walks at once over a
  registry that changes (`ViewIterators` has several over one that does not).
- Alignment and the sizes of types: a slot is a slot.
- `component_array` and its iterator: pointer arithmetic that nothing in the
  library uses (`operator[]` is the slot access of every model); `rbegin` and
  `rend` of `archetype_view`.
- `hasher`: products modulo 2^64 are beyond the checker's integers, and what a
  table answers does not depend on them.
- Of robin_hood.hpp: the pool of nodes on the heap, hash functions, `pair`,
  wrappers and intrinsics.
- `begin` of a multi view without archetypes, undefined in C++ and without an
  outcome to model.
- `registry_debugger` (nothing reads its names), `function_traits` (types only),
  tests, benchmarks and build files.

`PROJECT.json` gives the status of each component.

## Plan

1. Throwing constructors in `Registry`: records after an exception in `add`.
2. The node pool of the hash table (`BulkPoolAllocator`) as a free list against
   a set of free nodes.

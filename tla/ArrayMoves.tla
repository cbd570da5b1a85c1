------------------------------ MODULE ArrayMoves ------------------------------
(***************************************************************************)
(* The calls of the registry as what they do to single objects: each       *)
(* allocation, move construction and destruction of archetype_allocator    *)
(* and archetype_handler is a step, and constructors and allocations may   *)
(* throw, those of a new archetype and of its entities included.  Nothing  *)
(* in the code catches an exception, so that a throw ends the call; the    *)
(* model follows the client to the first one.                              *)
(*                                                                         *)
(* A call visits one array after the other.  `phase' says what it does     *)
(* next to the array it is at:                                             *)
(*                                                                         *)
(*   next -> [erase ->] allocate -> refill -> leave -> ... -> install      *)
(*        -> construct, or move -> moved, -> fill -> filled -> next        *)
(*   next -> clean -> ... -> free -> next                                  *)
(*                                                                         *)
(* An added component constructs, its neighbours move, and a call leaves   *)
(* out what the conditions of the code leave out.                          *)
(***************************************************************************)
EXTENDS ByteArray, FiniteSets

CONSTANTS
  Components,
  Objects,       \* the components that are constructed, each once: a bound
  husk           \* a slot whose object was moved from and not yet destroyed

ASSUME SlotAssumption == husk # raw /\ {husk, raw} \cap Objects = {}
ASSUME ComponentIdsAssumption == Components \subseteq Nat

VARIABLES
  counts,   \* archetype::entities.size(), by signature
  blocks,   \* the memory of each array, and of the one being resized
  call,     \* the call under way, or the last: its name and arguments
  pending,  \* the arrays it has not come to
  phase,    \* what it does next: "idle" between calls, "thrown" for good
  array,    \* the array it is at
  e,        \* the index of the loop over its slots
  owned,    \* history: objects constructed and not yet meant to be destroyed
  used,     \* history: objects constructed
  dead,     \* history: calls that moved or destroyed an object that was none
  saved     \* history: the blocks when the call began

memory == <<blocks, owned, used, dead>>
control == <<call, pending, array, saved>>
vars == <<counts, memory, control, phase, e>>

Archetypes == (SUBSET Components) \ {{}}
Arrays == {a \in Archetypes \X Components : a[2] \in a[1]}
fresh == <<{}, 0>>   \* newData
ArraysOf(k) == {a \in Arrays : a[1] = k}

NoBlocks == [a \in Arrays \cup {fresh} |-> NewArray]

Init ==
  /\ counts = [k \in Archetypes |-> 0]
  /\ blocks = NoBlocks
  /\ call = [name |-> "none", from |-> {}, to |-> {}, id |-> 0, index |-> 0]
  /\ pending = {} /\ phase = "idle" /\ array = fresh /\ e = 0
  /\ owned = {} /\ used = {} /\ dead = {}
  /\ saved = NoBlocks

(***************************************************************************)
(* Calls: the entity in slot index of `from' goes to `to', and component   *)
(* id comes or goes.  The empty signature stands for no archetype.         *)
(***************************************************************************)
Called(name, from, to, id, index, visits) ==
  /\ phase = "idle" /\ phase' = "next"
  /\ call' = [name |-> name, from |-> from, to |-> to, id |-> id, index |-> index]
  /\ pending' = visits
  /\ array' = fresh /\ e' = 0
  /\ saved' = blocks
  /\ UNCHANGED <<counts, memory>>

(* add_impl for an entity without an archetype.                            *)
AddFirst(c) ==
  used # Objects /\ Called("add", {}, {c}, c, 0, ArraysOf({c}))

(* add_impl for the entity in slot x of k, which has no c.                 *)
AddNext(k, c, x) ==
  used # Objects /\ Called("add", k, k \cup {c}, c, x, ArraysOf(k \cup {c}))

(* remove_impl for the entity in slot x that has c alone.                  *)
RemoveOnly(c, x) == Called("remove", {c}, {}, c, x, ArraysOf({c}))

(* ~registry.                                                              *)
Clean ==
  /\ \E k \in Archetypes : counts[k] > 0
  /\ Called("clean", {}, {}, 0, 0, {a \in Arrays : counts[a[1]] > 0})

(***************************************************************************)
(* What steps do to objects.  Moving from a slot without an object yields  *)
(* garbage, as in ByteArray.                                               *)
(***************************************************************************)
At(a, i) == blocks[a].data[i]

Blamed(wrong) == IF wrong THEN dead \cup {call.name} ELSE dead

MoveData(a, i, b, j) ==
  /\ LET left  == IF At(a, i) = raw THEN raw ELSE husk
         moved == [blocks EXCEPT ![a] = construct(@, i, left)]
     IN  blocks' = [moved EXCEPT ![b] = construct(@, j, At(a, i))]
  /\ dead' = Blamed(At(a, i) \notin Objects)
  /\ UNCHANGED <<counts, owned, used, control>>

DestroyData(a, i) ==
  /\ blocks' = [blocks EXCEPT ![a] = destroy_data(@, i)]
  /\ dead' = Blamed(At(a, i) = raw)
  /\ UNCHANGED <<counts, used, control>>

(***************************************************************************)
(* Where a call stands.                                                    *)
(***************************************************************************)
Entities(a) == counts[a[1]]
Source == <<call.from, array[2]>>
Last == Entities(Source) - 1

(* Slip: a growing array is only doubled.                                  *)
NewSizeDoubled(a) == IF call.name = "add" THEN 2 * blocks[a].size ELSE Entities(a)

NewSize(a) == IF call.name = "add" THEN 2 * blocks[a].size + 1 ELSE Entities(a)

(* emplace_component or move_component, once there is space.               *)
Placing(a) == IF a[2] = call.id THEN "construct" ELSE "move"

AutoAllocate(a) == IF needs_space(blocks[a], Entities(a)) THEN "allocate"
                                                      ELSE Placing(a)

(* Slip: the last slot is filled with itself.                              *)
FillingAlways == "fill"

Filling == IF Last # call.index THEN "fill" ELSE "next"

AutoShrink(a) == IF needs_shrinking(blocks[a], Entities(a)) THEN "allocate"
                                                        ELSE Filling

Cleaning(i) == IF i < Entities(array) THEN "clean" ELSE "free"

(* Slip: the object in the last slot stays behind.                         *)
RefillingShort(i) == IF i < Entities(array) - 1 THEN "refill" ELSE "install"

Refilling(i) == IF i < Entities(array) THEN "refill" ELSE "install"

(***************************************************************************)
(* Single steps of the call under way.                                     *)
(***************************************************************************)

(* An archetype's arrays are taken in the order of their ids, and one      *)
(* archetype after the other.                                              *)
InTurn(a) == \A b \in pending : /\ b[1] = a[1] => a[2] <= b[2]
                                /\ b[1] = array[1] => a[1] = array[1]

TakeArray(a) ==
  /\ phase = "next"
  /\ a \in pending /\ InTurn(a)
  /\ pending' = pending \ {a}
  /\ array' = a /\ e' = 0
  /\ phase' = CASE call.name = "add" -> AutoAllocate(a)
                [] call.name = "remove" -> "erase"
                [] call.name = "clean" -> "clean"
  /\ UNCHANGED <<counts, memory, call, saved>>

(* The destruction that ends the life of a removed component.              *)
EraseComponent ==
  /\ phase = "erase" /\ phase' = AutoShrink(array)
  /\ DestroyData(array, call.index)
  /\ owned' = owned \ {At(array, call.index)}
  /\ UNCHANGED e

AllocateBlock ==
  /\ phase = "allocate" /\ phase' = Refilling(0)
  /\ blocks' = [blocks EXCEPT ![fresh] =
        [size |-> NewSize(array), data |-> [i \in 0 .. NewSize(array) - 1 |-> raw]]]
  /\ e' = 0
  /\ UNCHANGED <<counts, owned, used, dead, control>>

RefillBlock ==
  /\ phase = "refill" /\ phase' = "leave"
  /\ MoveData(array, e, fresh, e)
  /\ UNCHANGED e

LeaveBlock ==
  /\ phase = "leave" /\ phase' = Refilling(e + 1)
  /\ DestroyData(array, e)
  /\ e' = e + 1
  /\ UNCHANGED owned

(* Slip: the size stays that of the old block.                             *)
InstallWithoutSize ==
  /\ phase = "install"
  /\ phase' = IF call.name = "add" THEN Placing(array) ELSE Filling
  /\ blocks' = [blocks EXCEPT ![array].data = blocks[fresh].data,
                              ![fresh] = NewArray]
  /\ UNCHANGED <<counts, owned, used, dead, control, e>>

(* delete[] of the old block, whose place the new one takes.               *)
InstallBlock ==
  /\ phase = "install"
  /\ phase' = IF call.name = "add" THEN Placing(array) ELSE Filling
  /\ blocks' = [blocks EXCEPT ![array] = blocks[fresh], ![fresh] = NewArray]
  /\ UNCHANGED <<counts, owned, used, dead, control, e>>

(* Placement new of a component the client passes.                         *)
ConstructData ==
  /\ phase = "construct" /\ phase' = "next"
  /\ \E object \in Objects \ used :
       /\ blocks' = [blocks EXCEPT ![array] = construct(@, Entities(array), object)]
       /\ owned' = owned \cup {object}
       /\ used' = used \cup {object}
  /\ UNCHANGED <<counts, dead, control, e>>

(* move_component between archetypes.                                      *)
MoveComponent ==
  /\ phase = "move" /\ phase' = "moved"
  /\ MoveData(Source, call.index, array, Entities(array))
  /\ UNCHANGED e

LeaveSlot ==
  /\ phase = "moved" /\ phase' = Filling
  /\ DestroyData(Source, call.index)
  /\ UNCHANGED <<owned, e>>

(* move_last_component.                                                    *)
FillSlot ==
  /\ phase = "fill" /\ phase' = "filled"
  /\ MoveData(Source, Last, Source, call.index)
  /\ UNCHANGED e

LeaveLast ==
  /\ phase = "filled" /\ phase' = "next"
  /\ DestroyData(Source, Last)
  /\ UNCHANGED <<owned, e>>

(* clean_archetype_component_arrays.                                       *)
CleanSlot ==
  /\ phase = "clean" /\ phase' = Cleaning(e + 1)
  /\ DestroyData(array, e)
  /\ owned' = owned \ {At(array, e)}
  /\ e' = e + 1

FreeArray ==
  /\ phase = "free" /\ phase' = "next"
  /\ blocks' = [blocks EXCEPT ![array] = NewArray]
  /\ UNCHANGED <<counts, owned, used, dead, control, e>>

(* push_back and pop_back of the entities; archetypes left without any are *)
(* deleted with their arrays.                                              *)
Recounted(k) == CASE call.name = "clean" -> 0
                  [] k = call.to -> counts[k] + 1
                  [] k = call.from -> counts[k] - 1
                  [] OTHER -> counts[k]

DeleteEmpty ==
  blocks' = [a \in Arrays \cup {fresh} |->
               IF a # fresh /\ Recounted(a[1]) = 0 THEN NewArray ELSE blocks[a]]

RecountEntities ==
  /\ phase = "next" /\ pending = {} /\ phase' = "idle"
  /\ counts' = [k \in Archetypes |-> Recounted(k)]
  /\ DeleteEmpty
  /\ UNCHANGED <<owned, used, dead, control, e>>

(* An exception: a new block is not freed, and nothing is put back.  add   *)
(* makes an archetype that is not there before it visits any array.        *)
Throw ==
  /\ \/ phase \in {"allocate", "refill", "construct", "move", "fill"}
     \/ phase = "next" /\ array = fresh /\ call.name = "add" /\ counts[call.to] = 0
  /\ phase' = "thrown"
  /\ UNCHANGED <<counts, memory, control, e>>

(* push_back of the entity throws: its objects are in slots that no entity *)
(* has, and it is gone from the archetype it was in.                       *)
ThrowPushingBack ==
  /\ phase = "next" /\ pending = {} /\ call.name = "add" /\ phase' = "thrown"
  /\ counts' = [k \in Archetypes |-> IF k = call.to THEN counts[k] ELSE Recounted(k)]
  /\ DeleteEmpty
  /\ UNCHANGED <<owned, used, dead, control, e>>

Next ==
  \/ \E c \in Components : AddFirst(c)
  \/ \E k \in Archetypes : \E c \in Components \ k, x \in 0 .. counts[k] - 1 :
       AddNext(k, c, x)
  \/ \E c \in Components : \E x \in 0 .. counts[{c}] - 1 : RemoveOnly(c, x)
  \/ Clean
  \/ \E a \in Arrays : TakeArray(a)
  \/ EraseComponent
  \/ AllocateBlock \/ RefillBlock \/ LeaveBlock \/ InstallBlock
  \/ ConstructData \/ MoveComponent \/ LeaveSlot \/ FillSlot \/ LeaveLast
  \/ CleanSlot \/ FreeArray
  \/ RecountEntities
  \/ Throw \/ ThrowPushingBack

Spec == Init /\ [][Next]_vars

(***************************************************************************)
(* Properties.                                                             *)
(***************************************************************************)
MovesTypeOK ==
  /\ counts \in [Archetypes -> Nat]
  /\ DOMAIN blocks = Arrays \cup {fresh}
  /\ \A a \in Arrays \cup {fresh} : IsByteArray(blocks[a], Objects \cup {husk})
  /\ owned \subseteq used /\ used \subseteq Objects

(* Through every step, and whatever throws, each component that a client   *)
(* has constructed and not taken away is in exactly one slot of one block: *)
(* none is overwritten, freed with its block, or moved twice.  After an    *)
(* exception the slot may be one that no record names.                     *)
ObjectsAreConserved ==
  LET Slots(a) == DOMAIN blocks[a].data
  IN /\ \A object \in owned : \E a \in Arrays \cup {fresh} :
          \E i \in Slots(a) : At(a, i) = object
     /\ \A a, b \in Arrays \cup {fresh} : \A i \in Slots(a), j \in Slots(b) :
          At(a, i) \in Objects =>
            /\ At(a, i) \in owned
            /\ At(a, i) = At(b, j) => a = b /\ i = j

(* No call but remove moves or destroys an object that is not there.       *)
(* remove does: erase_component destroys a component and then, if it       *)
(* shrinks the array, moves and destroys it once more with the others.     *)
OnlyRemoveTouchesDead == dead \subseteq {"remove"}

(* The arrays as the last call left them, or found them if none ended.     *)
ArraysBetweenCalls ==
  LET now == IF phase = "idle" THEN blocks ELSE saved
  IN [k \in Archetypes |-> [c \in Components |->
        IF c \in k THEN now[<<k, c>>] ELSE NewArray]]

ByCall == INSTANCE ArrayCalls WITH arrays <- ArraysBetweenCalls,
                                   thrown <- phase = "thrown"

(* Call by call, and up to the first exception, the steps come to what     *)
(* ByteArray says of whole arrays.                                         *)
ImplementsArrayCalls == ByCall!Spec

===============================================================================

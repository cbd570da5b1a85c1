-------------------------------- MODULE Views --------------------------------
(***************************************************************************)
(* Walks over the entities that have given components: the iterators of    *)
(* registry::get (archetype_map_view) and registry::for_each, one step per *)
(* visited entity.  Both walk along archetype_keys and, within a matching  *)
(* archetype, along its entities.  While a walk is under way the client    *)
(* neither adds nor removes components (README.md:77); it may write the    *)
(* ones it is shown, create bare entities, remove entities and register    *)
(* components.                                                             *)
(***************************************************************************)
EXTENDS RegistryRefinement

CONSTANT null_chunk   \* _null_chunk, the default chunk of get and for_each

ASSUME NullChunkAssumption == null_chunk \in Chunks

VARIABLE cursor   \* the walk under way

viewVars == <<vars, cursor>>

Idle == [walk |-> "idle"]

Walks ==
  [walk     : {"view", "for_each"},
   include  : (SUBSET Components) \ {{}},
   chunk_id : Chunks,
   pos      : Nat,      \* position in archetype_keys
   last     : Nat,      \* the last position when the walk began
   slot     : Nat,      \* position in the archetype's entities
   shown    : [Entities -> 0 .. 2]]   \* how often; 2 stands for any more

ViewsTypeOK == TypeOK /\ cursor \in Walks \cup {Idle}

ViewsInit == Init /\ cursor = Idle

Walking == cursor # Idle
Finished == Walking /\ cursor.pos > cursor.last

-------------------------------------------------------------------------------

(* Slip: archetypes of every chunk match.                                  *)
MatchAnyChunk(key, include, chunk) == include \subseteq key.signature

(* archetype_key::match                                                    *)
Match(key, include, chunk) ==
  key.chunk_id = chunk /\ include \subseteq key.signature

(* The first matching position from p on, or the one after the last.       *)
NextMatch(p, last, include, chunk) ==
  LET found == {q \in p .. last : Match(archetype_keys[q], include, chunk)}
  IN  IF found = {} THEN last + 1
      ELSE CHOOSE q \in found : \A r \in found : q <= r

(* Slip: the walk begins before the first slot.                            *)
BeginEarly(walk, include, chunk) ==
  /\ status = "running"
  /\ ~ Walking
  /\ cursor' = [walk |-> walk, include |-> include, chunk_id |-> chunk,
                pos |-> NextMatch(1, Len(archetype_keys), include, chunk),
                last |-> Len(archetype_keys), slot |-> -1,
                shown |-> [e \in Entities |-> 0]]
  /\ UNCHANGED vars

Begin(walk, include, chunk) ==
  /\ status = "running"
  /\ ~ Walking
  /\ cursor' = [walk |-> walk, include |-> include, chunk_id |-> chunk,
                pos |-> NextMatch(1, Len(archetype_keys), include, chunk),
                last |-> Len(archetype_keys), slot |-> 0,
                shown |-> [e \in Entities |-> 0]]
  /\ UNCHANGED vars

Key == archetype_keys[cursor.pos]

AtKey == status = "running" /\ Walking /\ ~ Finished

(* Slip: the search for the next archetype begins with the present one.    *)
NextPosAgain ==
  NextMatch(cursor.pos, cursor.last, cursor.include, cursor.chunk_id)

NextPos ==
  NextMatch(cursor.pos + 1, cursor.last, cursor.include, cursor.chunk_id)

(* The body runs for the entity in the slot; then the iterator advances,   *)
(* in a view until it equals the end that the archetype had on entry.      *)
Visit ==
  /\ AtKey
  /\ Key \in archetypes
  /\ cursor.slot < Size(Key)
  /\ LET more == cursor.slot + 1 < Size(Key)
     IN  cursor' = [cursor EXCEPT
           !.shown[entities[Key][cursor.slot + 1]] = IF @ < 2 THEN @ + 1 ELSE 2,
           !.slot = IF more THEN @ + 1 ELSE 0,
           !.pos  = IF more THEN @ ELSE NextPos]
  /\ UNCHANGED vars

(* for_each tests the number of entities before the first one.             *)
SkipEmpty ==
  /\ AtKey
  /\ cursor.walk = "for_each"
  /\ Key \in archetypes
  /\ Size(Key) = 0
  /\ cursor' = [cursor EXCEPT !.pos = NextPos]
  /\ UNCHANGED vars

(* archetype_map::get enters the archetype of a stale key anew, appending  *)
(* to the vector the walk is on.  If the vector has capacity left the loop *)
(* of for_each goes on.                                                    *)
RecreateStale ==
  /\ AtKey
  /\ cursor.walk = "for_each"
  /\ Key \notin archetypes
  /\ archetypes' = archetypes \cup {Key}
  /\ archetype_keys' = Listed(Key)
  /\ cursor' = [cursor EXCEPT !.pos = NextPos]
  /\ UNCHANGED <<entity_index, component_map, entities, byte_arrays, idVars,
                 status>>

(* Otherwise the key that get was passed by reference is gone before get   *)
(* uses it again.  A view that meets a stale key, or an archetype without  *)
(* entities, also goes on to dereference slot 0 of no entities.            *)
WalkUndefined ==
  /\ AtKey
  /\ \/ Key \notin archetypes
     \/ cursor.walk = "view" /\ Size(Key) = 0
  /\ BecomesUndefined
  /\ UNCHANGED cursor

End ==
  /\ status = "running"
  /\ Finished
  /\ cursor' = Idle
  /\ UNCHANGED vars

WalkStep == Visit \/ SkipEmpty \/ RecreateStale \/ WalkUndefined \/ End

(* What the client may do in the body of a walk.                           *)
BodyStep ==
  \/ \E chunk \in Chunks : Create(chunk)
  \/ \E e \in DOMAIN entity_index : RemoveEntity(e)
  \/ \E c \in Components : Save(c)
  \/ \E e \in DOMAIN entity_index, c \in Components, v \in Values :
       Write(e, c, v)

ViewsNext ==
  /\ \/ ~ Walking /\ Step /\ UNCHANGED cursor
     \/ Walking /\ BodyStep /\ UNCHANGED cursor
     \/ \E walk \in {"view", "for_each"}, chunk \in Chunks,
           include \in (SUBSET Components) \ {{}} : Begin(walk, include, chunk)
     \/ WalkStep
  /\ WithinBounds'

ViewsSpec == ViewsInit /\ [][ViewsNext]_viewVars

(* The loop of a walk keeps running: the body is the client's own code on  *)
(* the same thread, and each pass of the loop ends.                        *)
FairViewsSpec == ViewsSpec /\ WF_viewVars(WalkStep /\ WithinBounds')

-------------------------------------------------------------------------------
(* Properties.                                                             *)

Shown == {e \in Entities : cursor.shown[e] > 0}

(* The chunks that the comment on registry::get promises to look in: all   *)
(* of them if none is named.                                               *)
Asked(chunk) == IF chunk = null_chunk THEN Chunks ELSE {chunk}

(* A walk that has ended was shown exactly the entities with the           *)
(* components it asked for in the chunks it asked for.                     *)
ShowsAsked ==
  Finished => Shown = World!Matching(cursor.include, Asked(cursor.chunk_id))

(* As long as no archetype is missing from the keys and every record names  *)
(* the slot of its entity, a walk that has ended was shown exactly the      *)
(* entities of the chunk it was given that have the components it asked     *)
(* for.  For the null chunk that is less than ShowsAsked, as only entities  *)
(* whose own chunk is the null chunk match.                                 *)
ShowsMatching ==
  Finished /\ TableIsListed /\ RecordsNameSlots
    => Shown = World!Matching(cursor.include, {cursor.chunk_id})

(* No entity is shown to the body of a walk twice.                         *)
ShowsNoneTwice == Walking => \A e \in Entities : cursor.shown[e] <= 1

(* No entity is shown twice as long as the keys list the table: each        *)
(* archetype is met once, and none is entered anew under the walk.         *)
ShowsOnce == KeysMirrorTable => ShowsNoneTwice

(* Nor does such a walk leave defined behaviour.                           *)
WalksAreDefined == Walking /\ KeysMirrorTable => status # "undefined"

(* Every walk that begins comes to its end, unless a stale key makes its    *)
(* behaviour undefined.                                                    *)
WalksEnd == Walking ~> ~ Walking \/ status = "undefined"

===============================================================================

---------------------------- MODULE ViewIterators ----------------------------
(***************************************************************************)
(* view.hpp: the iterators themselves.  An archetype_view_iterator is an   *)
(* index and the view it points into; a walk over many archetypes holds    *)
(* one and moves to the next archetype at its end.  The iterator of        *)
(* registry::get keeps the view of the present archetype inside itself, so *)
(* that a copy points into the original; the iterator of a multi view      *)
(* points into the vector of the view.  The archetypes stay as they are.   *)
(***************************************************************************)
EXTENDS Vectors

CONSTANTS
  MaxComponents,  \* bits of a signature: 64 in the code
  Components, Chunks, NullChunk,
  Worlds,    \* sequences of archetypes, in the order a walk meets them
  Requests,  \* lists of component ids that callers ask for
  Objects    \* iterator objects

ASSUME IteratorsAssumption ==
  /\ MaxComponents \in Nat
  /\ Components \subseteq 0 .. MaxComponents - 1
  /\ NullChunk \in Chunks
  /\ Requests \subseteq Seq(Nat)
  /\ \A world \in Worlds :
       world \in Seq([ids : SUBSET Components, chunk : Chunks,
                      entities : Nat \ {0}])

VARIABLES
  archs,  \* the archetypes: component ids, chunk and number of entities
  walk,   \* which of the two walks, what it asks for, and its archetypes
  its     \* the iterator objects

vars == <<archs, walk, its>>

gone == [pos |-> 0, view |-> 0, index |-> 0, owner |-> 0, steps |-> 0]

(***************************************************************************)
(* archetype_view_iterator: arithmetic on indices.                         *)
(***************************************************************************)
(* Slip: the difference the other way round.                               *)
DifferenceTurned(a, b) == a - b

incremented(index) == index + 1
decremented(index) == index + 1
plus(index, n) == index - n
minus(index, n) == plus(index, -n)
difference(a, b) == b - a
less(a, b) == a > b

view_begin == 0
view_end(p) == archs[p].entities

(***************************************************************************)
(* The archetypes a walk visits, as positions in archs.                    *)
(***************************************************************************)
(* The component_ids of an archetype: those of its signature, lowest first. *)
SortedIds(ids) == Selected([i \in 1 .. MaxComponents |-> i - 1], ids)

(* std::ranges::includes goes along both ranges once: it finds the wanted   *)
(* ids if it meets them in the order in which they are wanted.  (It expects *)
(* both ranges sorted and gives up at an id it has passed; in a range that  *)
(* rises, such an id is not met any more.)                                  *)
includes(range, wanted) ==
  \E at \in [DOMAIN wanted -> DOMAIN range] :
    /\ \A i \in DOMAIN wanted : range[at[i]] = wanted[i]
    /\ \A i, j \in DOMAIN wanted : i < j => at[i] < at[j]

Wanted(ids) == {ids[i] : i \in DOMAIN ids}

(* Slip: the null chunk is a chunk like the others.                        *)
TakenFromNull(arch, ids, chunk) ==
  includes(SortedIds(arch.ids), ids) /\ arch.chunk = chunk

(* The tests of build_multiarchetype_view.                                 *)
Taken(arch, ids, chunk) ==
  /\ includes(SortedIds(arch.ids), ids)
  /\ arch.chunk = chunk \/ chunk = NullChunk

(* archetype_key::match, for the iterator of registry::get.                *)
Match(arch, ids, chunk) ==
  Wanted(ids) \subseteq arch.ids /\ arch.chunk = chunk

Path(kind, ids, chunk) ==
  LET Test(p) == IF kind = "multi" THEN Taken(archs[p], ids, chunk)
                                   ELSE Match(archs[p], ids, chunk)
  IN Selected([p \in DOMAIN archs |-> p], {p \in DOMAIN archs : Test(p)})

(***************************************************************************)
(* Iterators over a path.                                                  *)
(***************************************************************************)
(* The iterator of object n on entering the archetype at pos: its own view *)
(* and a fresh archetype_view_iterator into it.                            *)
Entered(n, pos, steps) ==
  [pos |-> pos, view |-> walk.path[pos], index |-> view_begin,
   owner |-> n, steps |-> steps]

Past(it) == it.pos > Len(walk.path)

(* Slips of the increment: the index is kept; the last entity is skipped;   *)
(* the next archetype is walked with the view of the last one.             *)
AdvanceKeepingIndex(n, it) ==
  LET step == [it EXCEPT !.index = incremented(@), !.steps = @ + 1] IN
  IF step.index # view_end(walk.path[it.pos]) THEN step
  ELSE IF it.pos = Len(walk.path) THEN [step EXCEPT !.pos = @ + 1]
  ELSE [Entered(n, it.pos + 1, step.steps) EXCEPT !.index = step.index]

AdvanceSkippingLast(n, it) ==
  LET step == [it EXCEPT !.index = incremented(@), !.steps = @ + 1] IN
  IF step.index < view_end(walk.path[it.pos]) - 1 THEN step
  ELSE IF it.pos = Len(walk.path) THEN [step EXCEPT !.pos = @ + 1]
  ELSE Entered(n, it.pos + 1, step.steps)

AdvanceInOldView(n, it) ==
  LET step == [it EXCEPT !.index = incremented(@), !.steps = @ + 1] IN
  IF step.index # view_end(walk.path[it.pos]) THEN step
  ELSE IF it.pos = Len(walk.path) THEN [step EXCEPT !.pos = @ + 1]
  ELSE [Entered(n, it.pos + 1, step.steps) EXCEPT !.view = it.view]

(* operator++ of both walks; the iterator keeps its last archetype when it *)
(* comes to the end.                                                       *)
Advance(n, it) ==
  LET step == [it EXCEPT !.index = incremented(@), !.steps = @ + 1] IN
  IF step.index # view_end(walk.path[it.pos]) THEN step
  ELSE IF it.pos = Len(walk.path) THEN [step EXCEPT !.pos = @ + 1]
  ELSE Entered(n, it.pos + 1, step.steps)

Init ==
  /\ archs \in Worlds
  /\ \E kind \in {"get", "multi"}, ids \in Requests, chunk \in Chunks :
       walk = [kind |-> kind, ids |-> ids, chunk |-> chunk,
               path |-> Path(kind, ids, chunk)]
  /\ its = [n \in Objects |-> gone]

Alive(n) == its[n] # gone

(* begin() of a multi view without archetypes reads the first of none, so  *)
(* it is not called.                                                       *)
Begin(n) ==
  /\ walk.path # << >>
  /\ its' = [its EXCEPT ![n] = Entered(n, 1, 0)]
  /\ UNCHANGED <<archs, walk>>

Increment(n) ==
  /\ Alive(n) /\ ~Past(its[n])
  /\ its' = [its EXCEPT ![n] = Advance(n, @)]
  /\ UNCHANGED <<archs, walk>>

(* The copy keeps the pointer into the original.                           *)
Copy(n, m) ==
  /\ Alive(n) /\ n # m
  /\ its' = [its EXCEPT ![m] = its[n]]
  /\ UNCHANGED <<archs, walk>>

(* Slip: the iterator is copied after it has moved.                        *)
PostIncrementLate(n, m) ==
  /\ Alive(n) /\ ~Past(its[n]) /\ ~Alive(m)
  /\ LET it == Advance(n, its[n]) IN its' = [its EXCEPT ![n] = it, ![m] = it]
  /\ UNCHANGED <<archs, walk>>

(* m is the temporary that postfix ++ returns.  The one of the multi view  *)
(* does not compile.                                                       *)
PostIncrement(n, m) ==
  /\ walk.kind = "get"
  /\ Alive(n) /\ ~Past(its[n]) /\ ~Alive(m)
  /\ its' = [its EXCEPT ![n] = Advance(n, @), ![m] = its[n]]
  /\ UNCHANGED <<archs, walk>>

Destroy(n) ==
  /\ Alive(n)
  /\ its' = [its EXCEPT ![n] = gone]
  /\ UNCHANGED <<archs, walk>>

Next ==
  \E n \in Objects :
    \/ Begin(n) \/ Increment(n) \/ Destroy(n)
    \/ \E m \in Objects : Copy(n, m) \/ PostIncrement(n, m)

Spec == Init /\ [][Next]_vars

(***************************************************************************)
(* Properties.                                                             *)
(***************************************************************************)
(* What operator* reads: a slot of the archetype whose view the iterator   *)
(* points into, 0 when that view is gone.                                  *)
Reads(n) ==
  [arch |-> IF walk.kind = "multi" THEN its[n].view ELSE its[its[n].owner].view,
   slot |-> its[n].index]

(* Where the increments since begin() have brought the iterator.           *)
Stands(n) == [arch |-> walk.path[its[n].pos], slot |-> its[n].index]

Dereferenceable(n) == Alive(n) /\ ~Past(its[n])

IteratorsTypeOK ==
  \A n \in Objects : Alive(n) =>
    /\ its[n].pos \in 1 .. Len(walk.path) + 1
    /\ its[n].view \in DOMAIN archs
    /\ its[n].index \in 0 .. view_end(its[n].view)
    /\ its[n].owner \in Objects

(* The entities of the archetypes that a walk meets before each position.   *)
EntitiesBefore ==
  LET before[p \in 1 .. Len(walk.path) + 1] ==
        IF p = 1 THEN 0 ELSE before[p - 1] + view_end(walk.path[p - 1])
  IN  before

(* A walk stands on every entity of its archetypes once, in order, before   *)
(* it is past the end: after k increments it stands on the entity that has  *)
(* k others before it, and a walk that is past the end has passed them all. *)
StepsCountEntities ==
  \A n \in Objects : Alive(n) =>
    its[n].steps = IF Past(its[n]) THEN EntitiesBefore[its[n].pos]
                   ELSE EntitiesBefore[its[n].pos] + its[n].index

(* build_multiarchetype_view takes no archetype that lacks a component or   *)
(* is of another chunk, and misses none when the caller's list is in the    *)
(* order the archetypes keep theirs; the null chunk stands for every chunk. *)
TakesMatching ==
  walk.kind = "multi" =>
    LET matching == {p \in DOMAIN archs :
                       /\ Wanted(walk.ids) \subseteq archs[p].ids
                       /\ walk.chunk \in {archs[p].chunk, NullChunk}}
        taken == {walk.path[p] : p \in DOMAIN walk.path}
        rises == \A i, j \in DOMAIN walk.ids : i < j => walk.ids[i] < walk.ids[j]
    IN /\ taken \subseteq matching
       /\ rises => taken = matching

(* Whatever becomes of its copies, an iterator that entered its archetype   *)
(* itself reads the entity it stands on, and so does every iterator of a    *)
(* multi view, copied or not.                                               *)
OwnersReadTrue ==
  \A n \in Objects :
    Dereferenceable(n) /\ (its[n].owner = n \/ walk.kind = "multi")
      => Reads(n) = Stands(n)

(* A postfix increment that stays in the archetype hands back an iterator   *)
(* that reads what the old one read, as long as the object whose view it    *)
(* reads exists.  One that crosses to the next archetype does not: the copy *)
(* points into the view the original replaced.                              *)
PostfixReadsOld ==
  [][\A n, m \in Objects :
       PostIncrement(n, m) /\ Alive(its[n].owner) /\ its'[n].pos = its[n].pos
         => Reads(m)' = Reads(n)]_vars

(* The arithmetic of archetype_view_iterator is that of a random access     *)
(* iterator over the slots in falling order: going by a difference arrives, *)
(* minus undoes plus, and the order agrees with the sign of the difference. *)
ArithmeticAgrees(a, b, n) ==
  /\ plus(a, difference(b, a)) = b
  /\ minus(plus(a, n), n) = a
  /\ less(a, b) <=> difference(b, a) > 0
  /\ difference(plus(a, n), a) = n

IndicesAgree ==
  \A n, m \in Objects : Alive(n) /\ Alive(m) =>
    ArithmeticAgrees(its[n].index, its[m].index, its[m].steps)

===============================================================================

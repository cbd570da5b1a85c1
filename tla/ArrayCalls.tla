------------------------------ MODULE ArrayCalls ------------------------------
(***************************************************************************)
(* What calls of the registry do to the arrays of components, one step per *)
(* call and one archetype per signature: the specification that ArrayMoves *)
(* implements object by object.  After an exception nothing is promised,   *)
(* and the entities may be counted or not.                                 *)
(***************************************************************************)
EXTENDS ByteArray

CONSTANTS
  Components,   \* ids of the component types
  Objects       \* the components there may be

VARIABLES
  counts,   \* the number of entities of each archetype
  arrays,   \* its array of each component
  thrown    \* has a call thrown?

vars == <<counts, arrays, thrown>>

Archetypes == (SUBSET Components) \ {{}}

NoArrays == [c \in Components |-> NewArray]

Init ==
  /\ counts = [k \in Archetypes |-> 0]
  /\ arrays = [k \in Archetypes |-> NoArrays]
  /\ thrown = FALSE

Kept(k, after) == IF counts[k] = 1 THEN NoArrays ELSE after

AddFirst(c, v) ==
  /\ counts' = [counts EXCEPT ![{c}] = @ + 1]
  /\ arrays' = [arrays EXCEPT ![{c}][c] = emplace_component(@, counts[{c}], v)]

AddNext(k, c, x, v) ==
  LET new == k \cup {c}
      m   == counts[new]
  IN
  /\ counts' = [counts EXCEPT ![k] = @ - 1, ![new] = @ + 1]
  /\ arrays' = [arrays EXCEPT
       ![k] = Kept(k, [d \in Components |->
                IF d \in k THEN move_out(@[d], x, counts[k]) ELSE @[d]]),
       ![new] = [d \in Components |->
                  IF d = c THEN emplace_component(@[d], m, v)
                  ELSE IF d \in k
                  THEN emplace_component(@[d], m, arrays[k][d].data[x])
                  ELSE @[d]]]

RemoveOnly(c, x) ==
  /\ counts' = [counts EXCEPT ![{c}] = @ - 1]
  /\ arrays' = [arrays EXCEPT ![{c}] = Kept({c}, [d \in Components |->
       IF d = c THEN erase_component(@[d], x, counts[{c}]) ELSE @[d]])]

Clean ==
  /\ counts' = [k \in Archetypes |-> 0]
  /\ arrays' = [k \in Archetypes |-> NoArrays]

Next ==
  /\ thrown = FALSE
  /\ \/ /\ thrown' = FALSE
        /\ \/ \E c \in Components, v \in Objects : AddFirst(c, v)
           \/ \E k \in Archetypes : \E c \in Components \ k, v \in Objects,
                 x \in 0 .. counts[k] - 1 : AddNext(k, c, x, v)
           \/ \E c \in Components : \E x \in 0 .. counts[{c}] - 1 :
                 RemoveOnly(c, x)
           \/ Clean
     \/ thrown' = TRUE /\ counts' \in [Archetypes -> Nat] /\ UNCHANGED arrays

Spec == Init /\ [][Next]_vars

===============================================================================

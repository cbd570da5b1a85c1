------------------------------ MODULE KeyedMaps ------------------------------
(***************************************************************************)
(* What a set of hash maps promises its callers: finite functions from     *)
(* keys to values that only the calls change, and a call that may throw.   *)
(***************************************************************************)
CONSTANTS Keys, Values, Names

VARIABLES
  map,  \* what each map answers
  last  \* the last call, or that it threw

vars == <<map, last>>

Init ==
  /\ map = [n \in Names |-> << >>]
  /\ last = "none"

(* The map m with the value v for k, and what m is on the keys D.          *)
With(m, k, v) == [x \in DOMAIN m \cup {k} |-> IF x = k THEN v ELSE m[x]]
Only(m, D) == [x \in D |-> m[x]]

Becomes(n, m) == map' = [map EXCEPT ![n] = m]

Emplace(n, k, v) ==
  /\ last' = "emplace"
  /\ Becomes(n, IF k \in DOMAIN map[n] THEN map[n] ELSE With(map[n], k, v))

Assign(n, k, v) == last' = "assign" /\ Becomes(n, With(map[n], k, v))
Erase(n, k) == last' = "erase" /\ Becomes(n, Only(map[n], DOMAIN map[n] \ {k}))
Clear(n) == last' = "clear" /\ Becomes(n, << >>)
Copy(n, o) == last' = "copy" /\ Becomes(n, map[o])

Move(n, o) ==
  /\ last' = "move"
  /\ map' = [map EXCEPT ![n] = map[o], ![o] = << >>]

Swap(n, o) ==
  /\ last' = "swap"
  /\ map' = [map EXCEPT ![n] = map[o], ![o] = map[n]]

(* Only the arrangement of the map in memory changes.                      *)
Rearrange == last' = "layout" /\ UNCHANGED map

(* A call that throws may lose entries of its map; it invents none.        *)
Overflow(n) ==
  /\ last' = "threw"
  /\ \E D \in SUBSET DOMAIN map[n] : Becomes(n, Only(map[n], D))

Next ==
  \/ Rearrange
  \/ \E n \in Names :
       \/ \E k \in Keys, v \in Values : Emplace(n, k, v) \/ Assign(n, k, v)
       \/ \E k \in Keys : Erase(n, k)
       \/ Clear(n)
       \/ Overflow(n)
       \/ \E o \in Names \ {n} : Copy(n, o) \/ Move(n, o) \/ Swap(n, o)

Spec == Init /\ [][Next]_vars

===============================================================================

------------------------------ MODULE ByteArray ------------------------------
(***************************************************************************)
(* The byte_array of one component type in one archetype, with the storage *)
(* operations of archetype_allocator and the per-array part of             *)
(* archetype_handler.                                                      *)
(*                                                                         *)
(* Sizes are counted in slots: every size the code computes is a multiple  *)
(* of sizeof(C) (size * 2 + sizeof(C), or entities * sizeof(C)), and every *)
(* access is at slot * sizeof(C).  A slot is `raw' while no object lives   *)
(* in it.  The code never looks at a slot to see whether an object lives   *)
(* there; moving out of a raw slot therefore yields a raw slot (garbage).  *)
(* n is always archetype->entities.size() at the moment of the call.       *)
(***************************************************************************)
EXTENDS Integers

CONSTANT raw   \* a slot without a live object

(* byte_array{new std::byte[0], 0} *)
NewArray == [size |-> 0, data |-> [i \in {} |-> raw]]

(* The arrays over a set V of component values. *)
IsByteArray(a, V) ==
  /\ a = [size |-> a.size, data |-> a.data]
  /\ a.size \in Nat
  /\ a.data \in [0 .. a.size - 1 -> V \cup {raw}]

construct(a, i, v) ==
  [size |-> a.size, data |-> [a.data EXCEPT ![i] = v]]

destroy_data(a, i) == construct(a, i, raw)

(* Slip: the last slot is left behind.                                     *)
ResizeShort(a, n, newSize) ==
  [size |-> newSize,
   data |-> [i \in 0 .. newSize - 1 |-> IF i < n - 1 THEN a.data[i] ELSE raw]]

(* resize moves the first n slots into a new block and frees the old one.  *)
resize(a, n, newSize) ==
  [size |-> newSize,
   data |-> [i \in 0 .. newSize - 1 |-> IF i < n THEN a.data[i] ELSE raw]]

(* Slip: asks whether the entities fit that are there already.             *)
NeedsSpaceLate(a, n) == n > a.size

needs_space(a, n) == n + 1 > a.size

double_allocation(a, n) == resize(a, n, 2 * a.size + 1)

auto_allocate(a, n) == IF needs_space(a, n) THEN double_allocation(a, n) ELSE a

(* allocated > used / 2, an integer division of bytes: 2 * size > n.       *)
needs_shrinking(a, n) == 2 * a.size > n

shrink_to_fit(a, n) == resize(a, n, n)

auto_shrink(a, n) == IF needs_shrinking(a, n) THEN shrink_to_fit(a, n) ELSE a

(* Construct a component in the slot after the last entity's.              *)
emplace_component(a, n, v) == construct(auto_allocate(a, n), n, v)

(* Slip: the slot that was moved from is not destroyed.                    *)
MoveLastUndestroyed(a, x, n) ==
  IF n - 1 # x THEN construct(a, x, a.data[n - 1]) ELSE a

(* move_last_component, which the callers skip for the last slot itself.   *)
move_last_component(a, x, n) ==
  IF n - 1 # x THEN destroy_data(construct(a, x, a.data[n - 1]), n - 1) ELSE a

(* What is left in the old array once slot x has been moved out of it.     *)
move_out(a, x, n) == move_last_component(destroy_data(a, x), x, n)

(* erase_component followed by the move of the last slot into the hole.    *)
erase_component(a, x, n) ==
  move_last_component(auto_shrink(destroy_data(a, x), n), x, n)

==============================================================================

-------------------------------- MODULE TypeIds --------------------------------
(***************************************************************************)
(* identifier.hpp: ids of component types, and the signatures made of      *)
(* them.  The id of a type is a function-local static, which C++ guards:   *)
(* one thread initialises it and the others wait.  The counter behind all  *)
(* of them is not guarded: value++ is a load and a store of each thread.   *)
(* A signature is the set of its bits.  Each thread works on the signature *)
(* of an archetype of its own.                                             *)
(***************************************************************************)
EXTENDS Vectors, FiniteSets

CONSTANTS
  Threads,
  Types,           \* the component types of the program
  none,            \* what a thread outside get<T>() asks for
  MaxComponents    \* bits of a signature: 64 in the code

ASSUME NoneAssumption == none \notin Types
ASSUME WidthAssumption == MaxComponents \in Nat \ {0}

VARIABLES
  value,       \* type_id_generator::identifier()::value
  guard,       \* the guard of the static of each type
  ids,         \* the static of each type
  pc,          \* where in get<T>() each thread is
  asks,        \* the T it asks for
  read,        \* what it has loaded from value
  signatures,  \* the signature each thread works on
  held,        \* history: the types that are to be in it
  before,      \* history: types that had their id when T's was loaded
  overlapped,  \* history: types one of which was loaded before the other's store
  returned     \* history: <<type, id>> that calls have returned

callVars == <<pc, asks, read>>
idVars == <<value, guard, ids>>
signatureVars == <<signatures, held>>
vars == <<idVars, callVars, signatureVars, before, overlapped, returned>>

(***************************************************************************)
(* Signatures.                                                             *)
(***************************************************************************)
(* Slip: a bit beyond the width.                                           *)
BitAt(id) == {{id}}

(* The outcomes of 1ULL << id.  From the width on C++ leaves it undefined: *)
(* the shift of x86 takes the id modulo the width, an optimiser may take   *)
(* the result to be 0.                                                     *)
get_type_signature(id) ==
  IF id < MaxComponents THEN {{id}} ELSE {{id % MaxComponents}, {}}

add_type_to_signature(signature, type) == signature \cup type

(* Slip: the bit is flipped.                                               *)
FlipType(signature, type) ==
  IF type \subseteq signature THEN signature \ type ELSE signature \cup type

remove_type_to_signature(signature, type) == signature \ type

(* The union of the ids' signatures, for ids below the width.              *)
type_ids_to_signature(type_ids) ==
  UNION {UNION get_type_signature(type_ids[i]) : i \in DOMAIN type_ids}

(* Slip: the last bit is not looked at.                                    *)
IdsWithoutLast(signature) ==
  Selected([i \in 1 .. MaxComponents - 1 |-> i - 1], signature)

(* The bits that are set, lowest first.                                    *)
signature_to_type_ids(signature) ==
  Selected([i \in 1 .. MaxComponents |-> i - 1], signature)

(* component_id_index of the archetype that create_archetype makes of a    *)
(* signature: the position of each id.                                     *)
component_id_index(signature) ==
  LET component_ids == signature_to_type_ids(signature)
  IN  [id \in signature |->
         (CHOOSE i \in DOMAIN component_ids : component_ids[i] = id) - 1]

(***************************************************************************)
(* type_id_generator::get<T>().                                            *)
(***************************************************************************)
TypeIdsTypeOK ==
  /\ value \in Nat
  /\ guard \in [Types -> {"unset", "initialising", "set"}]
  /\ ids \in [Types -> Nat]
  /\ pc \in [Threads -> {"idle", "entering", "loading", "storing", "leaving"}]
  /\ asks \in [Threads -> Types \cup {none}]
  /\ read \in [Threads -> Nat]
  /\ signatures \in [Threads -> SUBSET (0 .. MaxComponents - 1)]
  /\ held \in [Threads -> SUBSET Types]
  /\ before \in [Types -> SUBSET Types]
  /\ overlapped \subseteq Types
  /\ returned \subseteq Types \X Nat

Init ==
  /\ value = 0
  /\ guard = [T \in Types |-> "unset"]
  /\ ids = [T \in Types |-> 0]
  /\ pc = [t \in Threads |-> "idle"]
  /\ asks = [t \in Threads |-> none]
  /\ read = [t \in Threads |-> 0]
  /\ signatures = [t \in Threads |-> {}]
  /\ held = [t \in Threads |-> {}]
  /\ before = [T \in Types |-> {}]
  /\ overlapped = {}
  /\ returned = {}

Identified == {T \in Types : guard[T] = "set"}

Call(t, T) ==
  /\ pc[t] = "idle"
  /\ pc' = [pc EXCEPT ![t] = "entering"]
  /\ asks' = [asks EXCEPT ![t] = T]
  /\ UNCHANGED <<idVars, read, signatureVars, before, overlapped, returned>>

(* Slip: a thread does not wait for the one that is initialising.          *)
EnterUnguarded(t) ==
  /\ pc[t] = "entering"
  /\ guard[asks[t]] # "set"
  /\ guard' = [guard EXCEPT ![asks[t]] = "initialising"]
  /\ pc' = [pc EXCEPT ![t] = "loading"]
  /\ UNCHANGED <<value, ids, asks, read, signatureVars, before, overlapped,
                 returned>>

(* The first thread to come takes the guard of the static.                 *)
Enter(t) ==
  /\ pc[t] = "entering"
  /\ guard[asks[t]] = "unset"
  /\ guard' = [guard EXCEPT ![asks[t]] = "initialising"]
  /\ pc' = [pc EXCEPT ![t] = "loading"]
  /\ UNCHANGED <<value, ids, asks, read, signatureVars, before, overlapped,
                 returned>>

(* Later ones, and those that waited, go past it.                          *)
Pass(t) ==
  /\ pc[t] = "entering"
  /\ guard[asks[t]] = "set"
  /\ pc' = [pc EXCEPT ![t] = "leaving"]
  /\ UNCHANGED <<idVars, asks, read, signatureVars, before, overlapped,
                 returned>>

(* The load of value++.                                                    *)
Load(t) ==
  LET others == {s \in Threads : pc[s] = "storing"} IN
  /\ pc[t] = "loading"
  /\ read' = [read EXCEPT ![t] = value]
  /\ pc' = [pc EXCEPT ![t] = "storing"]
  /\ before' = [before EXCEPT ![asks[t]] = Identified]
  /\ overlapped' = IF others = {} THEN overlapped
                   ELSE overlapped \cup {asks[t]} \cup {asks[s] : s \in others}
  /\ UNCHANGED <<idVars, asks, signatureVars, returned>>

(* Slips: the counter is not advanced; the initialisation is given up and  *)
(* begun anew.                                                             *)
StoreSame(t) ==
  /\ pc[t] = "storing"
  /\ value' = read[t]
  /\ ids' = [ids EXCEPT ![asks[t]] = read[t]]
  /\ guard' = [guard EXCEPT ![asks[t]] = "set"]
  /\ pc' = [pc EXCEPT ![t] = "leaving"]
  /\ read' = [read EXCEPT ![t] = 0]
  /\ UNCHANGED <<asks, signatureVars, before, overlapped, returned>>

GiveUp(t) ==
  /\ pc[t] = "storing"
  /\ guard' = [guard EXCEPT ![asks[t]] = "unset"]
  /\ pc' = [pc EXCEPT ![t] = "entering"]
  /\ read' = [read EXCEPT ![t] = 0]
  /\ UNCHANGED <<value, ids, asks, signatureVars, before, overlapped, returned>>

(* The store of value++, the initialisation, and the release of the guard. *)
Store(t) ==
  /\ pc[t] = "storing"
  /\ value' = read[t] + 1
  /\ ids' = [ids EXCEPT ![asks[t]] = read[t]]
  /\ guard' = [guard EXCEPT ![asks[t]] = "set"]
  /\ pc' = [pc EXCEPT ![t] = "leaving"]
  /\ read' = [read EXCEPT ![t] = 0]
  /\ UNCHANGED <<asks, signatureVars, before, overlapped, returned>>

(* get<T>() returns, and the thread adds T to its signature.               *)
LeaveAdding(t) ==
  LET T == asks[t] IN
  /\ pc[t] = "leaving"
  /\ \E type \in get_type_signature(ids[T]) :
       signatures' = [signatures EXCEPT ![t] = add_type_to_signature(@, type)]
  /\ held' = [held EXCEPT ![t] = @ \cup {T}]
  /\ returned' = returned \cup {<<T, ids[T]>>}
  /\ pc' = [pc EXCEPT ![t] = "idle"]
  /\ asks' = [asks EXCEPT ![t] = none]
  /\ UNCHANGED <<idVars, read, before, overlapped>>

(* Or takes T out of its signature, whether it is there or not.            *)
LeaveRemoving(t) ==
  LET T == asks[t] IN
  /\ pc[t] = "leaving"
  /\ \E type \in get_type_signature(ids[T]) :
       signatures' = [signatures EXCEPT ![t] = remove_type_to_signature(@, type)]
  /\ held' = [held EXCEPT ![t] = @ \ {T}]
  /\ returned' = returned \cup {<<T, ids[T]>>}
  /\ pc' = [pc EXCEPT ![t] = "idle"]
  /\ asks' = [asks EXCEPT ![t] = none]
  /\ UNCHANGED <<idVars, read, before, overlapped>>

Proceed(t) ==
  Enter(t) \/ Pass(t) \/ Load(t) \/ Store(t) \/ LeaveAdding(t) \/ LeaveRemoving(t)

Next ==
  \E t \in Threads :
    \/ \E T \in Types : Call(t, T)
    \/ Proceed(t)

(* A thread inside get<T>() keeps running unless it waits for the guard.   *)
Spec == Init /\ [][Next]_vars /\ \A t \in Threads : WF_vars(Proceed(t))

(***************************************************************************)
(* Properties.                                                             *)
(***************************************************************************)
(* Every call for a type returns the same id, whichever thread makes it    *)
(* and however many came for the type at once.                             *)
OneIdPerType ==
  \A p, q \in returned : p[1] = q[1] => p[2] = q[2]

(* A type whose id was generated while no other was has a lower id than    *)
(* every type generated later, whatever those raced with: the counter never *)
(* falls back behind it.  The ids of types that were generated at once may *)
(* be the same, and may be those of types that come after them.            *)
LaterIdsAreHigher ==
  \A S, T \in Identified :
    S \in before[T] \ overlapped => ids[S] < ids[T]

(* As long as types do not share ids and the ids fit the width, the bits of *)
(* a signature are those of the types in it, however they came and went.   *)
SignaturesMirrorTypes ==
  (\A S, T \in Identified : ids[T] < MaxComponents /\ (ids[S] = ids[T] => S = T))
    => \A t \in Threads : signatures[t] = {ids[T] : T \in held[t]}

(* An archetype lists the ids of its signature in rising order, which      *)
(* std::ranges::includes expects, and its index finds each in its place.   *)
IdListsAreSorted ==
  \A t \in Threads :
    LET component_ids == signature_to_type_ids(signatures[t])
        index == component_id_index(signatures[t])
    IN /\ type_ids_to_signature(component_ids) = signatures[t]
       /\ \A i, j \in DOMAIN component_ids :
            i < j => component_ids[i] < component_ids[j]
       /\ \A i \in DOMAIN component_ids : index[component_ids[i]] = i - 1

(* Every call of get<T>() returns.                                         *)
CallsReturn == \A t \in Threads : pc[t] = "entering" ~> pc[t] = "idle"

===============================================================================

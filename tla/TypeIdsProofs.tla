---------------------------- MODULE TypeIdsProofs ----------------------------
(***************************************************************************)
(* For any number of threads, types and bits: calls for a type return one  *)
(* id, ids of types generated alone are not given out again, and           *)
(* signatures mirror the types put into them.                              *)
(***************************************************************************)
EXTENDS TypeIds, StorageProofs

(***************************************************************************)
(* The inductive invariant.                                                *)
(***************************************************************************)
Initialising(t) == pc[t] \in {"loading", "storing"}

Asking == \A t \in Threads : pc[t] # "idle" => asks[t] \in Types

(* The guard of a static is taken by one thread, the one that sets it.     *)
GuardsAreTaken ==
  \A t \in Threads : Initialising(t) => guard[asks[t]] = "initialising"

OneInitialiser ==
  \A s, t \in Threads :
    Initialising(s) /\ Initialising(t) /\ asks[s] = asks[t] => s = t

LeavingIdentified ==
  \A t \in Threads : pc[t] = "leaving" => guard[asks[t]] = "set"

ReturnedAreIds ==
  \A p \in returned : guard[p[1]] = "set" /\ p[2] = ids[p[1]]

BeforeIdentified == \A T \in Types : before[T] \subseteq Identified

StoringTogether ==
  \A s, t \in Threads :
    pc[s] = "storing" /\ pc[t] = "storing" /\ s # t => asks[s] \in overlapped

(* The counter has passed the id of a type that was generated alone, and   *)
(* so has whatever a thread is about to store.                             *)
CounterAhead ==
  \A S \in Identified \ overlapped :
    /\ ids[S] < value
    /\ \A t \in Threads : pc[t] = "storing" =>
         S \in before[asks[t]] /\ ids[S] < read[t]

HeldIdentified == \A t \in Threads : held[t] \subseteq Identified

GuardInv == Asking /\ GuardsAreTaken /\ OneInitialiser /\ LeavingIdentified

OrderInv ==
  BeforeIdentified /\ StoringTogether /\ CounterAhead /\ LaterIdsAreHigher

(* The types that have an id, and their ids, are fixed.                    *)
IdsStay ==
  \A T \in Types : guard[T] = "set" => guard'[T] = "set" /\ ids'[T] = ids[T]

Leave(t) == LeaveAdding(t) \/ LeaveRemoving(t)

(***************************************************************************)
(* Types.                                                                  *)
(***************************************************************************)
(* Whichever outcome a shift has, its bits are bits of a signature.        *)
LEMMA BitsFit ==
  ASSUME NEW id \in Nat, NEW type \in get_type_signature(id)
  PROVE  type \subseteq 0 .. MaxComponents - 1
<1>1. CASE id < MaxComponents
  BY <1>1, WidthAssumption DEF get_type_signature
<1>2. CASE ~ (id < MaxComponents)
  <2>1. id % MaxComponents \in 0 .. MaxComponents - 1
    BY WidthAssumption
  <2> QED BY <1>2, <2>1 DEF get_type_signature
<1> QED BY <1>1, <1>2

(* Every step keeps the types, and which type a thread asks for.           *)
LEMMA TypesStep ==
  ASSUME TypeIdsTypeOK, Asking, [Next]_vars
  PROVE  TypeIdsTypeOK' /\ Asking'
<1> USE DEF TypeIdsTypeOK, Asking
<1>1. ASSUME NEW t \in Threads, NEW T \in Types, Call(t, T)
      PROVE  TypeIdsTypeOK' /\ Asking'
  BY <1>1 DEF Call, idVars, signatureVars
<1>2. ASSUME NEW t \in Threads, Enter(t) \/ Pass(t)
      PROVE  TypeIdsTypeOK' /\ Asking'
  BY <1>2 DEF Enter, Pass, idVars, signatureVars
<1>3. ASSUME NEW t \in Threads, Load(t)
      PROVE  TypeIdsTypeOK' /\ Asking'
  <2>1. Identified \in SUBSET Types
    BY DEF Identified
  <2>2. asks[t] \in Types
    BY <1>3 DEF Load
  <2>3. \A s \in Threads : pc[s] = "storing" => asks[s] \in Types
    OBVIOUS
  <2>4. overlapped' \subseteq Types
    BY <1>3, <2>2, <2>3 DEF Load
  <2> QED BY <1>3, <2>1, <2>2, <2>4 DEF Load, idVars, signatureVars
<1>4. ASSUME NEW t \in Threads, Store(t)
      PROVE  TypeIdsTypeOK' /\ Asking'
  BY <1>4 DEF Store, signatureVars
<1>5. ASSUME NEW t \in Threads, Leave(t)
      PROVE  TypeIdsTypeOK' /\ Asking'
  <2>1. pc[t] = "leaving" /\ asks[t] \in Types /\ ids[asks[t]] \in Nat
    BY <1>5 DEF Leave, LeaveAdding, LeaveRemoving
  <2>2. signatures' \in [Threads -> SUBSET (0 .. MaxComponents - 1)]
    <3>1. PICK type \in get_type_signature(ids[asks[t]]) :
            \/ signatures' = [signatures EXCEPT ![t] = @ \cup type]
            \/ signatures' = [signatures EXCEPT ![t] = @ \ type]
      BY <1>5 DEF Leave, LeaveAdding, LeaveRemoving, add_type_to_signature,
                  remove_type_to_signature
    <3>2. type \subseteq 0 .. MaxComponents - 1
      BY <2>1, BitsFit
    <3>3. signatures[t] \in SUBSET (0 .. MaxComponents - 1)
      OBVIOUS
    <3> DEFINE bits == 0 .. MaxComponents - 1
    <3>4. signatures \in [Threads -> SUBSET bits]
      OBVIOUS
    <3> HIDE DEF bits, TypeIdsTypeOK, Asking
    <3>5. (signatures[t] \cup type) \in SUBSET bits /\ (signatures[t] \ type) \in SUBSET bits
      BY <3>2, <3>3 DEF bits
    <3>6. PICK b \in SUBSET bits : signatures' = [signatures EXCEPT ![t] = b]
      BY <3>1, <3>5
    <3>7. signatures' \in [Threads -> SUBSET bits]
      BY <3>4, <3>6
    <3> QED BY <3>7 DEF bits
  <2>3. held' \in [Threads -> SUBSET Types]
    BY <1>5, <2>1 DEF Leave, LeaveAdding, LeaveRemoving
  <2>4. returned' \subseteq Types \X Nat
    BY <1>5, <2>1 DEF Leave, LeaveAdding, LeaveRemoving
  <2> QED BY <1>5, <2>2, <2>3, <2>4 DEF Leave, LeaveAdding, LeaveRemoving, idVars
<1>6. CASE UNCHANGED vars
  BY <1>6 DEF vars, idVars, callVars, signatureVars
<1> QED BY <1>1, <1>2, <1>3, <1>4, <1>5, <1>6 DEF Next, Proceed, Leave

(***************************************************************************)
(* Guards.                                                                 *)
(***************************************************************************)
(* A guard is taken by one thread, and set only with an id stored, through  *)
(* every step (identifier.hpp:24).                                         *)
LEMMA GuardStep ==
  ASSUME TypeIdsTypeOK, GuardInv, [Next]_vars
  PROVE  GuardInv' /\ IdsStay
<1> USE DEF TypeIdsTypeOK, GuardInv, Asking, GuardsAreTaken, OneInitialiser,
            LeavingIdentified, IdsStay, Initialising
<1>1. ASSUME NEW t \in Threads, NEW T \in Types, Call(t, T)
      PROVE  GuardInv' /\ IdsStay
  BY <1>1 DEF Call, idVars
<1>2. ASSUME NEW t \in Threads, Enter(t)
      PROVE  GuardInv' /\ IdsStay
  <2>1. /\ pc[t] = "entering" /\ asks[t] \in Types /\ guard[asks[t]] = "unset"
        /\ guard' = [guard EXCEPT ![asks[t]] = "initialising"]
        /\ pc' = [pc EXCEPT ![t] = "loading"]
        /\ asks' = asks /\ ids' = ids
    BY <1>2 DEF Enter
  <2>2. \A s \in Threads : s # t /\ Initialising(s) => asks[s] # asks[t]
    BY <2>1
  <2>3. OneInitialiser'
    BY <2>1, <2>2
  <2>4. Asking' /\ GuardsAreTaken' /\ LeavingIdentified' /\ IdsStay
    BY <2>1
  <2> QED BY <2>3, <2>4
<1>3. ASSUME NEW t \in Threads, Pass(t)
      PROVE  GuardInv' /\ IdsStay
  BY <1>3 DEF Pass, idVars
<1>4. ASSUME NEW t \in Threads, Load(t)
      PROVE  GuardInv' /\ IdsStay
  BY <1>4 DEF Load, idVars
<1>5. ASSUME NEW t \in Threads, Store(t)
      PROVE  GuardInv' /\ IdsStay
  <2>1. /\ pc[t] = "storing" /\ asks[t] \in Types
        /\ guard[asks[t]] = "initialising"
        /\ guard' = [guard EXCEPT ![asks[t]] = "set"]
        /\ ids' = [ids EXCEPT ![asks[t]] = read[t]]
        /\ pc' = [pc EXCEPT ![t] = "leaving"]
        /\ asks' = asks
    BY <1>5 DEF Store
  <2>2. \A s \in Threads : s # t /\ Initialising(s) => asks[s] # asks[t]
    BY <2>1
  <2>3. GuardsAreTaken' /\ OneInitialiser'
    BY <2>1, <2>2
  <2>4. Asking' /\ LeavingIdentified' /\ IdsStay
    BY <2>1
  <2> QED BY <2>3, <2>4
<1>6. ASSUME NEW t \in Threads, Leave(t)
      PROVE  GuardInv' /\ IdsStay
  <2>1. /\ pc[t] = "leaving" /\ guard' = guard /\ ids' = ids
        /\ pc' = [pc EXCEPT ![t] = "idle"]
        /\ asks' = [asks EXCEPT ![t] = none]
    BY <1>6 DEF Leave, LeaveAdding, LeaveRemoving, idVars
  <2>2. Asking' /\ OneInitialiser' /\ IdsStay
    BY <2>1
  <2>3. GuardsAreTaken' /\ LeavingIdentified'
    BY <2>1
  <2> QED BY <2>2, <2>3
<1>7. CASE UNCHANGED vars
  BY <1>7 DEF vars, idVars, callVars
<1> HIDE DEF TypeIdsTypeOK, GuardInv, IdsStay
<1>8. ASSUME NEW t \in Threads, Proceed(t)
      PROVE  GuardInv' /\ IdsStay
  <2>1. CASE Leave(t)
    BY <1>6, <2>1
  <2>2. CASE Enter(t) \/ Pass(t) \/ Load(t) \/ Store(t)
    BY <1>2, <1>3, <1>4, <1>5, <2>2
  <2> QED BY <1>8, <2>1, <2>2 DEF Proceed, Leave
<1> QED BY <1>1, <1>7, <1>8 DEF Next

(***************************************************************************)
(* What calls return.                                                      *)
(***************************************************************************)
(* What get returns is the id of its type, then and ever after.            *)
LEMMA ReturnedStep ==
  ASSUME TypeIdsTypeOK, GuardInv, ReturnedAreIds, IdsStay, [Next]_vars
  PROVE  ReturnedAreIds'
<1>1. ASSUME NEW p \in returned
      PROVE  guard'[p[1]] = "set" /\ p[2] = ids'[p[1]]
  <2>1. p[1] \in Types
    BY DEF TypeIdsTypeOK
  <2> QED BY <2>1 DEF ReturnedAreIds, IdsStay
<1>2. ASSUME NEW t \in Threads, Leave(t)
      PROVE  ReturnedAreIds'
  <2>1. /\ guard[asks[t]] = "set" /\ guard' = guard /\ ids' = ids
        /\ returned' = returned \cup {<<asks[t], ids[asks[t]]>>}
    BY <1>2 DEF Leave, LeaveAdding, LeaveRemoving, GuardInv, LeavingIdentified,
                idVars
  <2> QED BY <1>1, <2>1 DEF ReturnedAreIds
<1>3. CASE UNCHANGED returned
  BY <1>1, <1>3 DEF ReturnedAreIds
<1> QED
  BY <1>2, <1>3 DEF Next, Proceed, Leave, Call, Enter, Pass, Load, Store, vars

(***************************************************************************)
(* The order of ids.                                                       *)
(***************************************************************************)
(* No step lets the counter fall behind an id generated alone              *)
(* (identifier.hpp:21).                                                    *)
LEMMA OrderStep ==
  ASSUME TypeIdsTypeOK, GuardInv, OrderInv, IdsStay, [Next]_vars
  PROVE  OrderInv'
<1> USE DEF OrderInv
<1>1. ASSUME NEW t \in Threads, Load(t)
      PROVE  OrderInv'
  <2> DEFINE T == asks[t]
             others == {s \in Threads : pc[s] = "storing"}
  <2>1. /\ pc[t] = "loading" /\ T \in Types /\ guard[T] = "initialising"
        /\ read' = [read EXCEPT ![t] = value]
        /\ pc' = [pc EXCEPT ![t] = "storing"]
        /\ before' = [before EXCEPT ![T] = Identified]
        /\ overlapped' = IF others = {} THEN overlapped
                         ELSE overlapped \cup {T} \cup {asks[s] : s \in others}
        /\ value' = value /\ guard' = guard /\ ids' = ids /\ asks' = asks
    BY <1>1 DEF Load, idVars, GuardInv, Asking, GuardsAreTaken, Initialising
  <2>2. Identified' = Identified /\ T \notin Identified
    BY <2>1 DEF Identified
  <2>3. overlapped \subseteq overlapped'
    BY <2>1
  <2>4. BeforeIdentified'
    BY <2>1, <2>2 DEF BeforeIdentified, TypeIdsTypeOK
  <2>5. StoringTogether'
    <3> SUFFICES ASSUME NEW s \in Threads, NEW r \in Threads, s # r,
                        pc'[s] = "storing", pc'[r] = "storing"
                 PROVE  asks[s] \in overlapped'
      BY <2>1 DEF StoringTogether
    <3>1. CASE s # t /\ r # t
      BY <2>1, <2>3, <3>1 DEF StoringTogether, TypeIdsTypeOK
    <3>2. CASE s = t /\ r # t
      <4>1. r \in others
        BY <2>1, <3>2 DEF TypeIdsTypeOK
      <4> QED BY <2>1, <3>2, <4>1
    <3>3. CASE s # t /\ r = t
      <4>1. s \in others
        BY <2>1, <3>3 DEF TypeIdsTypeOK
      <4> QED BY <2>1, <4>1
    <3> QED BY <3>1, <3>2, <3>3
  <2>6. CounterAhead'
    <3> SUFFICES ASSUME NEW S \in Identified \ overlapped'
                 PROVE  /\ ids[S] < value
                        /\ \A s \in Threads : pc'[s] = "storing" =>
                             S \in before'[asks[s]] /\ ids[S] < read'[s]
      BY <2>1, <2>2 DEF CounterAhead
    <3>1. /\ S \in Identified \ overlapped
          /\ ids[S] < value
      BY <2>3 DEF CounterAhead
    <3>2. S \in before'[asks[t]] /\ ids[S] < read'[t]
      BY <2>1, <3>1 DEF TypeIdsTypeOK
    <3>3. ASSUME NEW s \in Threads, s # t, pc'[s] = "storing"
          PROVE  S \in before'[asks[s]] /\ ids[S] < read'[s]
      <4>1. pc[s] = "storing"
        BY <2>1, <3>3 DEF TypeIdsTypeOK
      <4>2. S \in before[asks[s]] /\ ids[S] < read[s]
        BY <3>1, <4>1 DEF CounterAhead
      <4>3. asks[s] \in Types
        BY <4>1 DEF GuardInv, Asking
      <4> QED BY <2>1, <3>1, <3>3, <4>2, <4>3 DEF TypeIdsTypeOK
    <3> QED BY <3>1, <3>2, <3>3
  <2>7. LaterIdsAreHigher'
    <3> SUFFICES ASSUME NEW S \in Identified, NEW U \in Identified,
                        S \in before'[U] \ overlapped'
                 PROVE  ids[S] < ids[U]
      BY <2>1, <2>2 DEF LaterIdsAreHigher
    <3>1. before'[U] = before[U]
      BY <2>1, <2>2 DEF TypeIdsTypeOK, Identified
    <3> QED BY <2>3, <3>1 DEF LaterIdsAreHigher
  <2> QED BY <2>4, <2>5, <2>6, <2>7
<1>2. ASSUME NEW t \in Threads, Store(t)
      PROVE  OrderInv'
  <2> DEFINE T == asks[t]
  <2>1. /\ pc[t] = "storing" /\ T \in Types /\ guard[T] = "initialising"
        /\ value' = read[t] + 1
        /\ ids' = [ids EXCEPT ![T] = read[t]]
        /\ guard' = [guard EXCEPT ![T] = "set"]
        /\ pc' = [pc EXCEPT ![t] = "leaving"]
        /\ read' = [read EXCEPT ![t] = 0]
        /\ before' = before /\ overlapped' = overlapped /\ asks' = asks
    BY <1>2 DEF Store, GuardInv, Asking, GuardsAreTaken, Initialising
  <2>2. Identified' = Identified \cup {T} /\ T \notin Identified
    BY <2>1 DEF Identified, TypeIdsTypeOK
  <2>3. \A S \in Identified : ids'[S] = ids[S]
    BY <2>1, <2>2 DEF Identified, TypeIdsTypeOK
  <2>4. ids'[T] = read[t] /\ read[t] \in Nat
    BY <2>1 DEF TypeIdsTypeOK
  <2>5. BeforeIdentified'
    BY <2>1, <2>2 DEF BeforeIdentified
  <2>6. \A s \in Threads : pc'[s] = "storing" => s # t /\ pc[s] = "storing"
    BY <2>1 DEF TypeIdsTypeOK
  <2>7. StoringTogether'
    BY <2>1, <2>6 DEF StoringTogether
  <2>8. CounterAhead'
    <3> SUFFICES ASSUME NEW S \in Identified \cup {T}, S \notin overlapped
                 PROVE  /\ ids'[S] < value'
                        /\ \A s \in Threads : pc'[s] = "storing" =>
                             S \in before[asks[s]] /\ ids'[S] < read'[s]
      BY <2>1, <2>2 DEF CounterAhead
    <3>1. CASE S \in Identified
      <4>1. ids[S] \in Nat /\ ids[S] < read[t]
        BY <2>1, <3>1 DEF CounterAhead, Identified, TypeIdsTypeOK
      <4>2. ids'[S] < value'
        BY <2>1, <2>3, <2>4, <3>1, <4>1
      <4>3. ASSUME NEW s \in Threads, pc'[s] = "storing"
            PROVE  S \in before[asks[s]] /\ ids'[S] < read'[s]
        BY <2>1, <2>3, <2>6, <3>1, <4>3 DEF CounterAhead, TypeIdsTypeOK
      <4> QED BY <4>2, <4>3
    <3>2. CASE S = T
      <4>1. \A s \in Threads : pc'[s] # "storing"
        BY <2>1, <2>6, <3>2 DEF StoringTogether
      <4> QED BY <2>1, <2>4, <3>2, <4>1
    <3> QED BY <3>1, <3>2
  <2>9. LaterIdsAreHigher'
    <3> SUFFICES ASSUME NEW S \in Identified \cup {T}, NEW U \in Identified \cup {T},
                        S \in before[U] \ overlapped
                 PROVE  ids'[S] < ids'[U]
      BY <2>1, <2>2 DEF LaterIdsAreHigher
    <3>1. S \in Identified
      BY <2>1 DEF BeforeIdentified, Identified
    <3>2. CASE U \in Identified
      BY <2>3, <3>1, <3>2 DEF LaterIdsAreHigher
    <3>3. CASE U = T
      BY <2>1, <2>3, <2>4, <3>1, <3>3 DEF CounterAhead
    <3> QED BY <3>2, <3>3
  <2> QED BY <2>5, <2>7, <2>8, <2>9
<1>3. ASSUME NEW t \in Threads, Enter(t) \/ Pass(t) \/ Leave(t)
      PROVE  OrderInv'
  <2>1. /\ Identified' = Identified
        /\ value' = value /\ ids' = ids /\ read' = read
        /\ before' = before /\ overlapped' = overlapped
    BY <1>3 DEF Enter, Pass, Leave, LeaveAdding, LeaveRemoving, idVars,
                Identified, TypeIdsTypeOK, GuardInv, Asking
  <2>2. \A s \in Threads : pc'[s] = "storing" =>
          pc[s] = "storing" /\ asks'[s] = asks[s]
    BY <1>3 DEF Enter, Pass, Leave, LeaveAdding, LeaveRemoving, TypeIdsTypeOK
  <2> QED BY <2>1, <2>2 DEF BeforeIdentified, StoringTogether, CounterAhead,
                            LaterIdsAreHigher
<1>4. ASSUME NEW t \in Threads, NEW T \in Types, Call(t, T)
      PROVE  OrderInv'
  <2>1. /\ value' = value /\ ids' = ids /\ read' = read /\ guard' = guard
        /\ before' = before /\ overlapped' = overlapped
    BY <1>4 DEF Call, idVars
  <2>2. \A s \in Threads : pc'[s] = "storing" =>
          pc[s] = "storing" /\ asks'[s] = asks[s]
    BY <1>4 DEF Call, TypeIdsTypeOK
  <2> QED BY <2>1, <2>2 DEF BeforeIdentified, StoringTogether, CounterAhead,
                            LaterIdsAreHigher, Identified
<1>5. CASE UNCHANGED vars
  BY <1>5 DEF vars, idVars, callVars, BeforeIdentified, StoringTogether,
              CounterAhead, LaterIdsAreHigher, Identified
<1> QED BY <1>1, <1>2, <1>3, <1>4, <1>5 DEF Next, Proceed, Leave

(***************************************************************************)
(* Signatures.                                                             *)
(***************************************************************************)
(* What SignaturesMirrorTypes expects of the ids.                          *)
IdsFit ==
  \A S, T \in Identified : ids[T] < MaxComponents /\ (ids[S] = ids[T] => S = T)

Mirrors(t) == signatures[t] = {ids[T] : T \in held[t]}

SignatureInv == HeldIdentified /\ SignaturesMirrorTypes

(* A step keeps what is known of the signatures.                           *)
LEMMA SignatureStep ==
  ASSUME TypeIdsTypeOK, GuardInv, SignatureInv, IdsStay, [Next]_vars
  PROVE  SignatureInv'
<1>1. Identified \subseteq Identified'
  BY DEF Identified, IdsStay
<1>2. \A T \in Identified : ids'[T] = ids[T]
  BY DEF Identified, IdsStay
<1>3. IdsFit' => IdsFit
  BY <1>1, <1>2 DEF IdsFit
<1>4. IdsFit => \A t \in Threads : Mirrors(t)
  BY DEF SignatureInv, SignaturesMirrorTypes, IdsFit, Mirrors
<1>5. SUFFICES ASSUME NEW s \in Threads
               PROVE  held'[s] \subseteq Identified' /\ (IdsFit' => Mirrors(s)')
  BY DEF SignatureInv, HeldIdentified, SignaturesMirrorTypes, IdsFit, Mirrors
<1>6. held[s] \subseteq Identified
  BY DEF SignatureInv, HeldIdentified
<1>7. CASE held'[s] = held[s] /\ signatures'[s] = signatures[s]
  <2>1. {ids'[T] : T \in held[s]} = {ids[T] : T \in held[s]}
    BY <1>2, <1>6
  <2> QED BY <1>1, <1>3, <1>4, <1>6, <1>7, <2>1 DEF Mirrors
<1>8. ASSUME Leave(s)
      PROVE  held'[s] \subseteq Identified' /\ (IdsFit' => Mirrors(s)')
  <2> DEFINE T == asks[s]
  <2>1. /\ pc[s] = "leaving" /\ T \in Identified
        /\ ids' = ids /\ Identified' = Identified
    BY <1>8 DEF Leave, LeaveAdding, LeaveRemoving, GuardInv, Asking,
                LeavingIdentified, Identified, idVars
  <2>2. held'[s] \subseteq Identified'
    BY <1>6, <1>8, <2>1 DEF Leave, LeaveAdding, LeaveRemoving, TypeIdsTypeOK
  <2>3. ASSUME IdsFit'
        PROVE  Mirrors(s)'
    <3>1. IdsFit /\ ids[T] < MaxComponents
      BY <1>3, <2>1, <2>3 DEF IdsFit
    <3>2. get_type_signature(ids[T]) = {{ids[T]}}
      BY <3>1 DEF get_type_signature
    <3>3. signatures[s] = {ids[S] : S \in held[s]}
      BY <1>4, <3>1 DEF Mirrors
    <3>4. CASE LeaveAdding(s)
      <4>1. /\ signatures'[s] = signatures[s] \cup {ids[T]}
            /\ held'[s] = held[s] \cup {T}
        BY <3>2, <3>4 DEF LeaveAdding, add_type_to_signature, TypeIdsTypeOK
      <4> QED BY <2>1, <3>3, <4>1 DEF Mirrors
    <3>5. CASE LeaveRemoving(s)
      <4>1. /\ signatures'[s] = signatures[s] \ {ids[T]}
            /\ held'[s] = held[s] \ {T}
        BY <3>2, <3>5 DEF LeaveRemoving, remove_type_to_signature, TypeIdsTypeOK
      <4>2. \A S \in held[s] : ids[S] = ids[T] => S = T
        BY <1>6, <2>1, <3>1 DEF IdsFit
      <4> QED BY <2>1, <3>3, <4>1, <4>2 DEF Mirrors
    <3> QED BY <1>8, <3>4, <3>5 DEF Leave
  <2> QED BY <2>2, <2>3
<1>9. CASE UNCHANGED vars
  BY <1>7, <1>9 DEF vars, signatureVars
<1>10. ASSUME NEW t \in Threads, (\E T \in Types : Call(t, T)) \/ Proceed(t)
       PROVE  held'[s] \subseteq Identified' /\ (IdsFit' => Mirrors(s)')
  <2>1. CASE Leave(t) /\ s = t
    BY <1>8, <2>1
  <2>2. CASE ~ (Leave(t) /\ s = t)
    <3>1. held'[s] = held[s] /\ signatures'[s] = signatures[s]
      BY <1>10, <2>2 DEF Call, Proceed, Enter, Pass, Load, Store, Leave,
                         LeaveAdding, LeaveRemoving, signatureVars, TypeIdsTypeOK
    <3> QED BY <1>7, <3>1
  <2> QED BY <2>1, <2>2
<1> QED BY <1>9, <1>10 DEF Next

(***************************************************************************)
(* Theorems.                                                               *)
(***************************************************************************)
IdsInv ==
  TypeIdsTypeOK /\ GuardInv /\ ReturnedAreIds /\ OrderInv /\ SignatureInv

(* The invariant holds before any type is touched.                         *)
LEMMA InitInv ==
  ASSUME Init
  PROVE  IdsInv
<1> USE DEF Init
<1>1. TypeIdsTypeOK
  BY WidthAssumption DEF TypeIdsTypeOK
<1>2. GuardInv
  BY DEF GuardInv, Asking, GuardsAreTaken, OneInitialiser, LeavingIdentified,
         Initialising
<1>3. Identified = {}
  BY DEF Identified
<1>4. ReturnedAreIds /\ OrderInv
  BY <1>3 DEF ReturnedAreIds, OrderInv, BeforeIdentified, StoringTogether,
              CounterAhead, LaterIdsAreHigher
<1>5. SignatureInv
  BY <1>3 DEF SignatureInv, HeldIdentified, SignaturesMirrorTypes
<1> QED BY <1>1, <1>2, <1>4, <1>5 DEF IdsInv

(* Every step keeps the invariant.                                         *)
LEMMA NextInv ==
  ASSUME IdsInv, [Next]_vars
  PROVE  IdsInv'
<1>1. TypeIdsTypeOK' /\ GuardInv' /\ IdsStay
  BY TypesStep, GuardStep DEF IdsInv, GuardInv
<1>2. ReturnedAreIds' /\ OrderInv' /\ SignatureInv'
  BY <1>1, ReturnedStep, OrderStep, SignatureStep DEF IdsInv
<1> QED BY <1>1, <1>2 DEF IdsInv

(* The inductive invariant of the generator (identifier.hpp:18): guards of  *)
(* statics, the counter, and the signatures of the threads.                 *)
THEOREM IdsInvariant == Spec => []IdsInv
<1>1. Init => IdsInv
  BY InitInv
<1>2. IdsInv /\ [Next]_vars => IdsInv'
  BY NextInv
<1> QED BY <1>1, <1>2, PTL DEF Spec

(* Whatever threads race for, the counter, the ids and the bits of every    *)
(* signature stay within their types: a shift beyond the width included.    *)
THEOREM IdsAreTyped == Spec => []TypeIdsTypeOK
<1>1. IdsInv => TypeIdsTypeOK
  BY DEF IdsInv
<1> QED BY <1>1, IdsInvariant, PTL

(* get<T>() returns one id per type, to any number of threads that come for *)
(* it at any moment (identifier.hpp:26).                                    *)
THEOREM TypesHaveOneId == Spec => []OneIdPerType
<1>1. IdsInv => OneIdPerType
  BY DEF IdsInv, ReturnedAreIds, OneIdPerType
<1> QED BY <1>1, IdsInvariant, PTL

(* The unguarded value++ (identifier.hpp:21) may repeat ids, but never that *)
(* of a type whose id was generated while no other was.                     *)
THEOREM CounterStaysAhead == Spec => []LaterIdsAreHigher
<1>1. IdsInv => LaterIdsAreHigher
  BY DEF IdsInv, OrderInv
<1> QED BY <1>1, IdsInvariant, PTL

(* While ids are distinct and below the width, adding and removing types in *)
(* any order leaves exactly the bits of the types that are in.              *)
THEOREM SignaturesAreSets == Spec => []SignaturesMirrorTypes
<1>1. IdsInv => SignaturesMirrorTypes
  BY DEF IdsInv, SignatureInv
<1> QED BY <1>1, IdsInvariant, PTL

(* The ids that create_archetype takes from a signature are its bits, from *)
(* the lowest up.                                                          *)
LEMMA IdsOfSignature ==
  ASSUME NEW S, S \subseteq 0 .. MaxComponents - 1
  PROVE  LET l == signature_to_type_ids(S)
         IN  /\ DOMAIN l = 1 .. Len(l) /\ Len(l) \in Nat
             /\ \A x : (\E i \in DOMAIN l : l[i] = x) <=> x \in S
             /\ \A i, j \in DOMAIN l : i < j => l[i] < l[j]
<1>1. MaxComponents \in Nat
  BY WidthAssumption
<1> QED BY <1>1, BitsInOrder DEF signature_to_type_ids

(* The ids of an archetype are in rising order, as std::ranges::includes    *)
(* (view.hpp:347) expects them, make up its signature again, and are found  *)
(* at their places through component_id_index (archetype_map.hpp:104): for  *)
(* any width and whatever a shift beyond it has put into the signature.     *)
THEOREM IdListsStaySorted == Spec => []IdListsAreSorted
<1>1. ASSUME TypeIdsTypeOK, NEW t \in Threads
      PROVE  LET component_ids == signature_to_type_ids(signatures[t])
                 index == component_id_index(signatures[t])
             IN /\ type_ids_to_signature(component_ids) = signatures[t]
                /\ \A i, j \in DOMAIN component_ids :
                     i < j => component_ids[i] < component_ids[j]
                /\ \A i \in DOMAIN component_ids : index[component_ids[i]] = i - 1
  <2> DEFINE S == signatures[t]
             l == signature_to_type_ids(S)
  <2>1. S \subseteq 0 .. MaxComponents - 1
    BY <1>1 DEF TypeIdsTypeOK
  <2> HIDE DEF S
  <2>2. /\ DOMAIN l = 1 .. Len(l) /\ Len(l) \in Nat
        /\ \A x : (\E i \in DOMAIN l : l[i] = x) <=> x \in S
        /\ \A i, j \in DOMAIN l : i < j => l[i] < l[j]
    BY <2>1, IdsOfSignature
  <2>3. component_id_index(S) =
          [id \in S |-> (CHOOSE i \in DOMAIN l : l[i] = id) - 1]
    BY DEF component_id_index
  <2> HIDE DEF l
  <2>4. type_ids_to_signature(l) = S
    <3>1. ASSUME NEW i \in DOMAIN l
          PROVE  UNION get_type_signature(l[i]) = {l[i]}
      <4>1. l[i] \in 0 .. MaxComponents - 1
        BY <2>1, <2>2
      <4>2. l[i] < MaxComponents
        BY <4>1, WidthAssumption
      <4> QED BY <4>2 DEF get_type_signature
    <3>2. type_ids_to_signature(l) = UNION {{l[i]} : i \in DOMAIN l}
      BY <3>1 DEF type_ids_to_signature
    <3> QED BY <2>2, <3>2
  <2>5. ASSUME NEW i \in DOMAIN l
        PROVE  component_id_index(S)[l[i]] = i - 1
    <3>1. l[i] \in S
      BY <2>2
    <3>2. \A j \in DOMAIN l : l[j] = l[i] => j = i
      <4> SUFFICES ASSUME NEW j \in DOMAIN l, l[j] = l[i], j # i PROVE FALSE
        OBVIOUS
      <4>1. \A x \in S : x \in Int /\ ~ (x < x)
        <5>1. \A x \in 0 .. MaxComponents - 1 : x \in Int /\ ~ (x < x)
          BY WidthAssumption
        <5> QED BY <2>1, <5>1
      <4>2. i < j \/ j < i
        BY <2>2
      <4>3. l[i] < l[j] \/ l[j] < l[i]
        BY <2>2, <4>2
      <4> QED BY <3>1, <4>1, <4>3
    <3>3. (CHOOSE j \in DOMAIN l : l[j] = l[i]) = i
      BY <3>2
    <3> QED BY <2>3, <3>1, <3>3
  <2> QED BY <2>2, <2>4, <2>5 DEF l, S
<1>2. IdsInv => IdListsAreSorted
  BY <1>1 DEF IdsInv, IdListsAreSorted
<1> QED BY <1>2, IdsInvariant, PTL

===============================================================================

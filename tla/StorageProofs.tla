---------------------------- MODULE StorageProofs -----------------------------
(***************************************************************************)
(* What is selected of a vector of any size: which elements, how often,    *)
(* and in which order.  What the operations on an array of components of   *)
(* any size leave in it.                                                   *)
(*                                                                         *)
(* The induction theorems of the library take an operator as a parameter;  *)
(* here induction over Nat is derived for sets, from the well-foundedness  *)
(* of < .                                                                  *)
(***************************************************************************)
EXTENDS Vectors, ByteArray, SequenceTheorems, WellFoundedInduction, TLAPS

Less == {ss \in Nat \X Nat : ss[1] < ss[2]}

(* The order of the natural numbers is well-founded.                       *)
LEMMA LessIsWellFounded == IsWellFoundedOn(Less, Nat)
BY NatLessThanWellFounded DEF OpToRel, Less

(* A set of natural numbers that is not empty has a least element.         *)
LEMMA LeastElement ==
  ASSUME NEW S \in SUBSET Nat, S # {}
  PROVE  \E x \in S : \A y \in S : x <= y
<1>1. PICK x \in S : \A y \in S : <<y, x>> \notin Less
  BY LessIsWellFounded, WFMin
<1>2. ASSUME NEW y \in S, y < x PROVE FALSE
  <2>1. <<y, x>> \in Nat \X Nat /\ <<y, x>>[1] = y /\ <<y, x>>[2] = x
    OBVIOUS
  <2> QED BY <1>1, <1>2, <2>1 DEF Less
<1> QED BY <1>2

(* Induction: a set with 0 that is closed under successor contains Nat.    *)
LEMMA SetInduction ==
  ASSUME NEW S, 0 \in S, \A n \in Nat : n \in S => n + 1 \in S
  PROVE  Nat \subseteq S
<1> DEFINE T == Nat \ S
<1> SUFFICES ASSUME T # {} PROVE FALSE
  OBVIOUS
<1>1. PICK x \in T : \A y \in T : x <= y
  BY LeastElement
<1>2. x # 0 /\ x - 1 \in Nat /\ x - 1 \notin T
  BY <1>1
<1>3. x - 1 + 1 \in S
  BY <1>2
<1> QED BY <1>3

-------------------------------------------------------------------------------
(* g is the function that SelectedOfPrefixes defines, up to m.             *)
IsSelection(g, s, S, m) ==
  g = [n \in 0 .. m |->
         IF n = 0 THEN << >>
         ELSE IF s[n] \in S THEN Append(g[n - 1], s[n]) ELSE g[n - 1]]

(* The recursion of SelectedOfPrefixes has a solution.                     *)
LEMMA SelectionExists ==
  ASSUME NEW s, NEW S
  PROVE  \A m \in Nat : \E g : IsSelection(g, s, S, m)
<1> DEFINE N == {m \in Nat : \E g : IsSelection(g, s, S, m)}
<1>1. 0 \in N
  <2> DEFINE g == [n \in 0 .. 0 |-> << >>]
  <2>1. IsSelection(g, s, S, 0)
    BY DEF IsSelection
  <2> QED BY <2>1
<1>2. ASSUME NEW m \in Nat, m \in N PROVE m + 1 \in N
  <2>1. PICK g : IsSelection(g, s, S, m)
    BY <1>2
  <2> DEFINE last == IF s[m + 1] \in S THEN Append(g[m], s[m + 1]) ELSE g[m]
             h == [n \in 0 .. m + 1 |-> IF n <= m THEN g[n] ELSE last]
  <2>2. \A n \in 0 .. m : h[n] = g[n]
    OBVIOUS
  <2>3. \A n \in 0 .. m : g[n] =
          IF n = 0 THEN << >>
          ELSE IF s[n] \in S THEN Append(g[n - 1], s[n]) ELSE g[n - 1]
    BY <2>1 DEF IsSelection
  <2>4. ASSUME NEW n \in 0 .. m + 1
        PROVE  h[n] =
                 IF n = 0 THEN << >>
                 ELSE IF s[n] \in S THEN Append(h[n - 1], s[n]) ELSE h[n - 1]
    <3>1. CASE n \in 0 .. m
      BY <3>1, <2>2, <2>3
    <3>2. CASE n = m + 1
      BY <3>2, <2>2
    <3> QED BY <3>1, <3>2
  <2>5. IsSelection(h, s, S, m + 1)
    BY <2>4 DEF IsSelection
  <2> QED BY <2>5
<1> HIDE DEF N
<1>3. Nat \subseteq N
  BY <1>1, <1>2, SetInduction
<1> QED BY <1>3 DEF N

(* The recursion of SelectedOfPrefixes, as an equation.                    *)
LEMMA SelectionEquation ==
  ASSUME NEW K, NEW s \in Seq(K), NEW S
  PROVE  \A n \in 0 .. Len(s) : SelectedOfPrefixes(s, S)[n] =
           IF n = 0 THEN << >>
           ELSE IF s[n] \in S THEN Append(SelectedOfPrefixes(s, S)[n - 1], s[n])
                ELSE SelectedOfPrefixes(s, S)[n - 1]
<1>1. \E g : IsSelection(g, s, S, Len(s))
  <2>1. Len(s) \in Nat
    OBVIOUS
  <2> QED BY <2>1, SelectionExists
<1>2. IsSelection(SelectedOfPrefixes(s, S), s, S, Len(s))
  BY <1>1 DEF IsSelection, SelectedOfPrefixes
<1> HIDE DEF SelectedOfPrefixes
<1> QED BY <1>2 DEF IsSelection

(* x is at most once among the first n elements of s.                      *)
Once(s, n, x) == \A i, j \in 1 .. n : s[i] = x /\ s[j] = x => i = j

(* The first n elements of s rise.                                         *)
Rising(s, n) == \A i, j \in 1 .. n : i < j => s[i] < s[j]

(* What is known of t, selected of the first n elements of s: its elements *)
(* are those of s up to n that are in S, those it has more than once are   *)
(* those that s has more than once, and it rises if s does.                *)
SelectedUpTo(t, s, S, n) ==
  /\ \A x : (\E i \in 1 .. Len(t) : t[i] = x)
             <=> (x \in S /\ \E i \in 1 .. n : s[i] = x)
  /\ \A x \in S : Once(t, Len(t), x) <=> Once(s, n, x)
  /\ Rising(s, n) => Rising(t, Len(t))

(* x is at most once among n + 1 elements if it is so among the first n,   *)
(* and not among them if it is the last.                                   *)
LEMMA OnceMore ==
  ASSUME NEW s, NEW n \in Nat, NEW x
  PROVE  Once(s, n + 1, x)
           <=> Once(s, n, x) /\ (x = s[n + 1] => ~ \E i \in 1 .. n : s[i] = x)
<1>1. /\ \A i \in 1 .. n + 1 : i \in 1 .. n \/ i = n + 1
      /\ 1 .. n \subseteq 1 .. n + 1
      /\ n + 1 \in 1 .. n + 1 /\ n + 1 \notin 1 .. n
  OBVIOUS
<1> QED BY <1>1 DEF Once

(* Selecting one more element of s.                                        *)
LEMMA SelectOneMore ==
  ASSUME NEW K, NEW s \in Seq(K), NEW S, NEW n \in Nat, n + 1 <= Len(s),
         NEW t \in Seq(K), SelectedUpTo(t, s, S, n), s[n + 1] \in S
  PROVE  /\ Append(t, s[n + 1]) \in Seq(K)
         /\ SelectedUpTo(Append(t, s[n + 1]), s, S, n + 1)
<1> DEFINE u == Append(t, s[n + 1])
           m == Len(t)
<1>1. /\ s[n + 1] \in K
      /\ u \in Seq(K)
      /\ Len(u) = m + 1
      /\ m \in Nat
      /\ u[m + 1] = s[n + 1]
      /\ \A i \in 1 .. m : u[i] = t[i]
  OBVIOUS
<1>2. /\ \A x : (\E i \in 1 .. m : t[i] = x)
                  <=> (x \in S /\ \E i \in 1 .. n : s[i] = x)
      /\ \A x \in S : Once(t, m, x) <=> Once(s, n, x)
      /\ Rising(s, n) => Rising(t, m)
  BY DEF SelectedUpTo
<1> HIDE DEF u, m
<1>3. /\ \A i \in 1 .. m + 1 : i \in 1 .. m \/ i = m + 1
      /\ 1 .. m \subseteq 1 .. m + 1
      /\ m + 1 \in 1 .. m + 1 /\ m + 1 \notin 1 .. m
  BY <1>1
<1>4. /\ \A i \in 1 .. n + 1 : i \in 1 .. n \/ i = n + 1
      /\ 1 .. n \subseteq 1 .. n + 1 /\ n + 1 \in 1 .. n + 1
  OBVIOUS
<1>5. ASSUME NEW x
      PROVE  (\E i \in 1 .. m + 1 : u[i] = x)
               <=> (x \in S /\ \E i \in 1 .. n + 1 : s[i] = x)
  <2>1. (\E i \in 1 .. m + 1 : u[i] = x)
          <=> ((\E i \in 1 .. m : t[i] = x) \/ x = s[n + 1])
    BY <1>1, <1>3
  <2>2. (\E i \in 1 .. n + 1 : s[i] = x)
          <=> ((\E i \in 1 .. n : s[i] = x) \/ x = s[n + 1])
    BY <1>4
  <2> QED BY <1>2, <2>1, <2>2
<1>6. ASSUME NEW x \in S
      PROVE  Once(u, m + 1, x) <=> Once(s, n + 1, x)
  <2>1. Once(u, m + 1, x)
          <=> Once(t, m, x) /\ (x = s[n + 1] => ~ \E i \in 1 .. m : t[i] = x)
    BY <1>1, <1>3 DEF Once
  <2> QED BY <1>2, <2>1, OnceMore
<1>7. ASSUME Rising(s, n + 1)
      PROVE  Rising(u, m + 1)
  <2>1. Rising(s, n) /\ \A i \in 1 .. n : s[i] < s[n + 1]
    BY <1>4, <1>7 DEF Rising
  <2>2. Rising(t, m)
    BY <1>2, <2>1
  <2>3. ASSUME NEW i \in 1 .. m PROVE u[i] < u[m + 1]
    <3>1. \E h \in 1 .. n : s[h] = t[i]
      BY <1>2
    <3> QED BY <1>1, <2>1, <3>1
  <2>4. ASSUME NEW i \in 1 .. m + 1, NEW j \in 1 .. m + 1, i < j
        PROVE  u[i] < u[j]
    <3>1. i \in 1 .. m
      BY <1>1, <2>4
    <3>2. CASE j \in 1 .. m
      BY <1>1, <2>2, <2>4, <3>1, <3>2 DEF Rising
    <3>3. CASE j = m + 1
      BY <2>3, <3>1, <3>3
    <3> QED BY <1>3, <3>2, <3>3
  <2> QED BY <2>4 DEF Rising
<1>8. SelectedUpTo(u, s, S, n + 1)
  BY <1>1, <1>5, <1>6, <1>7 DEF SelectedUpTo
<1> QED BY <1>1, <1>8 DEF u

(* Leaving one more element of s out.                                      *)
LEMMA LeaveOneOut ==
  ASSUME NEW s, NEW S, NEW n \in Nat, NEW t,
         SelectedUpTo(t, s, S, n), s[n + 1] \notin S
  PROVE  SelectedUpTo(t, s, S, n + 1)
<1>1. \A i \in 1 .. n + 1 : i \in 1 .. n \/ i = n + 1
  OBVIOUS
<1>2. 1 .. n \subseteq 1 .. n + 1
  OBVIOUS
<1>3. ASSUME NEW x \in S
      PROVE  (\E i \in 1 .. n + 1 : s[i] = x) <=> (\E i \in 1 .. n : s[i] = x)
  BY <1>1, <1>2
<1>4. ASSUME NEW x \in S
      PROVE  Once(s, n + 1, x) <=> Once(s, n, x)
  BY OnceMore
<1>5. Rising(s, n + 1) => Rising(s, n)
  BY <1>2 DEF Rising
<1> QED BY <1>3, <1>4, <1>5 DEF SelectedUpTo

(* Selected(s, S) has the elements of s that are in S, more than once just *)
(* those that s has more than once, and in rising order if s rises.        *)
THEOREM SelectedProperties ==
  ASSUME NEW K, NEW s \in Seq(K), NEW S
  PROVE  Selected(s, S) \in Seq(K) /\ SelectedUpTo(Selected(s, S), s, S, Len(s))
<1> DEFINE chosen == SelectedOfPrefixes(s, S)
           N == {n \in Nat : n <= Len(s) =>
                   chosen[n] \in Seq(K) /\ SelectedUpTo(chosen[n], s, S, n)}
<1>1. \A n \in 0 .. Len(s) : chosen[n] =
         IF n = 0 THEN << >>
         ELSE IF s[n] \in S THEN Append(chosen[n - 1], s[n]) ELSE chosen[n - 1]
  BY SelectionEquation
<1> HIDE DEF chosen
<1>2. 0 \in N
  <2>1. chosen[0] = << >>
    BY <1>1
  <2>2. SelectedUpTo(<< >>, s, S, 0)
    BY DEF SelectedUpTo, Once, Rising
  <2> QED BY <2>1, <2>2, EmptySeq
<1>3. ASSUME NEW n \in Nat, n \in N PROVE n + 1 \in N
  <2> SUFFICES ASSUME n + 1 <= Len(s)
               PROVE  /\ chosen[n + 1] \in Seq(K)
                      /\ SelectedUpTo(chosen[n + 1], s, S, n + 1)
    OBVIOUS
  <2>1. chosen[n] \in Seq(K) /\ SelectedUpTo(chosen[n], s, S, n)
    BY <1>3
  <2>2. chosen[n + 1] = IF s[n + 1] \in S THEN Append(chosen[n], s[n + 1])
                                          ELSE chosen[n]
    BY <1>1
  <2>3. CASE s[n + 1] \notin S
    BY <2>1, <2>2, <2>3, LeaveOneOut
  <2>4. CASE s[n + 1] \in S
    BY <2>1, <2>2, <2>4, SelectOneMore
  <2> QED BY <2>3, <2>4
<1> HIDE DEF N
<1>4. Nat \subseteq N
  BY <1>2, <1>3, SetInduction
<1>5. Len(s) \in N
  BY <1>4
<1> QED BY <1>5 DEF N, chosen, Selected

(* The loop over the bits of a signature (identifier.hpp:69) finds those    *)
(* that are set, from the lowest up.                                       *)
LEMMA BitsInOrder ==
  ASSUME NEW W \in Nat, NEW S, S \subseteq 0 .. W - 1
  PROVE  LET l == Selected([i \in 1 .. W |-> i - 1], S)
         IN  /\ DOMAIN l = 1 .. Len(l) /\ Len(l) \in Nat
             /\ \A x : (\E i \in DOMAIN l : l[i] = x) <=> x \in S
             /\ \A i, j \in DOMAIN l : i < j => l[i] < l[j]
<1> DEFINE bits == [i \in 1 .. W |-> i - 1]
           l == Selected(bits, S)
<1>1. /\ bits \in Seq(Int)
      /\ Len(bits) = W
      /\ \A i \in 1 .. W : bits[i] = i - 1
  OBVIOUS
<1>2. /\ Rising(bits, W)
      /\ \A x \in S : x + 1 \in 1 .. W /\ bits[x + 1] = x
  <2>1. \A x \in S : x \in Int /\ x + 1 \in 1 .. W /\ (x + 1) - 1 = x
    OBVIOUS
  <2> QED BY <1>1, <2>1 DEF Rising
<1> HIDE DEF bits
<1>3. l \in Seq(Int) /\ SelectedUpTo(l, bits, S, W)
  BY <1>1, SelectedProperties
<1> HIDE DEF l
<1>4. DOMAIN l = 1 .. Len(l) /\ Len(l) \in Nat
  BY <1>3
<1>5. \A x : (\E i \in 1 .. Len(l) : l[i] = x) <=> x \in S
  BY <1>2, <1>3 DEF SelectedUpTo
<1>6. \A i, j \in 1 .. Len(l) : i < j => l[i] < l[j]
  BY <1>2, <1>3 DEF SelectedUpTo, Rising
<1> QED BY <1>4, <1>5, <1>6 DEF l, bits

(* t has the elements of s but e, and more than once just those that s has *)
(* more than once.                                                         *)
IsErased(t, s, e) ==
  /\ \A x : (\E i \in 1 .. Len(t) : t[i] = x)
             <=> (x # e /\ \E i \in 1 .. Len(s) : s[i] = x)
  /\ \A x : x # e => (Once(t, Len(t), x) <=> Once(s, Len(s), x))

(* So it is with std::erase of the keys (archetype_map.hpp:96).            *)
THEOREM EraseProperties ==
  ASSUME NEW K, NEW s \in Seq(K), NEW e
  PROVE  erase(s, e) \in Seq(K) /\ IsErased(erase(s, e), s, e)
<1> DEFINE S == {s[i] : i \in DOMAIN s} \ {e}
           t == Selected(s, S)
<1>1. \A x : x \in S <=> x # e /\ \E i \in 1 .. Len(s) : s[i] = x
  OBVIOUS
<1> HIDE DEF S
<1>2. t \in Seq(K) /\ SelectedUpTo(t, s, S, Len(s))
  BY SelectedProperties
<1> HIDE DEF t
<1>3. /\ \A x : (\E i \in 1 .. Len(t) : t[i] = x)
                  <=> (x \in S /\ \E i \in 1 .. Len(s) : s[i] = x)
      /\ \A x \in S : Once(t, Len(t), x) <=> Once(s, Len(s), x)
  BY <1>2 DEF SelectedUpTo
<1>4. ASSUME NEW x, x # e, x \notin S
      PROVE  Once(t, Len(t), x) /\ Once(s, Len(s), x)
  <2>1. ~ (\E i \in 1 .. Len(s) : s[i] = x) /\ ~ (\E i \in 1 .. Len(t) : t[i] = x)
    BY <1>1, <1>3, <1>4
  <2> QED BY <2>1 DEF Once
<1>5. IsErased(t, s, e)
  BY <1>1, <1>3, <1>4 DEF IsErased
<1> QED BY <1>2, <1>5 DEF erase, t, S

(***************************************************************************)
(* The arrays of an archetype: the storage operations return arrays again, *)
(* whose capacity is what their callers count on and which hold objects in *)
(* just the slots their callers believe, as long as no more slots are in   *)
(* use than the array has.                                                 *)
(***************************************************************************)
(* A slot may be assigned to without a change of size.                     *)
LEMMA ConstructArray ==
  ASSUME NEW V, NEW a, IsByteArray(a, V), NEW i, NEW v \in V \cup {raw}
  PROVE  /\ IsByteArray(construct(a, i, v), V)
         /\ construct(a, i, v).size = a.size
BY DEF IsByteArray, construct

(* destroy_data is an assignment of raw.                                   *)
LEMMA DestroyArray ==
  ASSUME NEW V, NEW a, IsByteArray(a, V), NEW i
  PROVE  /\ IsByteArray(destroy_data(a, i), V)
         /\ destroy_data(a, i).size = a.size
BY ConstructArray DEF destroy_data

(* resize reads only slots of the old block.                               *)
LEMMA ResizeArray ==
  ASSUME NEW V, NEW a, IsByteArray(a, V), NEW n \in Nat, n <= a.size,
         NEW newSize \in Nat
  PROVE  /\ IsByteArray(resize(a, n, newSize), V)
         /\ resize(a, n, newSize).size = newSize
BY DEF IsByteArray, resize

(* After auto_allocate there is room for one more object than entities.    *)
LEMMA AutoAllocateArray ==
  ASSUME NEW V, NEW a, IsByteArray(a, V), NEW n \in Nat, n <= a.size
  PROVE  /\ IsByteArray(auto_allocate(a, n), V)
         /\ auto_allocate(a, n).size >= n + 1
<1>1. a.size \in Nat
  BY DEF IsByteArray
<1>2. CASE needs_space(a, n)
  <2>1. 2 * a.size + 1 \in Nat /\ 2 * a.size + 1 >= n + 1
    BY <1>1
  <2> QED BY <1>2, <2>1, ResizeArray DEF auto_allocate, double_allocation
<1>3. CASE ~ needs_space(a, n)
  BY <1>1, <1>3 DEF auto_allocate, needs_space
<1> QED BY <1>2, <1>3

(* emplace_component makes room for the object it constructs.              *)
LEMMA EmplaceArray ==
  ASSUME NEW V, NEW a, IsByteArray(a, V), NEW n \in Nat, n <= a.size,
         NEW v \in V \cup {raw}
  PROVE  /\ IsByteArray(emplace_component(a, n, v), V)
         /\ emplace_component(a, n, v).size >= n + 1
BY AutoAllocateArray, ConstructArray DEF emplace_component

(* Moving the last object into a hole does not change the size.            *)
LEMMA MoveLastArray ==
  ASSUME NEW V, NEW a, IsByteArray(a, V), NEW x, NEW n \in Nat \ {0},
         n <= a.size
  PROVE  /\ IsByteArray(move_last_component(a, x, n), V)
         /\ move_last_component(a, x, n).size = a.size
<1>1. a.data[n - 1] \in V \cup {raw}
  BY DEF IsByteArray
<1> QED BY <1>1, ConstructArray, DestroyArray DEF move_last_component

(* Nor does moving an object out of the array.                             *)
LEMMA MoveOutArray ==
  ASSUME NEW V, NEW a, IsByteArray(a, V), NEW x, NEW n \in Nat \ {0},
         n <= a.size
  PROVE  /\ IsByteArray(move_out(a, x, n), V)
         /\ move_out(a, x, n).size = a.size
BY DestroyArray, MoveLastArray DEF move_out

(* auto_shrink keeps room for the entities that are still counted.         *)
LEMMA AutoShrinkArray ==
  ASSUME NEW V, NEW a, IsByteArray(a, V), NEW n \in Nat, n <= a.size
  PROVE  /\ IsByteArray(auto_shrink(a, n), V)
         /\ auto_shrink(a, n).size >= n
<1>1. a.size \in Nat
  BY DEF IsByteArray
<1> QED BY <1>1, ResizeArray DEF auto_shrink, shrink_to_fit

(* So does erasing one of them.                                            *)
LEMMA EraseArray ==
  ASSUME NEW V, NEW a, IsByteArray(a, V), NEW x, NEW n \in Nat \ {0},
         n <= a.size
  PROVE  /\ IsByteArray(erase_component(a, x, n), V)
         /\ erase_component(a, x, n).size >= n
<1>1. /\ IsByteArray(destroy_data(a, x), V)
      /\ destroy_data(a, x).size = a.size
  BY DestroyArray
<1>2. /\ IsByteArray(auto_shrink(destroy_data(a, x), n), V)
      /\ auto_shrink(destroy_data(a, x), n).size >= n
  BY <1>1, AutoShrinkArray
<1> QED BY <1>2, MoveLastArray DEF erase_component

(***************************************************************************)
(* The contents of arrays.  A slot is the one before it, or the one the    *)
(* operation is about, or raw.                                             *)
(***************************************************************************)
(* The object is constructed behind the n objects, which stay as they are, *)
(* in a new block if there was no room; what else the array has is raw if  *)
(* it was.                                                                 *)
LEMMA EmplaceContents ==
  ASSUME NEW V, NEW a, IsByteArray(a, V), NEW n \in Nat, n <= a.size,
         NEW v, NEW b, b = emplace_component(a, n, v)
  PROVE  /\ b.size \in Nat
         /\ b.size >= n + 1
         /\ b.data[n] = v
         /\ \A i \in 0 .. n - 1 : b.data[i] = a.data[i]
         /\ \A i \in n + 1 .. b.size - 1 :
              b.data[i] = raw \/ (i < a.size /\ b.data[i] = a.data[i])
<1> DEFINE c == auto_allocate(a, n)
<1>1. a.size \in Nat /\ a.data \in [0 .. a.size - 1 -> V \cup {raw}]
  BY DEF IsByteArray
<1>2. /\ IsByteArray(c, V) /\ c.size >= n + 1
      /\ c.size \in Nat /\ DOMAIN c.data = 0 .. c.size - 1
  <2>1. IsByteArray(c, V) /\ c.size >= n + 1
    BY AutoAllocateArray
  <2> HIDE DEF c
  <2> QED BY <2>1 DEF IsByteArray
<1>3. \A i \in 0 .. c.size - 1 :
        \/ i < a.size /\ c.data[i] = a.data[i]
        \/ i >= n /\ c.data[i] = raw
  <2>1. CASE needs_space(a, n)
    <3>1. c = resize(a, n, 2 * a.size + 1)
      BY <2>1 DEF auto_allocate, double_allocation
    <3> HIDE DEF c
    <3>2. /\ c.size = 2 * a.size + 1
          /\ \A i \in 0 .. c.size - 1 :
               c.data[i] = IF i < n THEN a.data[i] ELSE raw
      BY <3>1 DEF resize
    <3> QED BY <1>1, <3>2
  <2>2. CASE ~ needs_space(a, n)
    BY <1>1, <2>2 DEF auto_allocate
  <2> QED BY <2>1, <2>2
<1>4. b = [size |-> c.size, data |-> [c.data EXCEPT ![n] = v]]
  BY DEF emplace_component, construct
<1> HIDE DEF c
<1>5. b.size = c.size /\ n \in 0 .. c.size - 1
  BY <1>2, <1>4
<1>6. /\ b.data[n] = v
      /\ \A i \in 0 .. c.size - 1 : i # n => b.data[i] = c.data[i]
  BY <1>2, <1>4, <1>5
<1>7. ASSUME NEW i \in 0 .. n - 1
      PROVE  b.data[i] = a.data[i]
  <2>1. i \in 0 .. c.size - 1 /\ i # n /\ ~ (i >= n)
    BY <1>2
  <2> QED BY <1>3, <1>6, <2>1
<1>8. ASSUME NEW i \in n + 1 .. c.size - 1
      PROVE  b.data[i] = raw \/ (i < a.size /\ b.data[i] = a.data[i])
  <2>1. i \in 0 .. c.size - 1 /\ i # n
    BY <1>2
  <2> QED BY <1>3, <1>6, <2>1
<1> QED BY <1>2, <1>5, <1>6, <1>7, <1>8

(* The object of the last slot fills the hole, and its slot is raw.        *)
LEMMA MoveOutContents ==
  ASSUME NEW V, NEW a, IsByteArray(a, V), NEW n \in Nat \ {0}, n <= a.size,
         NEW x \in Nat, x < n, NEW b, b = move_out(a, x, n)
  PROVE  /\ b.size = a.size
         /\ \A i \in 0 .. a.size - 1 :
              b.data[i] = IF i = n - 1 THEN raw
                          ELSE IF i = x THEN a.data[n - 1] ELSE a.data[i]
<1> DEFINE c == destroy_data(a, x)
<1>1. /\ a.size \in Nat
      /\ DOMAIN a.data = 0 .. a.size - 1
      /\ n - 1 \in 0 .. a.size - 1 /\ x \in 0 .. a.size - 1
  BY DEF IsByteArray
<1>2. /\ c.size = a.size
      /\ DOMAIN c.data = 0 .. a.size - 1
      /\ \A i \in 0 .. a.size - 1 :
           c.data[i] = IF i = x THEN raw ELSE a.data[i]
  BY <1>1 DEF destroy_data, construct
<1>3. CASE n - 1 = x
  <2>1. b = c
    BY <1>3 DEF move_out, move_last_component
  <2> HIDE DEF c
  <2> QED BY <1>1, <1>2, <1>3, <2>1
<1>4. CASE n - 1 # x
  <2>1. b = [size |-> c.size,
             data |-> [[c.data EXCEPT ![x] = c.data[n - 1]]
                         EXCEPT ![n - 1] = raw]]
    BY <1>4 DEF move_out, move_last_component, destroy_data, construct
  <2> HIDE DEF c
  <2>2. /\ b.size = a.size
        /\ \A i \in 0 .. a.size - 1 :
             b.data[i] = IF i = n - 1 THEN raw
                         ELSE IF i = x THEN c.data[n - 1] ELSE c.data[i]
    BY <1>1, <1>2, <2>1
  <2> QED BY <1>1, <1>2, <1>4, <2>2
<1> QED BY <1>3, <1>4

(* So it does in an array that erasing has shrunk to n slots first.        *)
LEMMA EraseContents ==
  ASSUME NEW V, NEW a, IsByteArray(a, V), NEW n \in Nat \ {0}, n <= a.size,
         NEW x \in Nat, x < n, NEW b, b = erase_component(a, x, n)
  PROVE  /\ b.size = n
         /\ \A i \in 0 .. n - 1 :
              b.data[i] = IF i = n - 1 THEN raw
                          ELSE IF i = x THEN a.data[n - 1] ELSE a.data[i]
<1> DEFINE c == resize(destroy_data(a, x), n, n)
<1>1. /\ a.size \in Nat
      /\ DOMAIN a.data = 0 .. a.size - 1
      /\ n - 1 \in 0 .. n - 1 /\ x \in 0 .. n - 1
      /\ 0 .. n - 1 \subseteq 0 .. a.size - 1
  BY DEF IsByteArray
<1>2. /\ c.size = n
      /\ DOMAIN c.data = 0 .. n - 1
      /\ \A i \in 0 .. n - 1 : c.data[i] = IF i = x THEN raw ELSE a.data[i]
  BY <1>1 DEF resize, destroy_data, construct
<1>3. b = move_last_component(c, x, n)
  <2>1. destroy_data(a, x).size = a.size
    BY DEF destroy_data, construct
  <2>2. 2 * a.size > n
    BY <1>1
  <2> QED BY <2>1, <2>2
          DEF erase_component, auto_shrink, needs_shrinking, shrink_to_fit
<1> HIDE DEF c
<1>4. CASE n - 1 = x
  BY <1>1, <1>2, <1>3, <1>4 DEF move_last_component
<1>5. CASE n - 1 # x
  <2>1. b = [size |-> c.size,
             data |-> [[c.data EXCEPT ![x] = c.data[n - 1]]
                         EXCEPT ![n - 1] = raw]]
    BY <1>3, <1>5 DEF move_last_component, destroy_data, construct
  <2>2. /\ b.size = n
        /\ \A i \in 0 .. n - 1 :
             b.data[i] = IF i = n - 1 THEN raw
                         ELSE IF i = x THEN c.data[n - 1] ELSE c.data[i]
    BY <1>1, <1>2, <2>1
  <2> QED BY <1>1, <1>2, <1>5, <2>2
<1> QED BY <1>4, <1>5

(* Objects live in exactly the first n slots of the array a.               *)
Exact(a, n) ==
  \A i \in 0 .. a.size - 1 : a.data[i] # raw <=> i < n

(* Constructing one more object.                                           *)
LEMMA EmplaceExact ==
  ASSUME NEW V, NEW a, IsByteArray(a, V), NEW n \in Nat, n <= a.size,
         NEW v, v # raw, Exact(a, n)
  PROVE  Exact(emplace_component(a, n, v), n + 1)
<1> DEFINE b == emplace_component(a, n, v)
<1>1. a.size \in Nat
  BY DEF IsByteArray
<1>2. /\ b.size \in Nat
      /\ b.size >= n + 1
      /\ b.data[n] = v
      /\ \A i \in 0 .. n - 1 : b.data[i] = a.data[i]
      /\ \A i \in n + 1 .. b.size - 1 :
           b.data[i] = raw \/ (i < a.size /\ b.data[i] = a.data[i])
  BY EmplaceContents
<1> HIDE DEF b
<1> SUFFICES ASSUME NEW i \in 0 .. b.size - 1
             PROVE  b.data[i] # raw <=> i < n + 1
  BY DEF Exact, b
<1>3. CASE i \in 0 .. n - 1
  <2>1. i \in 0 .. a.size - 1 /\ i < n /\ i < n + 1
    BY <1>1, <1>3
  <2> QED BY <1>2, <1>3, <2>1 DEF Exact
<1>4. CASE i = n
  BY <1>2, <1>4
<1>5. CASE i \in n + 1 .. b.size - 1
  <2>1. ~ (i < n) /\ ~ (i < n + 1) /\ (i < a.size => i \in 0 .. a.size - 1)
    BY <1>1, <1>5
  <2> QED BY <1>2, <1>5, <2>1 DEF Exact
<1>6. i \in 0 .. n - 1 \/ i = n \/ i \in n + 1 .. b.size - 1
  BY <1>2
<1> QED BY <1>3, <1>4, <1>5, <1>6

(* Moving one out.                                                         *)
LEMMA MoveOutExact ==
  ASSUME NEW V, NEW a, IsByteArray(a, V), NEW n \in Nat \ {0}, n <= a.size,
         NEW x \in Nat, x < n, Exact(a, n)
  PROVE  Exact(move_out(a, x, n), n - 1)
<1> DEFINE b == move_out(a, x, n)
<1>1. a.size \in Nat
  BY DEF IsByteArray
<1>2. /\ b.size = a.size
      /\ \A i \in 0 .. a.size - 1 :
           b.data[i] = IF i = n - 1 THEN raw
                       ELSE IF i = x THEN a.data[n - 1] ELSE a.data[i]
  BY MoveOutContents
<1> HIDE DEF b
<1>3. n - 1 \in 0 .. a.size - 1 /\ n - 1 < n
  BY <1>1
<1>4. ASSUME NEW i \in 0 .. a.size - 1
      PROVE  b.data[i] # raw <=> i < n - 1
  <2>1. i < n - 1 <=> i < n /\ i # n - 1
    BY <1>1
  <2> QED BY <1>2, <1>3, <2>1 DEF Exact
<1> QED BY <1>2, <1>4 DEF Exact, b

(* Erasing one.                                                            *)
LEMMA EraseExact ==
  ASSUME NEW V, NEW a, IsByteArray(a, V), NEW n \in Nat \ {0}, n <= a.size,
         NEW x \in Nat, x < n, Exact(a, n)
  PROVE  Exact(erase_component(a, x, n), n - 1)
<1> DEFINE b == erase_component(a, x, n)
<1>1. a.size \in Nat
  BY DEF IsByteArray
<1>2. /\ b.size = n
      /\ \A i \in 0 .. n - 1 :
           b.data[i] = IF i = n - 1 THEN raw
                       ELSE IF i = x THEN a.data[n - 1] ELSE a.data[i]
  BY EraseContents
<1> HIDE DEF b
<1>3. n - 1 \in 0 .. a.size - 1 /\ n - 1 < n
  BY <1>1
<1>4. ASSUME NEW i \in 0 .. n - 1
      PROVE  b.data[i] # raw <=> i < n - 1
  <2>1. /\ i < n - 1 <=> i < n /\ i # n - 1
        /\ i \in 0 .. a.size - 1 /\ i < n
    BY <1>1
  <2> QED BY <1>2, <1>3, <2>1 DEF Exact
<1> QED BY <1>2, <1>4 DEF Exact, b

(* Assigning to an object, which a component's own assignment does.        *)
LEMMA AssignExact ==
  ASSUME NEW V, NEW a, IsByteArray(a, V), NEW n \in Nat, n <= a.size,
         NEW x \in Nat, x < n, NEW v, v # raw, Exact(a, n)
  PROVE  Exact(construct(a, x, v), n)
<1>1. /\ a.size \in Nat /\ DOMAIN a.data = 0 .. a.size - 1
  BY DEF IsByteArray
<1> QED BY <1>1 DEF construct, Exact

===============================================================================

------------------------- MODULE ViewIteratorsProofs -------------------------
(***************************************************************************)
(* For any archetypes, any number of iterator objects and any order of     *)
(* copies and increments: which iterators read where they stand, and how   *)
(* their indices add up.                                                   *)
(***************************************************************************)
EXTENDS ViewIterators, StorageProofs

(***************************************************************************)
(* The inductive invariant.  Every iterator carries the view of the        *)
(* archetype it stands on, whichever object's view it reads.               *)
(***************************************************************************)
PathViews == {walk.path[p] : p \in Int}

Iterators ==
  [pos : Int, view : PathViews \cup {0}, index : Int,
   owner : Objects \cup {0}, steps : Int]

InPlace(it) ==
  /\ it.owner \in Objects
  /\ ~ Past(it) => it.view = walk.path[it.pos]

IteratorsInv ==
  /\ its \in [Objects -> Iterators]
  /\ \A n \in Objects : Alive(n) => InPlace(its[n])

(***************************************************************************)
(* Increments.                                                             *)
(***************************************************************************)
(* An iterator that enters an archetype carries its view (view.hpp:171).   *)
LEMMA EnteredInPlace ==
  ASSUME NEW n \in Objects, NEW pos \in Int, NEW steps \in Int
  PROVE  Entered(n, pos, steps) \in Iterators /\ InPlace(Entered(n, pos, steps))
BY DEF Entered, view_begin, Iterators, PathViews, InPlace

(* An increment keeps the view while it stays in the archetype.            *)
LEMMA AdvanceInPlace ==
  ASSUME NEW n \in Objects, NEW it \in Iterators, InPlace(it), ~ Past(it)
  PROVE  /\ Advance(n, it) \in Iterators /\ InPlace(Advance(n, it))
         /\ Advance(n, it).pos = it.pos => Advance(n, it).view = it.view
<1> DEFINE step == [it EXCEPT !.index = incremented(@), !.steps = @ + 1]
<1>1. /\ step \in Iterators /\ step.pos = it.pos /\ step.view = it.view
      /\ step.owner = it.owner
  <2> DEFINE moved == [it EXCEPT !.index = incremented(@)]
  <2>1. /\ moved \in Iterators /\ moved.pos = it.pos /\ moved.view = it.view
        /\ moved.owner = it.owner /\ moved.steps = it.steps
    BY DEF Iterators, incremented
  <2>2. step = [moved EXCEPT !.steps = @ + 1]
    OBVIOUS
  <2> HIDE DEF moved, step
  <2> QED BY <2>1, <2>2 DEF Iterators
<1>2. InPlace(step)
  BY <1>1 DEF InPlace, Past
<1>3. CASE step.index # view_end(walk.path[it.pos])
  BY <1>1, <1>2, <1>3 DEF Advance
<1>4. CASE step.index = view_end(walk.path[it.pos]) /\ it.pos = Len(walk.path)
  <2> DEFINE over == [step EXCEPT !.pos = @ + 1]
  <2> HIDE DEF step
  <2>1. /\ over \in Iterators /\ over.pos = it.pos + 1
        /\ over.owner = it.owner /\ it.pos \in Int
    BY <1>1 DEF Iterators
  <2>2. InPlace(over)
    BY <1>4, <2>1 DEF InPlace, Past
  <2>3. Advance(n, it) = over
    BY <1>4 DEF Advance, step
  <2> QED BY <2>1, <2>2, <2>3
<1>5. CASE step.index = view_end(walk.path[it.pos]) /\ it.pos # Len(walk.path)
  <2>1. Advance(n, it) = Entered(n, it.pos + 1, step.steps)
    BY <1>5 DEF Advance
  <2>2. it.pos + 1 \in Int /\ it.pos + 1 # it.pos /\ step.steps \in Int
    BY <1>1 DEF Iterators
  <2>3. Entered(n, it.pos + 1, step.steps).pos = it.pos + 1
    BY DEF Entered
  <2> QED BY <2>1, <2>2, <2>3, EnteredInPlace
<1> QED BY <1>3, <1>4, <1>5

(***************************************************************************)
(* Steps.                                                                  *)
(***************************************************************************)
(* No step on iterators changes the walk or its archetypes.                *)
LEMMA WalkStays ==
  ASSUME [Next]_vars
  PROVE  walk' = walk /\ archs' = archs
BY DEF Next, Begin, Increment, Copy, PostIncrement, Destroy, vars

(* Every step keeps iterators at their places.                             *)
LEMMA StepKeepsPlaces ==
  ASSUME IteratorsInv, [Next]_vars
  PROVE  IteratorsInv'
<1>1. Iterators' = Iterators /\ \A it : InPlace(it)' <=> InPlace(it)
  BY WalkStays DEF Iterators, PathViews, InPlace, Past
<1>2. gone \in Iterators
  BY DEF gone, Iterators
<1>3. ASSUME NEW n \in Objects, NEW it \in Iterators, it = gone \/ InPlace(it),
             its' = [its EXCEPT ![n] = it]
      PROVE  IteratorsInv'
  BY <1>1, <1>3, WalkStays DEF IteratorsInv, Alive, InPlace, Past
<1>4. ASSUME NEW n \in Objects, Begin(n)
      PROVE  IteratorsInv'
  <2>1. Entered(n, 1, 0) \in Iterators /\ InPlace(Entered(n, 1, 0))
    BY EnteredInPlace
  <2> QED BY <1>3, <1>4, <2>1 DEF Begin
<1>5. ASSUME NEW n \in Objects, Increment(n)
      PROVE  IteratorsInv'
  <2>1. /\ its[n] \in Iterators /\ InPlace(its[n]) /\ ~ Past(its[n])
        /\ its' = [its EXCEPT ![n] = Advance(n, its[n])]
    BY <1>5 DEF Increment, IteratorsInv
  <2> QED BY <1>3, <2>1, AdvanceInPlace
<1>6. ASSUME NEW n \in Objects, NEW m \in Objects, Copy(n, m)
      PROVE  IteratorsInv'
  BY <1>3, <1>6 DEF Copy, IteratorsInv
<1>7. ASSUME NEW n \in Objects, NEW m \in Objects, PostIncrement(n, m)
      PROVE  IteratorsInv'
  <2>1. /\ its[n] \in Iterators /\ InPlace(its[n]) /\ ~ Past(its[n])
        /\ its' = [its EXCEPT ![n] = Advance(n, its[n]), ![m] = its[n]]
    BY <1>7 DEF PostIncrement, IteratorsInv
  <2>2. Advance(n, its[n]) \in Iterators /\ InPlace(Advance(n, its[n]))
    BY <2>1, AdvanceInPlace
  <2> QED BY <1>1, <2>1, <2>2, WalkStays DEF IteratorsInv, Alive, InPlace, Past
<1>8. ASSUME NEW n \in Objects, Destroy(n)
      PROVE  IteratorsInv'
  BY <1>2, <1>3, <1>8 DEF Destroy
<1>9. CASE UNCHANGED vars
  BY <1>1, <1>9 DEF vars, IteratorsInv, Alive, InPlace, Past
<1> QED BY <1>4, <1>5, <1>6, <1>7, <1>8, <1>9 DEF Next

(* No iterator is anywhere else at first.                                  *)
LEMMA InitPlaces ==
  ASSUME Init
  PROVE  IteratorsInv
<1>1. gone \in Iterators
  BY DEF gone, Iterators
<1> QED BY <1>1 DEF Init, IteratorsInv, Alive

(* A copy made by postfix ++ reads what the original read: its owner's view *)
(* moves on only with the owner.                                            *)
LEMMA PostfixStep ==
  ASSUME IteratorsInv, NEW n \in Objects, NEW m \in Objects,
         PostIncrement(n, m), Alive(its[n].owner), its'[n].pos = its[n].pos
  PROVE  Reads(m)' = Reads(n)
<1> DEFINE o == its[n].owner
<1>1. /\ its[n] \in Iterators /\ InPlace(its[n]) /\ ~ Past(its[n]) /\ n # m
      /\ its' = [its EXCEPT ![n] = Advance(n, its[n]), ![m] = its[n]]
      /\ walk' = walk /\ walk.kind = "get"
  BY DEF PostIncrement, IteratorsInv
<1>2. o \in Objects /\ o # m
  BY <1>1 DEF InPlace, PostIncrement
<1>3. its'[m] = its[n]
  BY <1>1 DEF IteratorsInv
<1>4. its'[o].view = its[o].view
  <2>1. CASE o = n
    <3>1. its'[n] = Advance(n, its[n])
      BY <1>1 DEF IteratorsInv
    <3> QED BY <1>1, <2>1, <3>1, AdvanceInPlace
  <2>2. CASE o # n
    BY <1>1, <1>2, <2>2 DEF IteratorsInv
  <2> QED BY <2>1, <2>2
<1> QED BY <1>1, <1>3, <1>4 DEF Reads

(***************************************************************************)
(* Theorems.                                                               *)
(***************************************************************************)
(* The inductive invariant of the iterators of view.hpp:169 and :258.       *)
THEOREM IteratorsInvariant == Spec => []IteratorsInv
<1>1. Init => IteratorsInv
  BY InitPlaces
<1>2. IteratorsInv /\ [Next]_vars => IteratorsInv'
  BY StepKeepsPlaces
<1> QED BY <1>1, <1>2, PTL DEF Spec

(* Copies cannot disturb the iterator they were made of (view.hpp:226), and *)
(* in a multi view they are as good as it.                                  *)
THEOREM OwnersAreTrue == Spec => []OwnersReadTrue
<1>1. IteratorsInv => OwnersReadTrue
  BY DEF IteratorsInv, OwnersReadTrue, Dereferenceable, InPlace, Reads, Stands
<1> QED BY <1>1, IteratorsInvariant, PTL

(* Jumps, differences and comparisons of indices agree (view.hpp:44 to 106), *)
(* whatever indices the iterators of a walk have.                            *)
THEOREM ArithmeticIsConsistent == Spec => []IndicesAgree
<1>1. ASSUME NEW a \in Int, NEW b \in Int, NEW n \in Int
      PROVE  ArithmeticAgrees(a, b, n)
  BY DEF ArithmeticAgrees, plus, minus, difference, less
<1>2. IteratorsInv => IndicesAgree
  BY <1>1 DEF IteratorsInv, Iterators, IndicesAgree
<1> QED BY <1>2, IteratorsInvariant, PTL

(* Postfix ++ (view.hpp:202) hands back the old reading unless it leaves the *)
(* archetype or the object whose view is read is gone.                       *)
THEOREM PostfixIsRight == Spec => PostfixReadsOld
<1>1. IteratorsInv /\ [Next]_vars =>
        [\A n, m \in Objects :
           PostIncrement(n, m) /\ Alive(its[n].owner) /\ its'[n].pos = its[n].pos
             => Reads(m)' = Reads(n)]_vars
  BY PostfixStep
<1> QED BY <1>1, IteratorsInvariant, PTL DEF Spec, PostfixReadsOld

-------------------------------------------------------------------------------
(***************************************************************************)
(* Counting.  An iterator that has been incremented k times has the k      *)
(* first entities of its path before it.                                   *)
(***************************************************************************)
Archs == [ids : SUBSET Components, chunk : Chunks, entities : Nat \ {0}]

(* The path is one through the archetypes.                                 *)
PathIsReal == archs \in Seq(Archs) /\ walk.path \in Seq(DOMAIN archs)

(* The iterator is on an archetype of the path, or past the last one, and  *)
(* has counted the entities before it.                                     *)
Counted(it) ==
  /\ it.pos \in 1 .. Len(walk.path) + 1
  /\ it.view \in DOMAIN archs
  /\ it.index \in 0 .. view_end(it.view)
  /\ it.owner \in Objects
  /\ IF Past(it) THEN it.steps = EntitiesBefore[it.pos]
     ELSE /\ it.view = walk.path[it.pos]
          /\ it.index < view_end(it.view)
          /\ it.steps = EntitiesBefore[it.pos] + it.index

CountInv == PathIsReal /\ \A n \in Objects : Alive(n) => Counted(its[n])

(* Archetypes have entities.                                               *)
LEMMA ViewEndFacts ==
  ASSUME PathIsReal
  PROVE  /\ Len(walk.path) \in Nat
         /\ \A a \in DOMAIN archs : view_end(a) \in Nat \ {0}
         /\ \A p \in 1 .. Len(walk.path) : walk.path[p] \in DOMAIN archs
<1>1. \A a \in DOMAIN archs : archs[a] \in Archs
  BY DEF PathIsReal
<1> QED BY <1>1 DEF PathIsReal, Archs, view_end

(* g is the function that EntitiesBefore defines, up to position m + 1.    *)
IsBefore(g, m) ==
  g = [p \in 1 .. m + 1 |->
         IF p = 1 THEN 0 ELSE g[p - 1] + view_end(walk.path[p - 1])]

(* The recursion of EntitiesBefore has a solution.                         *)
LEMMA BeforeExists == \A m \in Nat : \E g : IsBefore(g, m)
<1> DEFINE N == {m \in Nat : \E g : IsBefore(g, m)}
<1>1. 0 \in N
  <2> DEFINE g == [p \in 1 .. 0 + 1 |-> 0]
  <2>1. IsBefore(g, 0)
    BY DEF IsBefore
  <2> QED BY <2>1
<1>2. ASSUME NEW m \in Nat, m \in N PROVE m + 1 \in N
  <2>1. PICK g : IsBefore(g, m)
    BY <1>2
  <2> DEFINE h == [p \in 1 .. (m + 1) + 1 |->
                     IF p <= m + 1 THEN g[p]
                     ELSE g[m + 1] + view_end(walk.path[m + 1])]
  <2>2. \A p \in 1 .. m + 1 : h[p] = g[p]
    OBVIOUS
  <2>3. \A p \in 1 .. m + 1 : g[p] =
          IF p = 1 THEN 0 ELSE g[p - 1] + view_end(walk.path[p - 1])
    BY <2>1 DEF IsBefore
  <2>4. ASSUME NEW p \in 1 .. (m + 1) + 1
        PROVE  h[p] = IF p = 1 THEN 0
                      ELSE h[p - 1] + view_end(walk.path[p - 1])
    <3>1. CASE p \in 1 .. m + 1
      <4>1. p # 1 => p - 1 \in 1 .. m + 1
        BY <3>1
      <4> QED BY <3>1, <4>1, <2>2, <2>3
    <3>2. CASE p = (m + 1) + 1
      <4>1. p # 1 /\ p - 1 = m + 1 /\ ~ (p <= m + 1) /\ m + 1 \in 1 .. m + 1
        BY <3>2
      <4>2. h[p] = g[m + 1] + view_end(walk.path[m + 1])
        BY <4>1
      <4> QED BY <2>2, <4>1, <4>2
    <3> QED BY <3>1, <3>2
  <2>5. IsBefore(h, m + 1)
    BY <2>4 DEF IsBefore
  <2> QED BY <2>5
<1> HIDE DEF N
<1>3. Nat \subseteq N
  BY <1>1, <1>2, SetInduction
<1> QED BY <1>3 DEF N

(* The recursion of EntitiesBefore, as equations.                          *)
LEMMA BeforeEquations ==
  ASSUME PathIsReal
  PROVE  /\ EntitiesBefore[1] = 0
         /\ \A p \in 1 .. Len(walk.path) :
              EntitiesBefore[p + 1] = EntitiesBefore[p] + view_end(walk.path[p])
         /\ \A p \in 1 .. Len(walk.path) + 1 : EntitiesBefore[p] \in Nat
<1> DEFINE L == Len(walk.path)
<1>1. L \in Nat /\ \A p \in 1 .. L : view_end(walk.path[p]) \in Nat
  BY ViewEndFacts
<1>2. IsBefore(EntitiesBefore, L)
  <2>1. \E g : IsBefore(g, L)
    BY <1>1, BeforeExists
  <2> QED BY <2>1 DEF IsBefore, EntitiesBefore
<1> HIDE DEF L
<1>3. \A p \in 1 .. L + 1 : EntitiesBefore[p] =
        IF p = 1 THEN 0 ELSE EntitiesBefore[p - 1] + view_end(walk.path[p - 1])
  BY <1>2 DEF IsBefore
<1>4. EntitiesBefore[1] = 0
  <2>1. 1 \in 1 .. L + 1
    BY <1>1
  <2> QED BY <1>3, <2>1
<1>5. ASSUME NEW p \in 1 .. L
      PROVE  EntitiesBefore[p + 1] = EntitiesBefore[p] + view_end(walk.path[p])
  <2>1. p + 1 \in 1 .. L + 1 /\ p + 1 # 1 /\ (p + 1) - 1 = p
    BY <1>1
  <2> QED BY <1>3, <2>1
<1> DEFINE N == {m \in Nat : m <= L => EntitiesBefore[m + 1] \in Nat}
<1>6. 0 \in N
  BY <1>4
<1>7. ASSUME NEW m \in Nat, m \in N PROVE m + 1 \in N
  <2> SUFFICES ASSUME m + 1 <= L PROVE EntitiesBefore[(m + 1) + 1] \in Nat
    OBVIOUS
  <2>1. m + 1 \in 1 .. L /\ EntitiesBefore[m + 1] \in Nat
    BY <1>1, <1>7
  <2> QED BY <1>1, <1>5, <2>1
<1> HIDE DEF N
<1>8. Nat \subseteq N
  BY <1>6, <1>7, SetInduction
<1>9. ASSUME NEW p \in 1 .. L + 1 PROVE EntitiesBefore[p] \in Nat
  <2>1. p - 1 \in Nat /\ p - 1 <= L /\ (p - 1) + 1 = p
    BY <1>1
  <2>2. p - 1 \in N
    BY <1>8, <2>1
  <2> QED BY <2>1, <2>2 DEF N
<1> QED BY <1>4, <1>5, <1>9 DEF L

(* At first the path is made of positions of archetypes.                   *)
LEMMA InitPath == Init => PathIsReal
<1> SUFFICES ASSUME Init PROVE PathIsReal
  OBVIOUS
<1>1. archs \in Seq(Archs)
  BY IteratorsAssumption DEF Init, Archs
<1>2. PICK kind, ids, chunk : walk.path = Path(kind, ids, chunk)
  BY DEF Init
<1>3. [p \in DOMAIN archs |-> p] \in Seq(DOMAIN archs)
  <2>1. DOMAIN archs = 1 .. Len(archs) /\ Len(archs) \in Nat
    BY <1>1
  <2> QED BY <2>1
<1>4. \A S : Selected([p \in DOMAIN archs |-> p], S) \in Seq(DOMAIN archs)
  BY <1>3, SelectedProperties
<1>5. walk.path \in Seq(DOMAIN archs)
  BY <1>2, <1>4 DEF Path
<1> QED BY <1>1, <1>5 DEF PathIsReal

(* An iterator that enters an archetype has all entities of it ahead.      *)
LEMMA EnteredCounts ==
  ASSUME PathIsReal, NEW n \in Objects, NEW pos \in 1 .. Len(walk.path),
         NEW steps, steps = EntitiesBefore[pos]
  PROVE  Counted(Entered(n, pos, steps))
<1> DEFINE it == Entered(n, pos, steps)
<1>1. /\ it.pos = pos /\ it.view = walk.path[pos] /\ it.index = 0
      /\ it.owner = n /\ it.steps = steps
  BY DEF Entered, view_begin
<1>2. /\ Len(walk.path) \in Nat
      /\ walk.path[pos] \in DOMAIN archs
      /\ view_end(walk.path[pos]) \in Nat \ {0}
      /\ EntitiesBefore[pos] \in Nat
  <2>1. pos \in 1 .. Len(walk.path) + 1
    BY ViewEndFacts
  <2> QED BY <2>1, ViewEndFacts, BeforeEquations
<1> HIDE DEF it
<1>3. ~ Past(it)
  BY <1>1, <1>2 DEF Past
<1> QED BY <1>1, <1>2, <1>3 DEF Counted, it

(* An increment leaves one more entity behind.                             *)
LEMMA AdvanceCounts ==
  ASSUME PathIsReal, NEW n \in Objects, NEW it \in Iterators, Counted(it),
         ~ Past(it)
  PROVE  Counted(Advance(n, it))
<1> DEFINE step == [it EXCEPT !.index = incremented(@), !.steps = @ + 1]
           L == Len(walk.path)
<1>1. /\ step.pos = it.pos /\ step.view = it.view /\ step.owner = it.owner
      /\ step.index = it.index + 1 /\ step.steps = it.steps + 1
      /\ DOMAIN step = DOMAIN it
  BY DEF Iterators, incremented
<1>2. /\ L \in Nat /\ it.pos \in 1 .. L /\ it.view = walk.path[it.pos]
      /\ it.view \in DOMAIN archs /\ it.owner \in Objects
      /\ it.index \in Nat /\ it.index < view_end(it.view)
      /\ view_end(it.view) \in Nat
      /\ it.steps = EntitiesBefore[it.pos] + it.index
  <2>1. /\ it.view = walk.path[it.pos] /\ it.view \in DOMAIN archs
        /\ it.owner \in Objects /\ it.pos \in 1 .. L + 1
        /\ it.index \in 0 .. view_end(it.view) /\ it.index < view_end(it.view)
        /\ it.steps = EntitiesBefore[it.pos] + it.index
    BY DEF Counted
  <2>2. L \in Nat /\ view_end(it.view) \in Nat
    BY <2>1, ViewEndFacts
  <2>3. it.pos \in 1 .. L
    BY <2>1, <2>2 DEF Past
  <2> QED BY <2>1, <2>2, <2>3
<1>3. /\ EntitiesBefore[it.pos] \in Nat
      /\ EntitiesBefore[it.pos + 1] = EntitiesBefore[it.pos] + view_end(it.view)
  <2>1. it.pos \in 1 .. L + 1
    BY <1>2
  <2> QED BY <1>2, <2>1, BeforeEquations
<1>4. CASE step.index # view_end(walk.path[it.pos])
  <2>1. Advance(n, it) = step
    BY <1>4 DEF Advance
  <2>2. /\ step.index \in 0 .. view_end(step.view)
        /\ step.index < view_end(step.view)
        /\ step.steps = EntitiesBefore[step.pos] + step.index
        /\ step.pos \in 1 .. L + 1
    <3>1. it.index + 1 # view_end(it.view)
      BY <1>1, <1>2, <1>4
    <3> HIDE DEF step, L
    <3> QED BY <1>1, <1>2, <1>3, <3>1
  <2>3. ~ Past(step)
    BY <1>1, <1>2 DEF Past
  <2>4. Counted(step)
    <3>1. view_end(step.view) = view_end(it.view)
      BY <1>1
    <3> HIDE DEF step
    <3> QED BY <1>1, <1>2, <2>2, <2>3, <3>1 DEF Counted
  <2> QED BY <2>1, <2>4
<1>5. CASE step.index = view_end(walk.path[it.pos])
  <2>1. step.steps = EntitiesBefore[it.pos + 1]
    BY <1>1, <1>2, <1>3, <1>5
  <2>2. CASE it.pos = L
    <3> DEFINE over == [step EXCEPT !.pos = @ + 1]
    <3>1. Advance(n, it) = over
      BY <1>5, <2>2 DEF Advance
    <3>2. "pos" \in DOMAIN step
      BY <1>1 DEF Iterators
    <3> HIDE DEF step
    <3>3. /\ over.pos = it.pos + 1 /\ over.view = it.view
          /\ over.owner = it.owner /\ over.index = view_end(it.view)
          /\ over.steps = EntitiesBefore[it.pos + 1]
      BY <1>1, <1>2, <1>5, <2>1, <3>2
    <3> HIDE DEF over
    <3>4. Past(over) /\ over.pos \in 1 .. L + 1
      BY <1>2, <2>2, <3>3 DEF Past
    <3>5. over.index \in 0 .. view_end(over.view)
      BY <1>2, <3>3
    <3>6. Counted(over)
      BY <1>2, <3>3, <3>4, <3>5 DEF Counted
    <3> QED BY <3>1, <3>6
  <2>3. CASE it.pos # L
    <3>1. Advance(n, it) = Entered(n, it.pos + 1, step.steps)
      BY <1>5, <2>3 DEF Advance
    <3>2. it.pos + 1 \in 1 .. L
      BY <1>2, <2>3
    <3> HIDE DEF step
    <3> QED BY <2>1, <3>1, <3>2, EnteredCounts
  <2> QED BY <2>2, <2>3
<1> QED BY <1>4, <1>5

(* Every step keeps the counts.                                            *)
LEMMA StepCounts ==
  ASSUME IteratorsInv, CountInv, [Next]_vars
  PROVE  CountInv'
<1>1. /\ PathIsReal /\ PathIsReal'
      /\ \A it : Counted(it) => Counted(it)'
  <2>1. walk' = walk /\ archs' = archs
    BY WalkStays
  <2>2. EntitiesBefore' = EntitiesBefore
    BY <2>1 DEF EntitiesBefore, view_end
  <2>3. \A it : Past(it)' <=> Past(it)
    BY <2>1 DEF Past
  <2>4. \A a : view_end(a)' = view_end(a)
    BY <2>1 DEF view_end
  <2>5. \A it : Counted(it) => Counted(it)'
    BY <2>1, <2>2, <2>3, <2>4 DEF Counted
  <2> QED BY <2>1, <2>5 DEF CountInv, PathIsReal
<1>2. /\ its \in [Objects -> Iterators]
      /\ \A n \in Objects : its[n] = gone \/ Counted(its[n])
  BY DEF IteratorsInv, CountInv, Alive
<1>3. ASSUME \A k \in Objects : its'[k] = gone \/ Counted(its'[k])
      PROVE  CountInv'
  BY <1>1, <1>3 DEF CountInv, Alive
<1>4. ASSUME NEW n \in Objects, NEW it, it = gone \/ Counted(it),
             its' = [its EXCEPT ![n] = it]
      PROVE  CountInv'
  BY <1>2, <1>3, <1>4
<1>5. ASSUME NEW n \in Objects, Begin(n)
      PROVE  CountInv'
  <2>1. 1 \in 1 .. Len(walk.path)
    BY <1>1, <1>5 DEF Begin, PathIsReal
  <2>2. Counted(Entered(n, 1, 0))
    BY <1>1, <2>1, BeforeEquations, EnteredCounts
  <2> QED BY <1>4, <1>5, <2>2 DEF Begin
<1>6. ASSUME NEW n \in Objects, Alive(n), ~ Past(its[n])
      PROVE  Counted(its[n]) /\ Counted(Advance(n, its[n]))
  BY <1>1, <1>2, <1>6, AdvanceCounts DEF Alive
<1>7. ASSUME NEW n \in Objects, Increment(n)
      PROVE  CountInv'
  BY <1>4, <1>6, <1>7 DEF Increment
<1>8. ASSUME NEW n \in Objects, NEW m \in Objects, Copy(n, m)
      PROVE  CountInv'
  BY <1>2, <1>4, <1>8 DEF Copy
<1>9. ASSUME NEW n \in Objects, NEW m \in Objects, PostIncrement(n, m)
      PROVE  CountInv'
  <2>1. /\ Counted(its[n]) /\ Counted(Advance(n, its[n]))
        /\ its' = [its EXCEPT ![n] = Advance(n, its[n]), ![m] = its[n]]
    BY <1>6, <1>9 DEF PostIncrement
  <2> QED BY <1>2, <1>3, <2>1
<1>10. ASSUME NEW n \in Objects, Destroy(n)
       PROVE  CountInv'
  BY <1>4, <1>10 DEF Destroy
<1>11. CASE UNCHANGED vars
  BY <1>2, <1>3, <1>11 DEF vars
<1> QED BY <1>5, <1>7, <1>8, <1>9, <1>10, <1>11 DEF Next

(* So counts are right in every state.                                     *)
LEMMA CountInvariant == Spec => []CountInv
<1>1. Init => CountInv
  BY InitPath DEF Init, CountInv, Alive
<1>2. IteratorsInv /\ CountInv /\ [Next]_vars => CountInv'
  BY StepCounts
<1> QED BY <1>1, <1>2, IteratorsInvariant, PTL DEF Spec

(* Positions, views and indices of iterators stay within the walk and its   *)
(* archetypes: no increment (view.hpp:187 and :279) leaves the range.       *)
THEOREM IteratorsAreTyped == Spec => []IteratorsTypeOK
<1>1. CountInv => IteratorsTypeOK
  BY DEF CountInv, Counted, IteratorsTypeOK
<1> QED BY <1>1, CountInvariant, PTL

(* A walk over any archetypes stands on each of their entities once and in  *)
(* order, before it is past the end, whatever is copied on the way: the     *)
(* increments add up to the entities behind the iterator (view.hpp:187).    *)
THEOREM EntitiesAreCounted == Spec => []StepsCountEntities
<1>1. CountInv => StepsCountEntities
  BY DEF CountInv, Counted, StepsCountEntities
<1> QED BY <1>1, CountInvariant, PTL

-------------------------------------------------------------------------------
(***************************************************************************)
(* The archetypes that a view takes.                                       *)
(***************************************************************************)
(* All ids that are met are ids of the archetype.                          *)
LEMMA IncludedIds ==
  ASSUME NEW ids \in SUBSET Components, NEW wanted,
         includes(SortedIds(ids), wanted)
  PROVE  Wanted(wanted) \subseteq ids
<1> DEFINE r == SortedIds(ids)
<1>1. \A i \in DOMAIN r : r[i] \in ids
  BY IteratorsAssumption, BitsInOrder DEF SortedIds
<1> HIDE DEF r
<1>2. PICK at \in [DOMAIN wanted -> DOMAIN r] :
        \A i \in DOMAIN wanted : r[at[i]] = wanted[i]
  BY DEF includes, r
<1> QED BY <1>1, <1>2 DEF Wanted

(* A list in rising order meets its ids in an archetype that has them all. *)
LEMMA RisingIdsAreMet ==
  ASSUME NEW ids \in SUBSET Components, NEW wanted \in Seq(Nat),
         Wanted(wanted) \subseteq ids,
         \A i, j \in DOMAIN wanted : i < j => wanted[i] < wanted[j]
  PROVE  includes(SortedIds(ids), wanted)
<1> DEFINE r == SortedIds(ids)
<1>1. /\ DOMAIN r = 1 .. Len(r) /\ Len(r) \in Nat
      /\ \A x : (\E i \in DOMAIN r : r[i] = x) <=> x \in ids
      /\ \A i, j \in DOMAIN r : i < j => r[i] < r[j]
  BY IteratorsAssumption, BitsInOrder DEF SortedIds
<1> HIDE DEF r
<1> DEFINE at == [i \in DOMAIN wanted |-> CHOOSE j \in DOMAIN r : r[j] = wanted[i]]
<1>2. \A i \in DOMAIN wanted : at[i] \in DOMAIN r /\ r[at[i]] = wanted[i]
  <2>1. \A i \in DOMAIN wanted : \E j \in DOMAIN r : r[j] = wanted[i]
    BY <1>1 DEF Wanted
  <2> QED BY <2>1
<1>3. DOMAIN at = DOMAIN wanted
  OBVIOUS
<1> HIDE DEF at
<1>4. ASSUME NEW i \in DOMAIN wanted, NEW j \in DOMAIN wanted, i < j
      PROVE  at[i] < at[j]
  <2>1. wanted[i] < wanted[j] /\ wanted[i] \in Nat /\ wanted[j] \in Nat
    BY <1>4
  <2>2. at[i] \in 1 .. Len(r) /\ at[j] \in 1 .. Len(r)
    BY <1>1, <1>2
  <2>3. CASE at[j] = at[i]
    BY <1>2, <2>1, <2>3
  <2>4. CASE at[j] < at[i]
    <3>1. wanted[j] < wanted[i]
      BY <1>1, <1>2, <2>4
    <3> QED BY <2>1, <3>1
  <2> QED BY <1>1, <2>2, <2>3, <2>4
<1>5. at \in [DOMAIN wanted -> DOMAIN r]
  BY <1>2 DEF at
<1> QED BY <1>2, <1>4, <1>5 DEF includes, r

(* A multi view of all archetypes (view.hpp:342) takes those that match.   *)
LEMMA InitTakesMatching == Init => TakesMatching
<1> SUFFICES ASSUME Init, walk.kind = "multi" PROVE TakesMatching
  BY DEF TakesMatching
<1>1. archs \in Seq(Archs)
  BY IteratorsAssumption DEF Init, Archs
<1>2. PICK kind \in {"get", "multi"}, ids \in Requests, chunk \in Chunks :
        walk = [kind |-> kind, ids |-> ids, chunk |-> chunk,
                path |-> Path(kind, ids, chunk)]
  BY DEF Init
<1>3. /\ walk.ids = ids /\ walk.chunk = chunk /\ kind = "multi"
      /\ walk.path = Path("multi", ids, chunk)
  BY <1>2
<1>4. ids \in Seq(Nat)
  BY IteratorsAssumption
<1> DEFINE all == [p \in DOMAIN archs |-> p]
           taken == {p \in DOMAIN archs : Taken(archs[p], ids, chunk)}
<1>5. /\ all \in Seq(Int) /\ Len(all) = Len(archs)
      /\ DOMAIN archs = 1 .. Len(archs) /\ Len(archs) \in Nat
      /\ \A p \in DOMAIN archs : all[p] = p
  BY <1>1
<1>6. walk.path = Selected(all, taken)
  BY <1>3 DEF Path
<1>7. {walk.path[p] : p \in DOMAIN walk.path} = taken
  <2>1. taken \subseteq 1 .. Len(archs)
    BY <1>5
  <2> HIDE DEF all, taken
  <2>2. Selected(all, taken) \in Seq(Int)
        /\ SelectedUpTo(Selected(all, taken), all, taken, Len(archs))
    BY <1>5, SelectedProperties
  <2>3. \A x : (\E i \in 1 .. Len(walk.path) : walk.path[i] = x) <=> x \in taken
    BY <1>5, <1>6, <2>1, <2>2 DEF SelectedUpTo
  <2>4. DOMAIN walk.path = 1 .. Len(walk.path)
    BY <1>6, <2>2
  <2> QED BY <2>3, <2>4
<1>8. \A p \in DOMAIN archs : archs[p].ids \in SUBSET Components
  <2>1. \A p \in DOMAIN archs : archs[p] \in Archs
    BY <1>1
  <2>2. \A a \in Archs : a.ids \in SUBSET Components
    BY DEF Archs
  <2> QED BY <2>1, <2>2
<1>9. ASSUME NEW p \in DOMAIN archs, Taken(archs[p], ids, chunk)
      PROVE  Wanted(ids) \subseteq archs[p].ids /\ chunk \in {archs[p].chunk, NullChunk}
  <2>1. archs[p].ids \in SUBSET Components
    BY <1>8
  <2> QED BY <1>9, <2>1, IncludedIds DEF Taken
<1>10. ASSUME NEW p \in DOMAIN archs, Wanted(ids) \subseteq archs[p].ids,
             chunk \in {archs[p].chunk, NullChunk},
             \A i, j \in DOMAIN ids : i < j => ids[i] < ids[j]
      PROVE  Taken(archs[p], ids, chunk)
  <2>1. archs[p].ids \in SUBSET Components
    BY <1>8
  <2> QED BY <1>4, <1>10, <2>1, RisingIdsAreMet DEF Taken
<1> QED BY <1>3, <1>7, <1>9, <1>10 DEF TakesMatching

(* A multi view has no archetype that lacks a component asked for or is of *)
(* another chunk, and misses none if the list of the caller rises          *)
(* (view.hpp:342): for any archetypes, lists and width of a signature.     *)
THEOREM MultiViewsTakeMatching == Spec => []TakesMatching
<1>1. TakesMatching /\ [Next]_vars => TakesMatching'
  BY WalkStays DEF TakesMatching
<1> QED BY <1>1, InitTakesMatching, PTL DEF Spec

===============================================================================

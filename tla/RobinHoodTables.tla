--------------------------- MODULE RobinHoodTables ---------------------------
(***************************************************************************)
(* Hash tables in use: clients insert into, erase from, resize, copy and   *)
(* move them.  Every call is one step.                                     *)
(***************************************************************************)
EXTENDS RobinHood

CONSTANTS
  Names,         \* the tables
  Edited,        \* those that calls other than copies, moves and clear change
  HashFunctions, \* the mixed products a functor may give: multiplier -> key -> Nat
  MaxBuckets,    \* bound on the growth of a table
  Reserves       \* arguments of reserve and rehash

ASSUME ClientAssumption ==
  /\ Edited \subseteq Names
  /\ \A hash \in HashFunctions : hash \in [0 .. Multipliers - 1 -> [Keys -> Nat]]
  /\ MaxBuckets \in Nat \ {0}
  /\ \A c \in Reserves : c \in Nat

VARIABLES
  tables,
  answers, \* observed: what the tables answer
  last     \* observed: the last call, or that it threw std::overflow_error

vars == <<tables, answers, last>>

(* What contains and at answer.                                            *)
Contents(t) ==
  LET idx == [k \in Keys |-> findIdx(t, k)]
  IN [k \in {k \in Keys : idx[k] # End(t)} |-> t.node[idx[k]].value]

Kinds == {"none", "emplace", "assign", "erase", "clear", "layout",
          "copy", "move", "swap", "threw"}

TablesTypeOK ==
  /\ last \in Kinds
  /\ \A n \in Names :
       /\ tables[n].hash \in HashFunctions
       /\ tables[n].mult \in 0 .. Multipliers - 1
       /\ tables[n].mask \in 0 .. MaxBuckets - 1
       /\ tables[n].max \in {0, calcMaxNumElementsAllowed(tables[n].mask + 1)}
       /\ tables[n].inc * Pow2[tables[n].shift] = InitialInfoInc

Init ==
  /\ \E hash \in HashFunctions : tables = [n \in Names |-> Fresh(hash)]
  /\ answers = [n \in Names |-> Contents(tables[n])]
  /\ last = "none"

Results(kind, n, r) ==
  /\ r.table.mask < MaxBuckets
  /\ tables' = [tables EXCEPT ![n] = r.table]
  /\ answers' = [answers EXCEPT ![n] = Contents(r.table)]
  /\ last' = IF r.threw THEN "threw" ELSE kind

Emplace(n, k, v) == Results("emplace", n, emplace(tables[n], k, v))
Subscript(n, k) == Results("emplace", n, subscript(tables[n], k))
InsertOrAssign(n, k, v) == Results("assign", n, insert_or_assign(tables[n], k, v))
EraseKey(n, k) == Results("erase", n, Done(eraseKey(tables[n], k)))
EraseAt(n, i) == i \in Nodes(tables[n]) /\ Results("erase", n, Done(eraseAt(tables[n], i).table))
Reserve(n, c, force) == Results("layout", n, reserve(tables[n], c, force))
Compact(n) == Results("layout", n, compact(tables[n]))
Clear(n) == Results("clear", n, Done(clear(tables[n])))
Destroy(n) == Results("clear", n, Done(Fresh(tables[n].hash)))

(* A new table takes the name of the old one.                              *)
CopyConstruct(n, o) == Results("copy", n, Done(CopyConstructed(tables[o])))
CopyAssign(n, o) == Results("copy", n, Done(CopyAssigned(tables[n], tables[o])))

Both(kind, n, tn, o, to) ==
  /\ tables' = [tables EXCEPT ![n] = tn, ![o] = to]
  /\ answers' = [answers EXCEPT ![n] = Contents(tn), ![o] = Contents(to)]
  /\ last' = kind

MoveConstruct(n, o) == Both("move", n, MoveConstructed(tables[o]), o, MovedFrom(tables[o]))
MoveAssign(n, o) == Both("move", n, MoveAssigned(tables[n], tables[o]), o, MovedFrom(tables[o]))
Swap(n, o) ==
  LET s == Swapped(tables[n], tables[o]) IN Both("swap", n, s[1], o, s[2])

Next ==
  \/ \E n \in Edited :
       \/ \E k \in Keys, v \in Values : Emplace(n, k, v) \/ InsertOrAssign(n, k, v)
       \/ \E k \in Keys : EraseKey(n, k) \/ Subscript(n, k)
       \/ \E i \in Nodes(tables[n]) : EraseAt(n, i)
       \/ \E c \in Reserves, force \in BOOLEAN : Reserve(n, c, force)
       \/ Compact(n)
  \/ \E n \in Names : Clear(n) \/ Destroy(n)
  \/ \E n \in Names, o \in Names :
       /\ n # o
       /\ \/ CopyConstruct(n, o) \/ CopyAssign(n, o)
          \/ MoveConstruct(n, o) \/ MoveAssign(n, o) \/ Swap(n, o)

Spec == Init /\ [][Next]_vars

(***************************************************************************)
(* Properties.                                                             *)
(***************************************************************************)
(* Lookup stops at the right slot: every node of a table is the one findIdx *)
(* returns for its key, whatever insertions, removals, halvings of the info *)
(* bytes and changes of the multiplier came before.  So no key is stored    *)
(* twice and none is hidden behind the end of its run.                      *)
KeysAreFound ==
  \A n \in Names : \A i \in Nodes(tables[n]) :
    findIdx(tables[n], tables[n].node[i].key) = i

(* An info byte says how far its node is from its own bucket, and has not   *)
(* been narrowed: a table that does not ask for more room (max = 0) can     *)
(* still displace every node by one.                                        *)
InfoTellsDistance ==
  \A n \in Names : LET t == tables[n] IN
    \A i \in Nodes(t) :
      LET p == keyToIdx(t, t.node[i].key) IN
      /\ t.info[i] = next(t, p, i - p.idx).info
      /\ i >= p.idx /\ t.info[i] <= MaxInfo
      /\ t.max # 0 => t.info[i] + t.inc <= MaxInfo

(* Iteration meets every node once: from begin() the increments visit the   *)
(* slots that hold nodes, as many as size() says, and stop at end().        *)
WalkSeesEveryNode ==
  \A n \in Names : LET t == tables[n] IN
    /\ t.num = Cardinality(Nodes(t))
    /\ \A i \in Nodes(t) : i < End(t)
    /\ \A i \in {-1} \cup Nodes(t) :
         LET after == {x \in Nodes(t) : x > i}
             here == IF i = -1 THEN begin(t) ELSE Increment(t, i)
         IN here = (IF after = {} THEN End(t) ELSE First(after))

(* A loop that erases through its iterator the keys of S and steps over the *)
(* others: `seen` are the keys it met.                                      *)
WalkOn(w, S) ==
  LET key == NodeAt(w.table, w.pos).key
      e == eraseAt(w.table, w.pos)
  IN CASE w.pos >= End(w.table) -> w
       [] w.pos < End(w.table) /\ key \in S ->
            [table |-> e.table, pos |-> e.pos, seen |-> Append(w.seen, key)]
       [] OTHER -> [w EXCEPT !.pos = Increment(w.table, @), !.seen = Append(@, key)]

Walking(t, S) ==
  LET walk[i \in 0 .. t.num + 1] ==
        IF i = 0 THEN [table |-> t, pos |-> begin(t), seen |-> << >>]
        ELSE WalkOn(walk[i - 1], S)
  IN walk

ErasingWalk(t, S) == Walking(t, S)[t.num + 1]

KeysOf(t) == {t.node[i].key : i \in Nodes(t)}

(* Erasing while iterating skips no key and meets none twice: the iterator  *)
(* that erase returns stays where it is exactly when a node was shifted     *)
(* down to it.                                                              *)
ErasingWalkSeesAll ==
  \A n \in Names : LET t == tables[n] IN \A S \in SUBSET KeysOf(t) :
    LET w == ErasingWalk(t, S) IN
    /\ w.pos = End(w.table)
    /\ {w.seen[i] : i \in DOMAIN w.seen} = KeysOf(t) /\ Len(w.seen) = t.num
    /\ KeysOf(w.table) = KeysOf(t) \ S

(* Two tables compare equal when they answer alike, however the calls that  *)
(* made them arranged their slots.                                          *)
EqualityIgnoresOrder ==
  \A n \in Names, o \in Names :
    Equal(tables[n], tables[o]) <=> answers[n] = answers[o]

Maps == INSTANCE KeyedMaps WITH map <- answers

(* Through contains and at, the tables are maps: an insertion keeps the old *)
(* entry or assigns to it as its name says, growth, halving of the info     *)
(* bytes and resizing change no answer, copies and moves carry all of them, *)
(* and only a call that throws may lose entries.                            *)
ImplementsMaps == Maps!Spec

===============================================================================

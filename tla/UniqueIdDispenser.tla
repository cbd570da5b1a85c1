-------------------------- MODULE UniqueIdDispenser --------------------------
(***************************************************************************)
(* utility/unique_id_dispenser.hpp: ids are recycled in FIFO order before  *)
(* the counter is advanced.  The counter has the width of T, so it wraps   *)
(* at IdModulus (2^32 for entity_t).  The registry starts it at 0.          *)
(***************************************************************************)
EXTENDS Integers, Sequences

CONSTANTS
  IdModulus,   \* number of values of T
  start        \* argument of the constructor

ASSUME DispenserAssumption ==
  /\ IdModulus \in Nat \ {0}
  /\ start \in 0 .. IdModulus - 1

VARIABLES
  recycled,   \* recycled_ : queue of the freed ids
  id_count    \* id_count_ : last id taken from the counter

vars == <<recycled, id_count>>

Ids == 0 .. IdModulus - 1

TypeOK ==
  /\ recycled \in Seq(Ids)
  /\ id_count \in Ids

Init ==
  /\ recycled = << >>
  /\ id_count = start

(* Slip: id_count_++                                                       *)
GetFreshPost(id) ==
  /\ recycled = << >>
  /\ id = id_count
  /\ id_count' = (id_count + 1) % IdModulus
  /\ UNCHANGED recycled

(* ++id_count_ *)
GetFresh(id) ==
  /\ recycled = << >>
  /\ id = (id_count + 1) % IdModulus
  /\ id_count' = id
  /\ UNCHANGED recycled

(* Slips: the queue is not popped, or is popped at the wrong end.          *)
GetUnpopped(id) ==
  /\ recycled # << >>
  /\ id = Head(recycled)
  /\ UNCHANGED vars

GetWrongEnd(id) ==
  /\ recycled # << >>
  /\ id = Head(recycled)
  /\ recycled' = SubSeq(recycled, 1, Len(recycled) - 1)
  /\ UNCHANGED id_count

GetRecycled(id) ==
  /\ recycled # << >>
  /\ id = Head(recycled)
  /\ recycled' = Tail(recycled)
  /\ UNCHANGED id_count

Get(id) == GetFresh(id) \/ GetRecycled(id)

(* free checks nothing: neither that id was handed out nor that it is not  *)
(* in the queue already.                                                   *)
Free(id) ==
  /\ recycled' = Append(recycled, id)
  /\ UNCHANGED id_count

==============================================================================

---------------------------- MODULE IdClientsProofs ----------------------------
(***************************************************************************)
(* Ids are unique as long as the counter does not reach the last value of  *)
(* its type and clients free what they hold.                               *)
(***************************************************************************)
EXTENDS IdClients, SequenceTheorems, TLAPS

(* The clients stop asking for fresh ids before the counter wraps.         *)
NoWrap == start <= LastFresh /\ LastFresh <= IdModulus - 1

NoneTwice == \A i, j \in DOMAIN recycled : recycled[i] = recycled[j] => i = j

(* An id is handed out once the counter has reached it, and from then on   *)
(* it is with one holder or once in the queue, never both.                 *)
IdInv ==
  /\ recycled \in Seq(Ids)
  /\ id_count \in start .. LastFresh
  /\ holders \in [Ids -> Nat]
  /\ NoneTwice
  /\ Waiting \subseteq start + 1 .. id_count
  /\ \A id \in Ids :
       holders[id] = IF id \in start + 1 .. id_count /\ id \notin Waiting
                     THEN 1 ELSE 0

(* IdInv is strong enough for the three properties.                        *)
LEMMA IdInvImplies ==
  ASSUME NoWrap, IdInv
  PROVE  ClientsTypeOK /\ OneHolderEach /\ UpToStartUnused /\ HeldOrWaiting
<1>1. 0 .. start \subseteq Ids /\ start + 1 .. id_count \subseteq Ids
  BY DispenserAssumption, ClientsAssumption DEF NoWrap, IdInv, Ids
<1>2. id_count \in Ids
  BY DispenserAssumption, ClientsAssumption DEF NoWrap, IdInv, Ids
<1>3. \A id \in 0 .. start : id \notin start + 1 .. id_count
  BY DispenserAssumption DEF IdInv
<1> QED BY <1>1, <1>2, <1>3
        DEF IdInv, ClientsTypeOK, TypeOK, OneHolderEach, UpToStartUnused,
            HeldOrWaiting, NoneTwice

(* A new dispenser, of which nobody holds an id, satisfies IdInv.          *)
LEMMA InitEstablishes ==
  ASSUME NoWrap, ClientsInit
  PROVE  IdInv
<1>1. Waiting = {} /\ NoneTwice /\ recycled \in Seq(Ids)
  BY DEF ClientsInit, Init, Waiting, NoneTwice
<1>2. start + 1 .. start = {} /\ start \in start .. LastFresh
  BY DispenserAssumption, ClientsAssumption DEF NoWrap
<1> QED BY <1>1, <1>2 DEF ClientsInit, Init, IdInv

(* Taking the front of the queue off.                                      *)
LEMMA TailOfQueue ==
  ASSUME recycled \in Seq(Ids), recycled # << >>, NoneTwice,
         recycled' = Tail(recycled)
  PROVE  /\ Head(recycled) \in Waiting
         /\ recycled' \in Seq(Ids)
         /\ NoneTwice'
         /\ Waiting' = Waiting \ {Head(recycled)}
<1>1. /\ Len(recycled) \in Nat \ {0}
      /\ Head(recycled) = recycled[1]
      /\ DOMAIN recycled = 1 .. Len(recycled)
  BY EmptySeq
<1>2. /\ recycled' \in Seq(Ids)
      /\ Len(recycled') = Len(recycled) - 1
      /\ DOMAIN recycled' = 1 .. Len(recycled) - 1
      /\ \A i \in 1 .. Len(recycled) - 1 : recycled'[i] = recycled[i + 1]
  BY <1>1, HeadTailProperties, LenProperties
<1>3. NoneTwice'
  <2> SUFFICES ASSUME NEW i \in 1 .. Len(recycled) - 1,
                      NEW j \in 1 .. Len(recycled) - 1,
                      recycled'[i] = recycled'[j]
               PROVE  i = j
    BY <1>2 DEF NoneTwice
  <2>1. i + 1 \in DOMAIN recycled /\ j + 1 \in DOMAIN recycled
    BY <1>1
  <2>2. recycled[i + 1] = recycled[j + 1]
    BY <1>2
  <2>3. i + 1 = j + 1
    BY <2>1, <2>2 DEF NoneTwice
  <2> QED BY <1>1, <2>3
<1>4. ASSUME NEW id
      PROVE  id \in Waiting' <=> id \in Waiting /\ id # Head(recycled)
  <2>1. ASSUME id \in Waiting' PROVE id \in Waiting /\ id # Head(recycled)
    <3>1. PICK i \in 1 .. Len(recycled) - 1 : id = recycled[i + 1]
      BY <1>2, <2>1 DEF Waiting
    <3>2. i + 1 \in DOMAIN recycled /\ 1 \in DOMAIN recycled /\ i + 1 # 1
      BY <1>1
    <3> QED BY <1>1, <3>1, <3>2 DEF Waiting, NoneTwice
  <2>2. ASSUME id \in Waiting, id # Head(recycled) PROVE id \in Waiting'
    <3>1. PICK i \in DOMAIN recycled : id = recycled[i]
      BY <2>2 DEF Waiting
    <3>2. i # 1 /\ i - 1 \in 1 .. Len(recycled) - 1
      BY <1>1, <2>2, <3>1
    <3>3. recycled'[i - 1] = id
      BY <1>1, <1>2, <3>1, <3>2
    <3> QED BY <1>2, <3>2, <3>3 DEF Waiting
  <2> QED BY <2>1, <2>2
<1>5. Head(recycled) \in Waiting
  BY <1>1 DEF Waiting
<1> QED BY <1>2, <1>3, <1>4, <1>5

(* Putting an id that does not wait there at the end of the queue.         *)
LEMMA AppendToQueue ==
  ASSUME recycled \in Seq(Ids), NoneTwice, NEW id \in Ids, id \notin Waiting,
         recycled' = Append(recycled, id)
  PROVE  /\ recycled' \in Seq(Ids)
         /\ NoneTwice'
         /\ Waiting' = Waiting \cup {id}
<1>1. /\ Len(recycled) \in Nat
      /\ DOMAIN recycled = 1 .. Len(recycled)
      /\ recycled' \in Seq(Ids)
      /\ DOMAIN recycled' = 1 .. Len(recycled) + 1
      /\ recycled'[Len(recycled) + 1] = id
      /\ \A i \in 1 .. Len(recycled) : recycled'[i] = recycled[i]
  OBVIOUS
<1>2. \A i \in DOMAIN recycled' :
        i \in DOMAIN recycled \/ i = Len(recycled) + 1
  BY <1>1
<1>3. \A i \in DOMAIN recycled : recycled[i] # id
  BY DEF Waiting
<1>4. NoneTwice'
  BY <1>1, <1>2, <1>3 DEF NoneTwice
<1>5. DOMAIN recycled \subseteq DOMAIN recycled'
      /\ Len(recycled) + 1 \in DOMAIN recycled'
  BY <1>1
<1>6. Waiting' = Waiting \cup {id}
  BY <1>1, <1>2, <1>5 DEF Waiting
<1> QED BY <1>1, <1>4, <1>6

(* The counter does not wrap below the last value of its type.             *)
LEMMA SmallModulo ==
  ASSUME NEW m \in Nat \ {0}, NEW n \in Nat, n < m
  PROVE  n % m = n
OBVIOUS

(* get keeps IdInv.                                                        *)
LEMMA AcquirePreserves ==
  ASSUME NoWrap, IdInv, NEW id \in Ids, Acquire(id)
  PROVE  IdInv'
<1> USE DispenserAssumption, ClientsAssumption
<1>1. holders' = [holders EXCEPT ![id] = @ + 1]
  BY DEF Acquire
<1>2. start + 1 .. id_count \subseteq Ids
  BY DEF NoWrap, IdInv, Ids
<1>3. CASE GetFresh(id)
  <2>1. recycled = << >> /\ recycled' = recycled /\ Waiting = {} /\ Waiting' = {}
    BY <1>3 DEF GetFresh, Waiting
  <2>2. id_count < LastFresh
    BY <2>1 DEF Acquire
  <2>3. (id_count + 1) % IdModulus = id_count + 1
    <3>1. id_count + 1 \in Nat /\ id_count + 1 < IdModulus
      BY <2>2 DEF NoWrap, IdInv
    <3> QED BY <3>1, SmallModulo
  <2>4. id = id_count + 1 /\ id_count' = id_count + 1
    BY <1>3, <2>3 DEF GetFresh
  <2>5. id \notin start + 1 .. id_count /\ holders[id] = 0
    BY <2>4 DEF IdInv
  <2>6. start + 1 .. id_count' = (start + 1 .. id_count) \cup {id}
    BY <2>4 DEF IdInv
  <2>7. id_count' \in start .. LastFresh
    BY <2>2, <2>4 DEF IdInv
  <2>8. \A i \in Ids :
          holders'[i] = IF i \in start + 1 .. id_count' /\ i \notin Waiting'
                        THEN 1 ELSE 0
    BY <1>1, <2>1, <2>5, <2>6 DEF IdInv
  <2> QED BY <1>1, <2>1, <2>7, <2>8 DEF IdInv, NoneTwice
<1>4. CASE GetRecycled(id)
  <2>1. /\ recycled # << >>
        /\ id = Head(recycled)
        /\ recycled' = Tail(recycled)
        /\ id_count' = id_count
    BY <1>4 DEF GetRecycled
  <2>2. /\ id \in Waiting
        /\ recycled' \in Seq(Ids)
        /\ NoneTwice'
        /\ Waiting' = Waiting \ {id}
    BY <2>1, TailOfQueue DEF IdInv
  <2>3. \A i \in Ids :
          holders'[i] = IF i \in start + 1 .. id_count /\ i \notin Waiting'
                        THEN 1 ELSE 0
    BY <1>1, <2>2 DEF IdInv
  <2>4. holders' \in [Ids -> Nat]
    BY <1>1 DEF IdInv
  <2>5. /\ Waiting' \subseteq start + 1 .. id_count'
        /\ id_count' \in start .. LastFresh
        /\ start + 1 .. id_count' = start + 1 .. id_count
    BY <2>1, <2>2 DEF IdInv
  <2> QED BY <2>2, <2>3, <2>4, <2>5 DEF IdInv
<1> QED BY <1>3, <1>4 DEF Acquire, Get

(* free of an id that is held keeps IdInv.                                 *)
LEMMA ReleasePreserves ==
  ASSUME NoWrap, IdInv, NEW id \in Ids, Release(id)
  PROVE  IdInv'
<1>1. /\ recycled' = Append(recycled, id)
      /\ id_count' = id_count
      /\ holders' = [holders EXCEPT ![id] = @ - 1]
      /\ holders[id] > 0
  BY DEF Release, Free
<1>2. id \in start + 1 .. id_count /\ id \notin Waiting /\ holders[id] = 1
  BY <1>1 DEF IdInv
<1>3. /\ recycled' \in Seq(Ids)
      /\ NoneTwice'
      /\ Waiting' = Waiting \cup {id}
  BY <1>1, <1>2, AppendToQueue DEF IdInv
<1>4. \A i \in Ids :
        holders'[i] = IF i \in start + 1 .. id_count /\ i \notin Waiting'
                      THEN 1 ELSE 0
  BY <1>1, <1>2, <1>3 DEF IdInv
<1> QED BY <1>1, <1>2, <1>3, <1>4 DEF IdInv

(* With clients that stop before the counter wraps, an id that the counter *)
(* has passed is always with one holder or in the queue.                   *)
THEOREM IdsInvariant ==
  ASSUME NoWrap
  PROVE  ClientsSpec => []IdInv
<1>1. ClientsInit => IdInv
  BY InitEstablishes
<1>2. IdInv /\ [ClientsNext]_clientVars => IdInv'
  <2>1. IdInv /\ ClientsNext => IdInv'
    BY AcquirePreserves, ReleasePreserves DEF ClientsNext
  <2>2. IdInv /\ UNCHANGED clientVars => IdInv'
    BY DEF IdInv, clientVars, vars, NoneTwice, Waiting
  <2> QED BY <2>1, <2>2
<1> QED BY <1>1, <1>2, PTL DEF ClientsSpec

(* Such clients never share an id that get returned to them, however often *)
(* ids are freed and recycled.                                             *)
THEOREM IdsAreUnique ==
  ASSUME NoWrap
  PROVE  ClientsSpec => []OneHolderEach
<1>1. IdInv => OneHolderEach
  BY IdInvImplies
<1> QED BY <1>1, IdsInvariant, PTL

(* They are never given an id up to start, _null_entity among them.        *)
THEOREM StartIsExcluded ==
  ASSUME NoWrap
  PROVE  ClientsSpec => []UpToStartUnused
<1>1. IdInv => UpToStartUnused
  BY IdInvImplies
<1> QED BY <1>1, IdsInvariant, PTL

(* No id is lost, or waits in the queue while it is held, or waits twice.  *)
THEOREM NoIdIsLost ==
  ASSUME NoWrap
  PROVE  ClientsSpec => []HeldOrWaiting
<1>1. IdInv => HeldOrWaiting
  BY IdInvImplies
<1> QED BY <1>1, IdsInvariant, PTL

===============================================================================

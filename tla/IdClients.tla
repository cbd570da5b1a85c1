------------------------------- MODULE IdClients -------------------------------
(***************************************************************************)
(* The unique_id_dispenser together with those who hold its ids: in the    *)
(* registry, the callers of create and remove(entity).  `holders' counts,  *)
(* for each id, the calls of get that returned it and that no call of free *)
(* has undone.  free asks its caller for an unused id (its comment says    *)
(* so), and here a caller frees only what it holds.                        *)
(***************************************************************************)
EXTENDS UniqueIdDispenser, FiniteSets

CONSTANTS
  LastFresh,   \* no fresh id is asked for once the counter is here
  MaxQueue     \* bound: length of the queue

ASSUME ClientsAssumption ==
  /\ LastFresh \in Nat
  /\ MaxQueue \in Nat

VARIABLE holders

clientVars == <<vars, holders>>

ClientsTypeOK == TypeOK /\ holders \in [Ids -> Nat]

ClientsInit == Init /\ holders = [id \in Ids |-> 0]

Acquire(id) ==
  /\ recycled # << >> \/ id_count < LastFresh
  /\ Get(id)
  /\ holders' = [holders EXCEPT ![id] = @ + 1]

Release(id) ==
  /\ holders[id] > 0
  /\ Len(recycled) < MaxQueue
  /\ Free(id)
  /\ holders' = [holders EXCEPT ![id] = @ - 1]

ClientsNext == \E id \in Ids : Acquire(id) \/ Release(id)

ClientsSpec == ClientsInit /\ [][ClientsNext]_clientVars

-------------------------------------------------------------------------------
(* "Get a Unique ID": no id has two holders.                               *)
OneHolderEach == \A id \in Ids : holders[id] <= 1

(* Ids up to start, _null_entity among them, are not handed out.           *)
UpToStartUnused == \A id \in 0 .. start : holders[id] = 0

(* Where the counter has been, each id is either held or waiting in the    *)
(* queue, and waits there once: none is lost, none is there for two.       *)
Waiting == {recycled[i] : i \in DOMAIN recycled}
HeldOrWaiting ==
  /\ \A i, j \in DOMAIN recycled : recycled[i] = recycled[j] => i = j
  /\ \A id \in start + 1 .. id_count : holders[id] > 0 <=> id \notin Waiting

===============================================================================

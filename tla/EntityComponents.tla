--------------------------- MODULE EntityComponents ---------------------------
(***************************************************************************)
(* What a registry promises, without archetypes: each entity has a chunk,  *)
(* fixed when it is created, and a component of each of some types; a call *)
(* changes one entity; a query finds the entities of the chunks it is for  *)
(* that have all the components it asks for.  Taken from the comments on the public  *)
(* members of registry and from the queries of its tests.                  *)
(***************************************************************************)
EXTENDS Integers

CONSTANTS
  Entities,     \* entity ids
  Components,   \* component ids
  Chunks,       \* chunk ids
  Values        \* payloads

VARIABLE world   \* what is known of each entity that was created

(* What one entity may have: a payload for each of some components.        *)
Payload == UNION {[Cs -> Values] : Cs \in SUBSET Components}

TypeOK ==
  /\ DOMAIN world \subseteq Entities
  /\ world \in [DOMAIN world -> [chunk_id : Chunks, components : Payload]]

Init == world = [e \in {} |-> [chunk_id |-> {}, components |-> {}]]

(* A new entity, with the components it is created with.                   *)
Create(e, chunk, vals) ==
  /\ e \notin DOMAIN world
  /\ world' = [f \in DOMAIN world \cup {e} |->
                 IF f = e THEN [chunk_id |-> chunk, components |-> vals]
                          ELSE world[f]]

(* The entity gains a component, or one of its components is assigned to.  *)
Put(e, c, v) ==
  world' = [world EXCEPT ![e].components =
              [d \in DOMAIN @ \cup {c} |-> IF d = c THEN v ELSE @[d]]]

(* The entity loses one component and keeps the others.                    *)
Remove(e, c) ==
  /\ c \in DOMAIN world[e].components
  /\ world' = [world EXCEPT ![e].components =
                 [d \in DOMAIN @ \ {c} |-> @[d]]]

(* The registry is destroyed.                                              *)
Clear == world' = [e \in {} |-> world[e]]

Next ==
  \/ \E e \in Entities, chunk \in Chunks, vals \in Payload :
       Create(e, chunk, vals)
  \/ \E e \in DOMAIN world, c \in Components :
       \/ \E v \in Values : Put(e, c, v)
       \/ Remove(e, c)
  \/ Clear

Spec == Init /\ [][Next]_world

(* The entities of some chunks that have the components Cs.                *)
Matching(Cs, chunks) ==
  {e \in DOMAIN world : /\ Cs \subseteq DOMAIN world[e].components
                        /\ world[e].chunk_id \in chunks}

===============================================================================

-------------------------- MODULE RegistryRefinement --------------------------
(***************************************************************************)
(* The registry implements EntityComponents: what the abstract world says  *)
(* of an entity is what a client finds through the entity's record.        *)
(***************************************************************************)
EXTENDS Registry

WorldOfIndex ==
  [e \in DOMAIN entity_index |->
     [chunk_id   |-> entity_index[e].chunk_id,
      components |-> Stored(e)]]

World == INSTANCE EntityComponents WITH world <- WorldOfIndex

(* Every call does to the components and chunks of entities what the       *)
(* comments of the registry promise of it, and nothing else: components    *)
(* survive every move between archetypes, growth of the arrays and swap    *)
(* with the last slot that the call makes.                                 *)
ImplementsWorld == World!Spec

===============================================================================

------------------------------ MODULE MCRegistry ------------------------------
(* Instances of the registry and its refinement for TLC.                    *)
EXTENDS RegistryRefinement, TLC

(* Payloads are only moved and compared.                                    *)
ValueSymmetry == Permutations(Values)

(* Chunk ids are only compared.                                             *)
ChunkSymmetry == Permutations(Chunks)

===============================================================================

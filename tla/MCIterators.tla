----------------------------- MODULE MCIterators -----------------------------
(* Instances of the view iterators for TLC.                                  *)
EXTENDS ViewIterators, TLC

CONSTANTS Signatures, MaxArchetypes

Archetypes ==
  [ids : Signatures, chunk : Chunks \ {NullChunk}, entities : 1 .. 2]

(* Up to MaxArchetypes archetypes, no two of the same key.                   *)
SmallWorlds ==
  {w \in UNION {[1 .. k -> Archetypes] : k \in 0 .. MaxArchetypes} :
     \A p, q \in DOMAIN w :
       p # q => <<w[p].ids, w[p].chunk>> # <<w[q].ids, w[q].chunk>>}

Lists == {<<0>>, <<0, 1>>, <<1, 0>>}

ObjectSymmetry == Permutations(Objects)

===============================================================================

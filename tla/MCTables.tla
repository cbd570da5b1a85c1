------------------------------- MODULE MCTables -------------------------------
(* Instances of the hash tables for TLC.                                     *)
EXTENDS RobinHoodTables, TLC

CONSTANTS Products  \* the mixed products keys may have

(* Any products for the keys under the first multiplier, up to the names of  *)
(* the keys; under the next ones the keys stay together or spread out.       *)
SomeHashFunctions ==
  {[m \in 0 .. Multipliers - 1 |->
      [k \in Keys |-> IF m = 0 \/ together THEN f[k] ELSE InitialInfoInc * k]] :
     f \in {g \in [Keys -> Products] : \A k, l \in Keys : k < l => g[k] <= g[l]},
     together \in BOOLEAN}

(* Those that tell all keys apart under the first multiplier.                *)
DistinctHashFunctions ==
  {hash \in SomeHashFunctions : \A k, l \in Keys : k # l => hash[0][k] # hash[0][l]}

===============================================================================

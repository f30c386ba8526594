--------------------------- MODULE MCSQLiteBuildDB ---------------------------
\* An instance of SQLiteBuildDB for TLC: keys whose texts are not numbers, and a
\* rule whose dependencies are the other one and, single use, itself.  The builds of
\* OneRule finish that rule only, and know the other key by its id.
EXTENDS SQLiteBuildDB, TLC

CONSTANTS a, b

Verbatim == [k \in Keys |-> k]
SomeDeps ==
  (a :> {<<[key |-> b, orderOnly |-> 1, singleUse |-> 0],
           [key |-> a, orderOnly |-> 0, singleUse |-> 1]>>}) @@ (b :> {<<>>})
OneRule == [SomeDeps EXCEPT ![b] = {}]
Symmetry == Permutations(Procs)
==============================================================================

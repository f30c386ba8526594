--------------------------- MODULE MCIncremental ---------------------------
(***************************************************************************)
(* A small acyclic build with every kind of dependency the engine has.     *)
(*                                                                         *)
(*   1  a source file          2  a header file                            *)
(*   3  compiles 1; includes (discovers) 2 when 1 says so                  *)
(*   4  a tool with no value of its own, which looks at 2 once             *)
(*   5  the root: follows 4, reads 3, and then 1 if 3 says so; it wants 3  *)
(*      checked before it runs                                             *)
(*                                                                         *)
(* A world gives the content of the two files.  The manifest changes the   *)
(* signature of 3 and what it computes.                                    *)
(***************************************************************************)
EXTENDS BuildEngine

MCWorlds == {w \in [1 .. 2 -> 0 .. 2] : w[2] < 2}

MCStartRequests(k, m, w) ==
  CASE k \in {1, 2} -> <<>>
    [] k = 3 -> <<TaskNeedsInput(1)>>
    [] k = 4 -> <<TaskNeedsSingleUseInput(2)>>
    [] k = 5 -> <<TaskMustFollow(4), TaskNeedsInput(3)>>

MCMoreRequests(k, i, v, m) ==
  IF k = 5 /\ i = 3 /\ v # 0 THEN <<TaskNeedsInput(1)>> ELSE <<>>

MCDiscovers(k, w) == IF k = 3 /\ w[1] # 0 THEN <<2>> ELSE <<>>

\* Cancelled inputs are passed on, as commands with a failed input do.
MCCompute(k, provided, m, w) ==
  LET given(i) == IF provided[i] \in Values THEN provided[i] ELSE 0
  IN  IF \E i \in Keys : provided[i] = Cancelled THEN Cancelled
      ELSE CASE k \in {1, 2} -> w[k]
             [] k = 3 -> IF given(1) = 0 THEN 0 ELSE 1 + ((w[2] + m) % 2)
             [] k = 4 -> 0
             [] k = 5 -> (given(3) + 2 * given(1)) % 4

MCIsResultValid(k, v, w) ==
  /\ v \notin {Cancelled, NoValue}
  /\ k \in {1, 2} => v = w[k]

MCForceChange(k) == k = 4

MCSignature(k, m) == IF k = 3 THEN m ELSE 0

MCChecksBefore(k) == k = 5

MCMustCheck(k, dep) == k = 5 /\ dep = 3
=============================================================================

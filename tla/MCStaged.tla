----------------------------- MODULE MCStaged ------------------------------
(***************************************************************************)
(* A build whose dependencies depend on values.                            *)
(*                                                                         *)
(*   1  a file that switches 2 on or off          2  a data file           *)
(*   3  reads 1 and then, if it is switched on, 2                          *)
(*   4  the root: reads 3 and 1                                            *)
(***************************************************************************)
EXTENDS BuildEngine

MCWorlds == [1 .. 2 -> 0 .. 1]

MCStartRequests(k, m, w) ==
  CASE k \in {1, 2} -> <<>>
    [] k = 3 -> <<TaskNeedsInput(1)>>
    [] k = 4 -> <<TaskNeedsInput(3), TaskNeedsInput(1)>>

MCMoreRequests(k, i, v, m) ==
  IF k = 3 /\ i = 1 /\ v = 1 THEN <<TaskNeedsInput(2)>> ELSE <<>>

MCDiscovers(k, w) == <<>>

MCCompute(k, provided, m, w) ==
  LET given(i) == IF provided[i] \in Values THEN provided[i] ELSE 0
  IN  IF \E i \in Keys : provided[i] = Cancelled THEN Cancelled
      ELSE CASE k \in {1, 2} -> w[k]
             [] k = 3 -> given(2)
             [] k = 4 -> (given(3) + given(1)) % 4

MCIsResultValid(k, v, w) ==
  /\ v \notin {Cancelled, NoValue}
  /\ k \in {1, 2} => v = w[k]

MCForceChange(k) == FALSE
MCSignature(k, m) == m
MCChecksBefore(k) == FALSE
MCMustCheck(k, dep) == FALSE
=============================================================================

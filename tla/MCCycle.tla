------------------------------ MODULE MCCycle ------------------------------
(***************************************************************************)
(* A build that is cyclic in some worlds.                                  *)
(*                                                                         *)
(*   1  reads 2                                                            *)
(*   2  reads nothing in world 0, and 1 in every other world               *)
(*   3  reads nothing, discovers 1 in world 1 and reads 1 in world 2       *)
(***************************************************************************)
EXTENDS BuildEngine

MCStartRequests(k, m, w) ==
  CASE k = 1 -> <<TaskNeedsInput(2)>>
    [] k = 2 -> IF w = 0 THEN <<>> ELSE <<TaskNeedsInput(1)>>
    [] k = 3 -> IF w = 2 THEN <<TaskNeedsInput(1)>> ELSE <<>>

MCMoreRequests(k, i, v, m) == <<>>

MCDiscovers(k, w) == IF k = 3 /\ w = 1 THEN <<1>> ELSE <<>>

\* What 2 and 3 compute depends on the world, what 1 computes does not.
MCCompute(k, provided, m, w) ==
  IF \E i \in Keys : provided[i] = Cancelled THEN Cancelled
  ELSE IF k = 1 THEN 0 ELSE w

MCIsResultValid(k, v, w) ==
  /\ v \notin {Cancelled, NoValue}
  /\ k # 1 => v = w

MCForceChange(k) == FALSE
MCSignature(k, m) == m
MCChecksBefore(k) == FALSE
MCMustCheck(k, dep) == FALSE
=============================================================================

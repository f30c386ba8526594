----------------------------- MODULE CleanBuild -----------------------------
(***************************************************************************)
(* What the build engine promises its client: a build is a build from      *)
(* scratch.  Nothing here is remembered from one build to the next; a key  *)
(* is settled once in a build, after the keys it reads, with the value a   *)
(* build from scratch gives it; and build() returns the value of its key,  *)
(* or nothing.                                                             *)
(*                                                                         *)
(* BuildEngine implements this with scans, queues, threads, epochs and a   *)
(* database, as long as nobody cancels and no cycle is broken.             *)
(***************************************************************************)
CONSTANTS
  Keys, NoKey, NoValue, Worlds, Manifests,
  BuildKeys,    \* the keys a client asks for
  Worth,        \* manifest, world, key and the value a build from scratch computes
  Gives         \* manifest, world, key and a key that is settled before it

VARIABLES
  building,         \* build() runs
  goal,             \* the key it is for
  world, manifest,  \* the external state
  memo,             \* key -> its value, once settled in this build
  answer            \* what build() has returned

vars == <<building, goal, world, manifest, memo, answer>>

Unsettled == [k \in Keys |-> NoValue]

Init ==
  /\ ~building /\ goal = NoKey /\ world \in Worlds /\ manifest \in Manifests
  /\ memo = Unsettled /\ answer = NoValue

Begin ==
  /\ ~building /\ building' /\ goal' \in BuildKeys /\ world' \in Worlds
  /\ memo' = Unsettled /\ answer' = NoValue
  /\ UNCHANGED manifest

Settle(k) ==
  /\ building /\ memo[k] = NoValue
  /\ \A i \in Keys : <<manifest, world, k, i>> \in Gives => memo[i] # NoValue
  /\ <<manifest, world, k, memo'[k]>> \in Worth
  /\ memo' = [memo EXCEPT ![k] = memo'[k]]
  /\ UNCHANGED <<building, goal, world, manifest, answer>>

Return ==
  /\ building /\ ~building'
  /\ memo[goal] # NoValue /\ answer' = memo[goal]
  /\ UNCHANGED <<goal, world, manifest, memo>>

\* A failure ends the build, or does not let it start.
ReturnNothing ==
  /\ ~building' /\ answer' = NoValue
  /\ building \/ goal' \in BuildKeys
  /\ building => goal' = goal
  /\ UNCHANGED <<world, manifest, memo>>

NewProcess ==
  /\ ~building' /\ goal' = NoKey /\ manifest' \in Manifests
  /\ memo' = Unsettled /\ answer' = NoValue
  /\ UNCHANGED world

Next == Begin \/ (\E k \in Keys : Settle(k)) \/ Return \/ ReturnNothing \/ NewProcess

Spec == Init /\ [][Next]_vars
=============================================================================

--------------------------- MODULE ActionContract ---------------------------
(***************************************************************************)
(* What an engine of llbuild3 relies on when it hands work to the action   *)
(* executor: submit() returns an id or an error, and the listener is       *)
(* notified of the completion of work that was not refused, at most once.  *)
(* The notification may come before submit() has returned.                 *)
(***************************************************************************)
EXTENDS Naturals

CONSTANT Works

VARIABLES
  call,       \* work -> where the call of submit() for it is
  completions \* work -> how often its completion has been notified

Init ==
  /\ call = [w \in Works |-> "idle"]
  /\ completions = [w \in Works |-> 0]

Submit(w) ==
  /\ call[w] = "idle" /\ call' = [call EXCEPT ![w] = "calling"]
  /\ UNCHANGED completions

Accept(w) ==
  /\ call[w] = "calling" /\ call' = [call EXCEPT ![w] = "accepted"]
  /\ UNCHANGED completions

Reject(w) ==
  /\ call[w] = "idle" /\ call' = [call EXCEPT ![w] = "rejected"]
  /\ UNCHANGED completions

Complete(w) ==
  /\ call[w] \in {"calling", "accepted"} /\ completions[w] = 0
  /\ completions' = [completions EXCEPT ![w] = 1]
  /\ UNCHANGED call

Next == \E w \in Works : Submit(w) \/ Accept(w) \/ Reject(w) \/ Complete(w)

Spec == Init /\ [][Next]_<<call, completions>>
=============================================================================

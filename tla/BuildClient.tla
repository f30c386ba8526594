---------------------------- MODULE BuildClient ----------------------------
(***************************************************************************)
(* The client side of the build engine: the Rule and Task objects and the  *)
(* external state ("world": files on disk, and the manifest the rules were *)
(* created from).  The engine only sees them through the callbacks of      *)
(* class Rule and class Task, so they are constant operators here; the     *)
(* model-checking modules give small build graphs as their values.         *)
(*                                                                         *)
(* The second half defines what a build from scratch computes, the         *)
(* reference the incremental engine is compared with.                      *)
(***************************************************************************)
EXTENDS Naturals, Sequences, FiniteSets

CONSTANTS
  Keys,        \* the keys; naturals, because findCycle sorts rules by key
  Values,      \* the values a task may report
  Cancelled,   \* the value a task interrupted by a cancellation reports
  NoValue,     \* "no value": an empty ValueType, or an input not provided
  Worlds,      \* the states of the external world
  Manifests,   \* the manifests the rules of one engine may be created from
  StartRequests(_, _, _),   \* key, manifest, world: requests of Task::start
  MoreRequests(_, _, _, _), \* key, input, value, manifest: requests of provideValue
  Discovers(_, _),          \* key, world: discoveredDependency() calls
  Compute(_, _, _, _),      \* key, provided values, manifest, world: the value
  IsResultValid(_, _, _),   \* key, value, world: Rule::isResultValid
  ForceChange(_),           \* key: the forceChange its task passes to complete()
  Signature(_, _),          \* key, manifest: Rule::signature
  ChecksBefore(_),          \* key: Rule::checksDependenciesBeforeRunning
  MustCheck(_, _)           \* key, dependency: mustCheckDependencyBeforeRunning

NoKey == 0     \* a null TaskInfo pointer: a request no task is waiting for

\* One entry of DependencyKeyIDs, for an input later builds look at.
Dependency == [key : Keys, orderOnly : BOOLEAN]

TaskRequest == [key : Keys, orderOnly : BOOLEAN, singleUse : BOOLEAN]

\* The requests a task makes: request(), requestSingleUse() and mustFollow().
TaskNeedsInput(k) == [key |-> k, orderOnly |-> FALSE, singleUse |-> FALSE]

TaskNeedsSingleUseInput(k) == [key |-> k, orderOnly |-> FALSE, singleUse |-> TRUE]

TaskMustFollow(k) == [key |-> k, orderOnly |-> TRUE, singleUse |-> FALSE]

Provided == [Keys -> Values \cup {Cancelled, NoValue}]

ASSUME KeysAssumption == Keys \subseteq Nat \ {NoKey} /\ IsFiniteSet(Keys)

ASSUME ValuesAssumption == Cancelled \notin Values /\ NoValue \notin Values

ASSUME ClientAssumption ==
  /\ \A k \in Keys, m \in Manifests, w \in Worlds :
       StartRequests(k, m, w) \in Seq(TaskRequest)
  /\ \A k, i \in Keys, v \in Values \cup {Cancelled, NoValue}, m \in Manifests :
       MoreRequests(k, i, v, m) \in Seq(TaskRequest)
  /\ \A k \in Keys, w \in Worlds : Discovers(k, w) \in Seq(Keys)
  /\ \A k \in Keys, w \in Worlds, v \in Values \cup {Cancelled, NoValue} :
       IsResultValid(k, v, w) \in BOOLEAN
  /\ \A k \in Keys, p \in Provided, m \in Manifests, w \in Worlds :
       Compute(k, p, m, w) \in Values \cup {Cancelled}

-----------------------------------------------------------------------------
(***************************************************************************)
(* A build from scratch                                                    *)
(***************************************************************************)
Supplied(requests) ==
  {requests[n].key : n \in {j \in DOMAIN requests : ~requests[j].orderOnly}}

\* The inputs whose values the task of k is given, when the inputs have the
\* values vals: the ones it requests at the start, and those each value it is
\* given makes it request in turn.
Reads(k, vals, m, w) ==
  LET more(S) == UNION {Supplied(MoreRequests(k, i, vals[i], m)) :
                          i \in {j \in S : vals[j] # NoValue}}
      reach[n \in 0 .. Cardinality(Keys)] ==
        IF n = 0 THEN Supplied(StartRequests(k, m, w))
        ELSE reach[n - 1] \cup more(reach[n - 1])
  IN  reach[Cardinality(Keys)]

\* The value of k when its inputs have the values vals, NoValue if one of the
\* inputs it needs has none.
Evaluate(k, vals, m, w) ==
  LET reads == Reads(k, vals, m, w)
  IN  IF \E i \in reads : vals[i] = NoValue THEN NoValue
      ELSE Compute(k, [i \in Keys |-> IF i \in reads THEN vals[i] ELSE NoValue],
                   m, w)

\* The values a clean build computes; NoValue for a key on or behind a cycle.
CleanValues(m, w) ==
  LET round[n \in 0 .. Cardinality(Keys)] ==
        [k \in Keys |-> IF n = 0 THEN NoValue
                        ELSE Evaluate(k, round[n - 1], m, w)]
  IN  round[Cardinality(Keys)]

\* The inputs k is given in a clean build that a later build looks at too.  (A
\* single use input is only looked at when the rule runs.)
LastingInputs(k, m, w) ==
  LET clean == CleanValues(m, w)
      once(requests) == {requests[n].key : n \in {j \in DOMAIN requests :
                                                     requests[j].singleUse}}
  IN  Reads(k, clean, m, w)
        \ (once(StartRequests(k, m, w))
             \cup UNION {once(MoreRequests(k, i, clean[i], m)) : i \in Keys})

\* Both as relations: what a key is worth, and which keys it is given, under each
\* manifest and in each world.
CleanWorth == UNION {LET clean == CleanValues(m, w)
                     IN  {<<m, w, k, clean[k]>> : k \in Keys} :
                       m \in Manifests, w \in Worlds}

Gives == UNION {{<<m, w, k, i>> : i \in LastingInputs(k, m, w)} :
                  m \in Manifests, w \in Worlds, k \in Keys}
=============================================================================

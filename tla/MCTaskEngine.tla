---------------------------- MODULE MCTaskEngine ----------------------------
(***************************************************************************)
(* An application that links a library, an engine that is initialized by   *)
(* a rule which registers the provider of both, and two builds.            *)
(***************************************************************************)
EXTENDS TaskEngine

CONSTANTS setup, app, lib, ready, exe, obj, b1, b2, bootstrap, main, compile, link, scan

Ask(kind, label) == [kind |-> kind, label |-> label]

MCRules == {setup, app, lib}
MCProduces == [r \in MCRules |->
  CASE r = setup -> {ready} [] r = app -> {exe} [] r = lib -> {obj}]
MCProviderOf == [r \in MCRules |-> IF r = setup THEN bootstrap ELSE main]
MCWanted == [b \in {b1, b2} |-> IF b = b1 THEN exe ELSE obj]

\* The library is compiled and scanned; the application links what it then is.
MCScript == [r \in MCRules |->
  CASE r = setup -> << << Ask("provider", main) >> >>
    [] r = lib -> << << Ask("action", compile), Ask("subtask", scan) >> >>
    [] r = app -> << << Ask("artifact", obj) >>, << Ask("action", link) >> >>]

\* The application asks for the library by rule.
ByRule == [MCScript EXCEPT ![app] = << << Ask("rule", lib) >> >>]
=============================================================================

SPECIFICATION FairSpec
CONSTANTS
  setup = setup
  app = app
  lib = lib
  ready = ready
  exe = exe
  obj = obj
  b1 = b1
  b2 = b2
  bootstrap = bootstrap
  main = main
  compile = compile
  link = link
  scan = scan
  InitTask = InitTask
  NoTask = NoTask
  Rules <- MCRules
  Produces <- MCProduces
  Script <- MCScript
  ProviderOf <- MCProviderOf
  InitProvider = bootstrap
  InitRules = {setup}
  InitRule = setup
  Cacheable = {app, lib}
  Wanted <- MCWanted
  ActionResults = {"old", "error"}
  SubtaskResults = {"old", "new"}
  MaxWorks = 5
  MaxEngines = 2
  MaxRejects = 1
INVARIANTS
  TypeOK
  NoLostWakeup
  InputsAreAnswers
  ReplayIsFaithful
  ThrowsOnlyFor
  InitializedFirst
PROPERTIES
  BuildsAreAnswered
CHECK_DEADLOCK FALSE

CONSTANTS
  sdk = sdk
  cli = cli
  NoName = NoName
  MaxJobs = 2
  Callers = {sdk, cli}
  Bundle <- SomeBundle
  Prompts = {"brief.md"}
  SkillPaths <- SomePaths
  DefaultPack = NoName
  Keyed = {sdk, cli}
  Waits = {0, 2}
  Patience = 1
  ReadTimeout = 2
  MaxEvents = 1
  MaxStops = 1
SPECIFICATION FairSpec
INVARIANT ToldTheOutcome
PROPERTIES TerminalIsFinal EveryCallEnds
CHECK_DEADLOCK FALSE

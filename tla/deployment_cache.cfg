CONSTANTS
  a = a
  b = b
  c = c
  e1 = e1
  e2 = e2
  p1 = p1
  p2 = p2
  NoCaller = NoCaller
  NoEntry = NoEntry
  Entries = {e1, e2}
  Callers = {a, b, c}
  Processes = {p1, p2}
  ProcessOf <- TwoThreadsAndAnother
  None = None
  Slugs = {"a", "b", "help", "plan", "count", "check", "rubric", "exact_match", "schema", "build", "dist", "hunch"}
  Models = {"claude/haiku", "claude/sonnet"}
  Bundles <- SomeBundles
  Yamls <- SomeYamls
SPECIFICATION FairSpec
INVARIANTS IInv UsersHaveAll UsersCallWhatTheySee UsersFindWhatWasPushed UsersKeepTheManifest
PROPERTIES BuildsOnce CallsEnd

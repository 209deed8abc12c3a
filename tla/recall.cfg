CONSTANTS
  NoKey = NoKey
  UrlCap = 2
  Inside <- SubWords
  PinnedLimit = 2
  EntityLimit = 1
  Over = 3782
  Budget = 24000
  RecordCap = 2000
  Caution = 136
  JobInputs <- SomeInputs
  Styles <- SomeStyles
  Queries <- SomeQueries
  MaxRows = 2
SPECIFICATION RecallSpec
INVARIANTS RecallsPriorWork DigestFits IdentityDominates HostedFoundLocally
CHECK_DEADLOCK FALSE

CONSTANTS
  a = a
  b = b
  c = c
  m1 = m1
  m2 = m2
  NoRun = NoRun
  None = None
  Runs = {a, b, c}
  Machine <- SomeMachine
  Base <- SomeBase
  Inputs <- SomeInputs
  Uploads <- SomeUploads
  Stages = {a, b}
  Spells <- SomeSpells
  Writes <- SomeWrites
  MaxFaults = 1
  Work <- SomeWork
  Names = {"x"}
  Values <- SomeValues
SPECIFICATION Spec
INVARIANTS InputsThere OwnFolder EveryOutputServed
CHECK_DEADLOCK FALSE

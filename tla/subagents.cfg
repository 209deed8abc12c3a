CONSTANTS
  work = work
  NoSid = NoSid
  draw = draw
  Tasks = {work}
  Tools = {draw}
  Turns <- WorkTwiceOrDraw
  MaxWidth = 2
  MaxDepth = 3
  ParallelMaxDepth = 1
  ParallelLimit = 2
  MaxSteps = 2
  MaxJobCost = 3
  Cost = 1
  Charges = {2}
  MaxBilled = 2
  MaxHalfMade = 1
SPECIFICATION FairSpec
INVARIANTS PipelineStopsInTime PoolFloor OwnWorkdir
PROPERTIES PipelineEnds

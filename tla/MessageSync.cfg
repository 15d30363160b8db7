SPECIFICATION FairSpec
CONSTANTS
  Wraps = {w1}
  Calls = {c1, c2}
  Slice = 1
  Overlap = 1
  Grace = 1
  ForwardEmpty = 2
  FoundEmpty = 1
  BackwardEmpty = 1
  DeepEmpty = 2
  Recent = 2
  Start = 2
  ClockSteps <- ForwardOnly
  MaxMono = 3
  MaxLogins = 1
  MaxRescans = 1
  MaxSignals = 2
INVARIANTS TypeOK OneSlice WalkHasOwner
PROPERTIES CatchUpComplete DeferredRetriedExactly WalkEnds
CHECK_DEADLOCK FALSE

CONSTANTS
  Forks = {f1}
  Targets = {"source", "other"}
  None = None
  Rec = Rec
  MaxFaults = 1
  Faults = {"break", "crash", "expiry", "poddeath", "runtime", "leave"}
SPECIFICATION FairSpec
INVARIANTS ActiveForkIsSeeded
PROPERTIES ForkingResolves PauseEnds BarrierGivenBack FailedForkUnwound
CHECK_DEADLOCK FALSE

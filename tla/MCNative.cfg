SPECIFICATION Spec
CONSTANTS
  Jobs <- NativeJobs
  Images <- NativeImages
  Entry <- NativeEntry
  MaxSteps <- Bounds
CHECK_DEADLOCK FALSE
INVARIANTS Agrees EdgesSeen OneFrame Ends Undone Decimal

SPECIFICATION Spec
CONSTANTS
  Events = 3
  PipeSize = 2
  Noise = 3
  FaultModels <- MCFaultModels
INVARIANTS RepliesMatch ResultHonest NoChildLeft FailsForCause
PROPERTIES ImplementsCommandLog Ends

\* One stream and no client that gives up.
CONSTANTS
  Streams = {"stdout"}
  MaxOutput = 1
  MaxInput = 0
  MaxHasty = 0
  MaxDrops = 0
SPECIFICATION Spec
INVARIANT ReportedProcessHasEnded

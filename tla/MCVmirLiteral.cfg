CONSTANTS
  None = None
  MaxSlots = 70
  Classes <- MCClasses
  Functions <- MCFunctions
  Bodies <- MCBodies
  Code <- MCCode
  Programs = {"literal"}
  Executors = {"interpreter", "native"}
  MaxExceptions = 2
  MaxFailures = 2
SPECIFICATION Spec
INVARIANT EveryObjectEndsOnce

CONSTANTS
  None = None
  MaxSlots = 70
  Classes <- MCClasses
  Functions <- MCFunctions
  Bodies <- MCBodies
  Code <- MCCode
  Programs <- MCPrograms
  Executors = {"interpreter", "native"}
  MaxExceptions = 2
  MaxFailures = 2
SPECIFICATION Spec
INVARIANTS
  Consistent
  StagesAgree
  EveryObjectEndsOnce
  CleanupReversesCompletion
  PlansAgree
  PrefixExact
  ExceptionsCounted
  BorrowedExceptionsLive

SPECIFICATION FairSpec
CONSTANTS
  Users = {"a", "b", "c"}
CHECK_DEADLOCK FALSE
INVARIANTS
  ShutdownContract
PROPERTIES
  ShutdownReturns
  FinalDropFreesSocket
  ImplementsLifecycle

SPECIFICATION SidecarsFairSpec
CONSTANTS
  Procs = {1, 2}
  Dirs = {"host", "repo"}
  Runtime = {"qdrant"}
  Required = {"postgres", "litellm", "qdrant"}
  Kinds = {"up", "down", "reset"}
  MaxEvents = 2
INVARIANTS
  SchemaServed
PROPERTIES
  NeverEmptiedInUse
  Recovers
CHECK_DEADLOCK FALSE

CONSTANTS
  Sandboxes = {s1}
  ExternalChanges = {"stop", "remove", "start"}
  HostView = FALSE
  MaxWrites = 2
SPECIFICATION Spec
INVARIANT RestoredAsCreated
INVARIANT SnapshotIsFresh
PROPERTY ImplementsRuntime

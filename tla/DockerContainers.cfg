CONSTANTS
  Sandboxes = {s1}
  ExternalChanges = {"stop", "start", "remove"}
SPECIFICATION Spec
INVARIANT RestoredAsCreated
INVARIANT AnsweredIsReady
PROPERTY ImplementsRuntime

CONSTANTS
  Sandboxes = {s1, s2}
  Ports = {p1}
  NoPort = none
  Policies = {"pause"}
  MaxAttempts = 2
  InspectAttempts = 2
  EmptyLists = 1
  ExternalChanges = {"stop", "remove", "start"}
  Slots = {a1}
  Free = free
SPECIFICATION Spec
SYMMETRY Symmetry
INVARIANT FailedCreateLeavesNothing
INVARIANT NoPortTakenMeanwhile
PROPERTY ImplementsRuntime

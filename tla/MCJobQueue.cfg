CONSTANTS
  j1 = j1
  j2 = j2
  p1 = p1
  p2 = p2
  Jobs = {j1, j2}
  Procs = {p1, p2}
  Slots = {1}
  Events = {"ev"}
  Kinds = {"reminder", "peek_expire"}
  EventOf <- MCEventOf
  KindOf <- MCKindOf
  MaxAttempts = 2
  Lease = 4
  Backoff <- MCBackoff
  Delays = {0, 1}
  Late = 0
  Faults = {"crash", "stop", "write", "claim"}
  MaxFaults = 2
  MaxMoves = 1
SPECIFICATION Spec
INVARIANTS ExclusiveExecution
PROPERTIES TerminalIsFinal ImplementsLifecycle ImplementsContract
SYMMETRY Symmetry

\* Two nodes, no fault at all: both list before either creates.
\* Pods and faults are bounded, so the system may come to rest: no deadlock check.
CONSTANTS
  Nodes = {n1, n2}
  Threads = {t1}
  AccessTypes = {"mount"}
  Remount = FALSE
  Overlap = TRUE
  FaultKinds = {}
  MaxFaults = 0
  MaxEvents = 2
SPECIFICATION Spec
CHECK_DEADLOCK FALSE
INVARIANT SingleNodeMounted

\* The monitor's Cleanup whose update meets a conflict.
\* Pods and faults are bounded, so the system may come to rest: no deadlock check.
CONSTANTS
  Nodes = {n1}
  Threads = {t1, t2}
  AccessTypes = {"mount"}
  Remount = TRUE
  Overlap = TRUE
  FaultKinds = {}
  MaxFaults = 0
  MaxEvents = 2
SPECIFICATION Spec
CHECK_DEADLOCK FALSE
INVARIANT ListedHasOwner

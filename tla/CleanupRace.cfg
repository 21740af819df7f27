\* The monitor's Cleanup against a retried Stage.
\* Pods and faults are bounded, so the system may come to rest: no deadlock check.
CONSTANTS
  Nodes = {n1}
  Threads = {t1, t2}
  AccessTypes = {"mount"}
  Remount = TRUE
  Overlap = TRUE
  FaultKinds = {"offline"}
  MaxFaults = 1
  MaxEvents = 1
SPECIFICATION Spec
CHECK_DEADLOCK FALSE
INVARIANT RemoveAllOnlyUnmounted

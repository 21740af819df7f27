\* A Stage that is repeated after a timeout.
\* Pods and faults are bounded, so the system may come to rest: no deadlock check.
CONSTANTS
  Nodes = {n1}
  Threads = {t1}
  AccessTypes = {"mount"}
  Remount = FALSE
  Overlap = TRUE
  FaultKinds = {"timeout"}
  MaxFaults = 1
  MaxEvents = 1
SPECIFICATION FairSpec
CHECK_DEADLOCK FALSE
PROPERTY OnlyPodServed

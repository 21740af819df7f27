\* One node, weak fairness: whatever fails, an unwanted volume is let go of.
\* Pods and faults are bounded, so the system may come to rest: no deadlock check.
CONSTANTS
  Nodes = {n1}
  Threads = {t1, t2}
  AccessTypes = {"mount"}
  Remount = FALSE
  Overlap = TRUE
  FaultKinds = {"error","lost","timeout","kubelet","offline","logout"}
  MaxFaults = 3
  MaxEvents = 3
SPECIFICATION FairSpec
CHECK_DEADLOCK FALSE
PROPERTY UnwantedReleased

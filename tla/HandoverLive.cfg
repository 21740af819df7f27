\* Two nodes, weak fairness: the pod moves and its new node gets the volume,
\* with nodes that become unready in between.
\* Pods and faults are bounded, so the system may come to rest: no deadlock check.
CONSTANTS
  Nodes = {n1, n2}
  Threads = {t1}
  AccessTypes = {"mount"}
  Remount = FALSE
  Overlap = FALSE
  FaultKinds = {"notready"}
  MaxFaults = 2
  MaxEvents = 3
SPECIFICATION FairSpec
CHECK_DEADLOCK FALSE
PROPERTY OnlyPodServed

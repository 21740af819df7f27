\* One node with REMOUNT set, weak fairness: the monitor repairs the mounts, and its
\* Cleanup runs beside the handlers.
\* Pods and faults are bounded, so the system may come to rest: no deadlock check.
CONSTANTS
  Nodes = {n1}
  Threads = {t1, t2}
  AccessTypes = {"mount"}
  Remount = TRUE
  Overlap = TRUE
  FaultKinds = {"damage", "error"}
  MaxFaults = 2
  MaxEvents = 3
SPECIFICATION FairSpec
CHECK_DEADLOCK FALSE
PROPERTY CleanupSparesLive DamageRepaired

\* Two nodes with two goroutines each, a filesystem or a block volume.  A pod is
\* placed once no other pod wants the volume and all calls of the other node are
\* answered, as a controller that waits for the old pod does.
\* Pods and faults are bounded, so the system may come to rest: no deadlock check.
CONSTANTS
  Nodes = {n1, n2}
  Threads = {t1, t2}
  AccessTypes = {"mount", "block"}
  Remount = FALSE
  Overlap = FALSE
  FaultKinds = {"error", "lost", "timeout", "crash", "reboot", "kubelet", "offline"}
  MaxFaults = 3
  MaxEvents = 3
SPECIFICATION Spec
CHECK_DEADLOCK FALSE
SYMMETRY ThreadSymmetry
INVARIANT TypeOK TransitionExclusive MountRecorded UnstagedNotMounted RemoveAllOnlyUnmounted StagedAttached UnstagedLetsGo PublishedShowsVolume SingleNodeMounted IInv HandoverInv
PROPERTY ImplementsStaged

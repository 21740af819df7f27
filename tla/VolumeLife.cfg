\* One volume and the source of its clones, one of 17 requests, weak fairness.
\* Users, calls and faults are bounded, so the system may come to rest.
SPECIFICATION FairSpec
CONSTANTS
  GiB = 2
  OpenEBSNamespace = "openebs"
  KubeMaster = ""
  KubeConfig = ""
  Requests = {r1, r2}
  VolumeRequests <- MCVolumeRequests
  Strings <- MCStrings
  Nodes = {"n1", "n2"}
  FaultKinds = {"error", "lost", "timeout", "crash", "config"}
  MaxFaults = 1
INVARIANTS
  TypeOK
  OnlyCompleteCVCs
  NoOrphanCV
  DeletedIsDeleted
  SnapshotReal
  AttachmentComplete
  IInv
PROPERTIES
  BoundStaysBound VolumeSteps
  VolumeDeleted
  SnapshotSettled
CHECK_DEADLOCK FALSE

\* A clone of a snapshot whose volume is deleted before CreateVolume looks for it.
\* Users, calls and faults are bounded, so the system may come to rest.
SPECIFICATION Spec
CONSTANTS
  GiB = 2
  OpenEBSNamespace = "openebs"
  KubeMaster = ""
  KubeConfig = ""
  Requests = {r1, r2}
  VolumeRequests <- MCCloneRequests
  Strings <- MCStrings
  Nodes = {"n1", "n2"}
  FaultKinds = {}
  MaxFaults = 0
PROPERTY CloneSourceAvailable
CHECK_DEADLOCK FALSE

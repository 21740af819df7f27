\* An Expand the resizer stopped waiting for patches the CVC after a later one.
\* The claim is given up at last, so the system comes to rest: no deadlock check.
CONSTANTS
  Requests = {r1, r2}
  GiB = 2
  Sizes = {1, 4, 5}
  FaultKinds = {"timeout"}
  MaxFaults = 1
SPECIFICATION Spec
CHECK_DEADLOCK FALSE
PROPERTY NeverShrinks

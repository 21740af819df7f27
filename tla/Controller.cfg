\* One volume, two handlers at once, a GiB of 2 bytes and sizes of 1, 2 and 3 GiB
\* of which two are not whole.  The claim is given up at last, so the system
\* comes to rest: no deadlock check.
CONSTANTS
  Requests = {r1, r2}
  GiB = 2
  Sizes = {1, 4, 5}
  FaultKinds = {"error", "lost", "timeout", "crash"}
  MaxFaults = 3
SPECIFICATION FairSpec
CHECK_DEADLOCK FALSE
INVARIANT TypeOK ProvisionedExists GrowthReal IInv
PROPERTY ClaimServed ImplementsVolume

SPECIFICATION Spec
CONSTANTS
  w1 = w1
  w2 = w2
  None = None
  Workers = {w1, w2}
  Upstreams = {"x"}
  MaxRetries = 1
  Threshold = 2
  ResetWait = 1
  Probes = 1
  Tolerance = 2
  Reasons = {"git", "other"}
  Window = 1
  MaxFaults = 3
  MaxWrites = 1
INVARIANTS OutboundInv
PROPERTIES OncePerWindow BreakerRecovers

\* One request at a time, one answer of the upstream.
SPECIFICATION Spec
CONSTANTS
  k1 = k1 k2 = k2 r1 = r1 r2 = r2 None = None
  Keys = {k1}
  Requests = {r1}
  Chunks = 2
  MaxFetches = 1
INVARIANT HitsSendWholeResponse

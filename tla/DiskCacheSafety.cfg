\* Two requests at a time over two assets.
SPECIFICATION Spec
CONSTANTS
  k1 = k1 k2 = k2 r1 = r1 r2 = r2 None = None
  Keys = {k1, k2}
  Requests = {r1, r2}
  Chunks = 2
  MaxFetches = 2
SYMMETRY Interchangeable
INVARIANTS TypeOK
PROPERTIES ImplementsServedAssets

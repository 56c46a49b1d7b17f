\* A second order for a domain whose first challenge another replica cached.
SPECIFICATION Spec
CONSTANTS
  p1 = p1 p2 = p2 g1 = g1 g2 = g2
  Replicas = {p1, p2}
  Readers = {g1, g2}
  Home <- OneReaderEach
  Certs = {cert}
  Challenges = {chal}
  RedisMayFail = FALSE
  MaxVersion = 2
  MaxRestarts = 0
  Missing = Missing
INVARIANT ReplicasHandleChallenge

\* Two replicas, failing commands, crashes between any two steps.  Both background tasks may panic, which stops the system.
SPECIFICATION Spec
CONSTANTS
  p1 = p1 p2 = p2 g1 = g1 g2 = g2
  Replicas = {p1, p2}
  Readers = {g1}
  Home <- OneReader
  Certs = {cert}
  Challenges = {chal}
  RedisMayFail = TRUE
  MaxVersion = 2
  MaxRestarts = 1
  Missing = Missing
INVARIANT TypeOK
PROPERTY EveryReplicaLearns
PROPERTY ImplementsView
CHECK_DEADLOCK FALSE

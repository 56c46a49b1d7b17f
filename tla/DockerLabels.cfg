\* Three slots and a limit of two; the labels change once, at any moment of the loop.
SPECIFICATION Spec
CONSTANTS
  h1 = h1 h2 = h2 n1 = n1 n2 = n2 ip1 = ip1 ip2 = ip2
  p = p badp = badp x = x y = y None = None
  Slots = 3
  Limit = 2
  Hosts = {h1, h2}
  Names = {n1, n2}
  Ips = {ip1, ip2}
  Ports = {p, badp}
  BadPorts = {badp}
  Attrs = {x, y}
  Entries <- SomeEntries
  MaxChanges = 1
INVARIANTS TypeOK HostMapFollowsAnswer
PROPERTIES ImplementsListing LabelsAnnounced
CHECK_DEADLOCK FALSE

\* The background services under fairness, with a ring that two batches of two hosts overrun.
SPECIFICATION Spec
CONSTANTS
  h1 = h1 h2 = h2 n1 = n1 n2 = n2 a1 = a1 a2 = a2 a3 = a3
  plain = plain bad = bad NoRoute = NoRoute
  Hosts <- TwoHosts
  Names <- TwoNames
  Addrs <- ThreeAddrs
  Attrs = {plain}
  BadAttrs = {}
  NamesOf <- OneNameEach
  DnsAnswers <- MovingDns
  UpAtStart <- OneMayBeDown
  ConfigRoutes <- ConfigForH1
  Capacity = 3
  MaxBatches = 2
  LBs = {1, 2, 3, 4}
  Requests = {}
  MaxChanges = 1
PROPERTIES AnnouncedRoutesArrive HealthChecksReachServedRoute

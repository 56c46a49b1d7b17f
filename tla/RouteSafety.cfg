\* All actors; labels may carry a header text that makes the router panic.
SPECIFICATION Spec
CONSTANTS
  h1 = h1 h2 = h2 n1 = n1 n2 = n2 a1 = a1 a2 = a2 a3 = a3
  plain = plain bad = bad NoRoute = NoRoute
  Hosts <- TwoHosts
  Names <- TwoNames
  Addrs <- ThreeAddrs
  Attrs = {plain, bad}
  BadAttrs = {bad}
  NamesOf <- OneNameEach
  DnsAnswers <- FailingDns
  UpAtStart <- OneMayBeDown
  ConfigRoutes <- ConfigForH1
  Capacity = 4
  MaxBatches = 2
  LBs = {1, 2, 3, 4, 5}
  Requests = {r1}
  MaxChanges = 1
INVARIANTS TypeOK RequestsReachOwnBackends MarksStayWithRoute RoutingKeepsUp
PROPERTY DockerRouteRefusedOnlyIfMarked
CHECK_DEADLOCK FALSE

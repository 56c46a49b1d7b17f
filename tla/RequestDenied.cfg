\* A route with oauth2.
SPECIFICATION Spec
CONSTANTS
  old = old new = new u1 = u1 u2 = u2 u3 = u3 a1 = a1 a2 = a2 p1 = p1 p2 = p2
  h1 = h1 r1 = r1 r2 = r2 None = None
  Hosts = {h1}
  Paths = {p1, p2}
  Routes = {old, new}
  Upstreams = {u1, u2, u3}
  Addresses = {a1, a2}
  MayResolve <- MCMayResolve
  PluginsOf <- MCPluginsOf
  UpstreamsOf <- MCUpstreamsOf
  PathsOf <- MCPathsOf
  Cached = {old}
  Requests = {r1}
  MaxIds = 3
  MaxRetries = 1
INVARIANT DeniedIsInterrupted

# Verification of proksi

proksi is a reverse proxy written in Rust on top of pingora.  One process holds
HTTP and HTTPS listeners, which run on pingora's worker threads, and one
background task in which five services are the branches of a single
`tokio::join!` (`services/mod.rs`).  This directory models the parts of it whose
behaviour depends on the order of steps, model-checks them with TLC and proves
the main safety properties with TLAPS.

Paths are relative to `crates/proksi/src/` unless they start with `docs/`.

## 1. The system

| component | state | operations | talks to |
|---|---|---|---|
| route store (`stores/mod.rs`, `stores/routes.rs`) | `ROUTE_STORE`: host to container (balancer, upstream entries, headers, plugins, matcher) | `insert_route`, `get_route_by_key`, `get_routes` | everything below |
| routing service (`services/discovery`) | position in its receive loop | `add_routes_from_config`, `watch_for_route_changes`, `add_route_to_router`, `add_route_ssl_to_store` | route store, certificate store, broadcast channel |
| Docker label service (`services/docker`) | none between ticks | `list_services`, `list_containers`, `send_route_message` | docker daemon, broadcast channel |
| health service (`services/health_check`) | the container it is checking | `run_health_check_loop` | route store, backends |
| Let's Encrypt service (`services/letsencrypt`) | the order in progress | `watch_for_route_changes`, `check_for_certificates_expiration`, `create_order_for_domain`, `create_self_signed_certificate` | CA, persisted certificates, certificate store, route store |
| certificate store (`stores/memory_store.rs`, `stores/redis_store.rs`) | certificates and HTTP-01 challenges, in memory or in Redis behind a cache | `get/set_certificate`, `get_certificates`, `get/set_challenge` | TLS callback, HTTP proxy, Let's Encrypt service |
| TLS callback (`proxy_server/cert_store.rs`) | none | `certificate_callback` | certificate store |
| HTTP proxy (`proxy_server/http_proxy.rs`) | none | answers challenges, redirects | certificate store |
| HTTPS proxy (`proxy_server/https_proxy.rs`) | per-request context | `request_filter`, `upstream_peer`, filters, cache hooks | route store, plugins, disk cache |
| disk cache (`cache/disk`) | files of metadata and body, `DISK_MEMORY_CACHE` | `lookup`, `get_miss_handler`, `purge`, `update_meta`, handlers | HTTPS proxy |
| plugins (`plugins/`) | none or a state cookie | OAuth2, basic auth, request id | HTTPS proxy |
| logger (`services/logger`) | unbounded channel, `BufWriter`, date of the next rotation | `make_writer_for`, `start_service`, `handle_log_rotation`, `file_buf_writer` | every thread, through the channel |
| configuration (`config/`) | the figment, then the loaded `Config` | `load`, `load_from_path`, `read_hcl_file`, `check_config` | command line, files, environment |
| file watcher (`services/config`) | modification times of the watched files | first scan, poll, `handle_event`: exec of the same binary | files, the whole process |
| start-up (`main.rs`, `services/mod.rs`) | none | choice of the stores, start of listeners and background services | all of the above |

### What is hard about it

- The background services interleave at every await of one `join!` task, share
  the route store without a lock that spans an await, and a panic in one of them
  ends them all.
- Requests run on other threads with snapshots of containers that the services
  go on replacing.
- The broadcast channel is bounded, and the receiver treats an overrun as the end.
- Replicas share certificates through Redis with a cache each that nothing
  invalidates; commands fail, and a process can die between two of them.
- A certificate order is a long dialogue with a CA that may refuse at each step;
  it must survive restarts and must not displace what is served.
- A request's callbacks share a context while the store moves on, plugins run in
  the order of a `HashMap`, and pingora may go back to `upstream_peer`.
- The log service drops a `BufWriter` at each rotation, ignores I/O errors, and
  logs its own failures into the channel it reads.
- The disk cache is written and read by several requests at once, handlers can
  be dropped at any await, and files outlive the process.
- Configuration comes from up to six sources that are read one after the other
  while an operator edits them, and a reload replaces the serving process before
  anything has looked at the new text.
- Docker answers in an order of its own with entries that share hosts or lack
  labels, while containers come and go.

### What makes each part correct

| part | properties |
|---|---|
| route plane | a request reaches only its own host's backends; announced routes arrive; health marks reach the balancer in use and no other; the routing loop never falls behind; a Docker route is refused only when one of its backends is marked down |
| Redis store | caches show only what Redis held, and keep it until the process ends; every replica whose background task lives learns of every certificate; challenges reach other replicas |
| certificate life cycle | a crash costs at most the key of a certificate that is due; nothing real is displaced by a self-signed certificate or a half-saved pair, a user's certificate only by a renewal; no needless orders; routes get certificates and keep them valid |
| disk cache | a hit sends bytes that were stored for its own asset, in the order of its file; a hit sends a whole response |
| request pipeline, plugins | the callbacks together make one exchange: one route decides all of a request; each plugin runs once, before anything is sent; headers follow the peer through attempts; nothing happens after the answer; upstream and log see one request id, and so does the client of what that upstream answers; every request ends that waits for no oauth2 provider |
| logger | lines are written once and in order; every line that is logged is written, on its way or known lost; rotation loses none; files follow the clock; a failed rotation stays due |
| Docker labels | every turn of the loops leaves what the entries so far spell; one answer, never a mixture, is announced; what labels spell is announced again and again |
| configuration | every key has the word of its strongest source; what validation looked at does not panic later; edits of watched files arrive |

## 2. The modules

| module | models | proofs |
|---|---|---|
| `RouteDiscovery` | route store, routing, Docker and health services, `request_filter`, `upstream_peer` | `RouteDiscoveryProofs` |
| `CertificateView` | what the `Store` trait promises replicas (abstract) | |
| `RedisStore` | `stores/redis_store.rs` in several replicas; implements `CertificateView` | `RedisStoreProofs` |
| `LetsEncrypt` | the certificate life cycle with the in-memory store, the HTTP proxy that answers challenges, the TLS callback | `LetsEncryptProofs` |
| `ServedAssets` | what the disk cache promises the readers of an asset (abstract) | |
| `DiskCache` | `cache/disk` and the cache hooks of `https_proxy.rs`; implements `ServedAssets` | `DiskCacheProofs` |
| `Exchange` | what the HTTPS proxy promises for a request (abstract) | |
| `RequestPipeline` | every callback of `Router` for a request, `middleware.rs`, the plugins; implements `Exchange` | `RequestPipelineProofs` |
| `LineLog` | what the logger promises for a line (abstract) | |
| `LogWriter` | `services/logger`: switches, channel, `BufWriter`, rotation; implements `LineLog` | `LogWriterProofs` |
| `RouteListing` | what the Docker label service promises (abstract) | |
| `DockerLabels` | `services/docker`; implements `RouteListing` | `DockerLabelsProofs` |
| `ConfigReload` | `config/`, `services/config`, the start of `main.rs` and of the background services | `ConfigReloadProofs` |

`MC*` modules hold the small instances.  Operators called "Plausible bug" are
variants of the definition they precede; no specification uses them.  They show
that a property notices the mistake they make.

### RouteDiscovery

`store` is `ROUTE_STORE`.  A container is its balancer's identity, the upstream
entries that `upstream_peer` resolves again, the resolved backends and
everything else a route carries (`attrs`).  Clones of a container share the
`Arc<LoadBalancer>`, so health marks live in `unhealthy`, keyed by the balancer.

`AddRoutesFromConfig` and `Subscribe` are start-up; `ReceiveRoute` is one turn of
the receive loop with all of `watch_for_route_changes` and
`add_route_to_router`, the early return for unchanged backends and the panic of
a rejected header included; `ReceiveLagged` is the end of the loop.
`ListRoutes`/`ListFails` is the daemon's answer, `SendRouteMessage` sends one
message per host without an await in between and so is one action.
`HealthTick`, `CloneContainer`, `ProbeBackend`, `WriteBack` are the health loop
split at its awaits.  `RequestFilter` takes the snapshot, `UpstreamPeer` selects
and resolves.  `select(b"", 32)` looks at 32 candidates of a round robin that every
request on the balancer advances, so with a backend marked down it may meet only
that one; `SelectMayGiveUp` therefore allows a refusal as soon as one backend is
marked down, whatever the number of backends and of concurrent requests, and
`DockerRouteRefusedOnlyIfMarked` promises no more than that.  A name that does not
resolve makes `upstream_peer` panic; literal upstreams always do.  Labels, DNS and backends change by `LabelsChange`, `DnsChanges`
and `BackendFlips`, at most `MaxChanges` times; `UpAtStart` says which backends may be down to begin with.

`MaxBatches` bounds what docker can send before the routing branch is polled:
`join!` polls each branch once per wake-up and rotates which one comes first, so
two batches can be unread.  tokio rounds the 10 slots of `main.rs:77` up to 16.

### RedisStore and CertificateView

`set`, `scan` and `get` are calls in progress, split at each Redis command and
each cache access.  The background task makes all sets and scans of a replica,
one at a time; TLS and HTTP threads (`Readers`) call get.  A value is a version,
so that two values of one key differ.  A failing command may have been applied.
`pool.get().unwrap()` panics when r2d2 has no connection to give: in a scan
(`ScanPanics`) it unwinds the background task of the replica, which makes no more
sets and scans until a restart; in a get on another thread it ends that one call
(part of `GetLoads`).
`written` is a history variable: every value Redis ever held.  The refinement
maps `view` to `cache`.

### LetsEncrypt

`store[d]` is which certificate a domain is served: the user's, a self-signed
one, the persisted ACME one (`"acme"`), one that a newer persisted one has
superseded (`"old"`), or a persisted certificate beside a key that is not its own
(`"broken"`), which no handshake can use.  `days[d]` is `valid_days_left` of the
persisted certificate.  Key and certificate are two puts, `KeySaved` and
`CertificateSaved`; between them the process may die and the CA's answer may break
off, and `torn` holds the domains this has left with a key of a later order.  A pass visits the routes; `Watch`, `Renew` and the steps of
`create_order_for_domain` are one action per call to the CA.  The ACME client is
blocking, so nothing else of the background task runs during a pass.  The days
and crashes come in between.  `ca` says whether the CA and the way to it work at
this moment; it changes at any time (`CAChanges`), calls fail only while it does
not, and the liveness properties that need a CA begin with `<>[]ca`.  The CA
validates by a request to the HTTP proxy: `HttpResponse` is what that answers (the
challenge, or the redirect), and `Validated` needs the right answer.
`CertificateCallback` is what a TLS handshake is given; the properties about
serving are stated in its terms.

### DiskCache and ServedAssets

`file` and `metadata` are the two files of an asset, `memory` is
`DISK_MEMORY_CACHE`, `request` what a request's handler holds.  A body is a
sequence of chunks that know their asset and answer.  `write_to_file` opens (and so
creates) the file, hands one chunk to tokio and drops the handle unflushed:
`OpenFile` and `WriteBody` are the two awaits, `landing` holds the chunks that
tokio's threads have still to write, and `ChunkLands`/`ChunkLost` are those threads,
in any order and also after the request is over.  A file that was created counts as
an asset (`created`) while it is still empty.  A hit from disk reads the
open file, so it sees what others append.  pingora's part (lookup before the
lock, a hit that is fresh is read and finished, a dropped handler, 304 leading to
`update_meta`) is taken from how the hooks are documented in this code.  A
request answered with the header alone finishes its hit without reading.

`ServedAssets` knows files, stored chunks and streams only.  The refinement maps `stream`
to the requests in phase `"hit"` with what they have been sent; the table in memory,
the metadata, expiry, revalidation and requests to the upstream are invisible in it.
An empty file, a body that was given up half-way, one whose parts landed out of
order and one that is appended to an older one are allowed by it, because the code
stores them: `disk_cache_dropped` is about that.

### RequestPipeline and Exchange

`ctx[r]` is a request with its `RouterContext`; `phase` is the callback that
pingora makes next.  `found` is the container `request_filter` works on, `route`
is `ctx.route_container`, which only gets it at the end, `id` is the
`request_id_header` extension.  `NotFound`, `Found`, one action per plugin and
`EndRequestFilter` are `request_filter` split at its awaits; `todo` is a set
because the plugins are a `HashMap`.  The oauth2 and basic_auth plugins appear by
what their `request_filter` may return: answered, pass, or an error, which
`is_ok_and` treats as pass.  oauth2 has a fourth outcome, `Denied`: a 401 has been
written and the request goes on; pingora drops what the upstream answers then.  `CacheHit` goes straight to `ResponseFilter`;
`UpstreamResponse` has run the response plugins before the cache stores what it
got.  `CacheExpired` keeps the expired response, and `Revalidated` is the 304 that
serves it again with the `x-request-id` it was stored with.  `UpstreamPeer` takes the
address of a backend and an upstream whose name resolves to it by now (`MayResolve`),
which need not be the one it was discovered for; `UpstreamPeerPanics` is the unwrap
of a lookup that fails, which ends the request without an answer or a log line.
`Retry` is external: pingora starts over at `upstream_peer` with the same
context when a reused connection is closed, at most `MaxRetries` times.
`ReplaceRoute` stands for all that `RouteDiscovery` does to a host.  The id of a
request is taken from those that nothing uses, as for a version 4 uuid; `MaxIds`
bounds how many are in use, not how many are ever made; while none is free, a
request waits for one.

`Exchange` has no callbacks and no context: a request begins with its host's route
of that moment, its plugins run in any order, it is sent (again, for another
attempt), answered, and ends, or is aborted without an answer; routes are replaced
without any request noticing.  The
refinement maps a context to its `found` route, the plugins that ran, the id, what
was forwarded last, and the answer, which an outsider sees once `response_filter`,
`request_filter` or an error has completed it (`AnswerOf`).  The lookup in the cache,
the choice of a peer, connecting and the upstream's response are stuttering steps.
The 401 of `Denied` is not an answer in this sense: the code goes on as if the
request had passed, and `request_denied` is about that.

### LogWriter and LineLog

`chan`, `writer` with `buf`, and `next_date` are the fields of
`ProxyLoggerReceiver`; `pc` is where `start_service` stands between awaits.
`logging` is the configuration: the initial states are all combinations of the
switches.  A line is its number in the order of the channel and a length, which
decides whether the `BufWriter` (external) holds it, flushes first or passes it
on.  Handing bytes over may fail part-way, now or at a later operation.
`FileBufWriter` either replaces the writer, and with it drops what the buffer
holds, or leaves everything and logs an error through the same channel.  `Restart`
may come at any point.  `out`, `lost` and `trouble` are history variables: where
each line went, which are gone, and whether any output ever failed.

`LineLog` has neither channel nor buffer, rotation nor file: lines are numbered as
they are sent, and each is settled once, written or (after trouble) lost; none is
written before every earlier one is settled.  The refinement maps `written` to the
numbers of the lines in `out`.

### DockerLabels and RouteListing

`answer` is the daemon's answer as a function of slots, in its order; `at` is the
loop variable, `host_map` the map that the loop builds and `sent` the batch that
`send_route_message` hands to the broadcast channel, from where `RouteDiscovery`
takes over.  `ListEntries` applies the label filter and, for containers, the limit
of the request; `ListFails` is the daemon's error, which the code turns into an
empty map.  `AddService` and `AddContainer` are a turn of `list_services` and of
`list_containers`, `SkipEntry` the `continue`s of both.  Path patterns, header edits
and the self-signed flag are one attribute, because the code copies them together.
Assumed: the daemon's answers are complete.  The code unwraps optional fields of
them (id, spec and labels of a service, labels, networks and addresses of a
container); what an incomplete answer does is `BackgroundDies` of `ConfigReload`.

`RouteListing` has no loop: `Spells` defines the route of a host by quantifying
over the entries of an answer, and a batch is one step.  The refinement maps
`listed` to `answer`.

### ConfigReload

`machine` is what exec keeps: command line, environment variables, and what the
process runs into (`Faults`: a docker client that cannot be made, an incomplete
answer of the daemon, a failing exec, a CA that does not answer, a certificate
directory that cannot be made, a lost Redis connection, a file watcher or DNS that
fails).  `disk` and `version` are the files with their modification times.
`ParseArgs` is the first merge and the choice between a named file, a directory
and the minimal default; then the sources of `MergeOrder` are read one step at a
time (`MergeFile`, `MergeMinimal`, `MergeEnv`, or `PassOver` where the branch has no
call), and `Extract` is `extract()` with the deserializers and `check_config`.
`RunForever` is `main()` up to the listeners, `StartBackground` the first poll of
every branch of `join!`, which may panic (`BackgroundPanics`, one definition per
branch), and the watcher's first scan; `BackgroundDies` is a branch that panics
later, and takes the watcher with it.  Of a route the module has its address, its
port and whether the `http` crate takes its headers.  `PollSkips`,
`PollRestarts` and `PollQuits` are one interval of the watcher.  `Edit` may come
between any two of these.  Of the keys of `Config` the module has those that this
code branches on; durations are zero or not.  `used` and `seen` are history
variables: what was merged from each source, and which version of a file.

Assumed: every edit changes the modification time, a text has one import and an
imported text none.

## 3. Runs

| run | instance | shows |
|---|---|---|
| `route_safety` | 2 hosts, 3 addresses of which one may be down from the start, 1 request, 1 change | requests stay with their host; health marks stay with the route that was probed; the loop keeps up with a ring of `MaxBatches * hosts`; a Docker route is refused only when one of its backends is marked down; panics by a bad header and by a name that stops resolving included |
| `route_liveness` | no request, ring of 3 for batches of 2 | announced routes arrive unless the ring was overrun; health marks reach the balancer in use |
| `redis_store` | 2 replicas, 1 reader, 2 sets, 1 restart, errors | `CertificateView` is implemented; every replica learns unless its background task has panicked |
| `redis_challenge` | violation | a cached challenge outlives the one it was cached for |
| `letsencrypt_safety` | 2 domains, one with certificate files, a validity of 1 day and renewal on the last one, 1 restart | a crash costs only the key of a certificate that is due, no downgrade, no needless order, fallback; once the CA works for good, certificates are obtained and renewed |
| `disk_cache` | 2 assets, 2 requests, 2 answers of 2 chunks (1.1 million states) | `ServedAssets` is implemented, with background writes in any order |
| `disk_cache_dropped` | violation | what a dropped writer left, here an empty file, is served as a whole response |
| `log_writer` | 32 configurations, 4 lines of 2 lengths, 3 periods | `LineLog` is implemented; no line is unaccounted for, rotation loses none; files in the order of their dates, rotation due when the period ends |
| `request_pipeline` | 1 host, 2 routes, 3 upstreams of which 2 share an address, 3 plugins, 2 requests, 3 ids, 2 attempts | `Exchange` is implemented; one route per request; one id, except that an answer from the cache, revalidated or not, has another; every request ends that waits for no oauth2 provider |
| `request_denied` | violation | a request that oauth2 has answered 401 is sent to an upstream |
| `docker_labels` | 3 slots, 6 kinds of entries, limit 2, 1 change, both modes | the host map follows the answer; `RouteListing` is implemented; labels are announced |
| `config_reload` | 11 machines, 9 sets of files, 2 edits | strongest source, no panic that validation should have caught, edits arrive |

Deadlock is not checked in `route_safety`, `redis_store` and `letsencrypt_safety`: a
panic ends the background services, and the system really stops.  Nor in `docker_labels`,
where the service returns when docker is switched off, and in `config_reload`, where
a process that fails to load ends.

**Bounds.**  Two hosts (domains, assets, replicas) are the fewest that can be
confused, and the code treats none specially.  One environment change already
races every service, and a backend that is down from the start makes a probe fail
while its route is replaced; two changes were checked once (10.2 million states) and
add nothing.  Two sets or two answers are one renewal.  One day of validity and renewal
on the last day keep the cases due and not due, and one restart is the fewest that
can fall between the two puts of a renewal.
Two chunks are the fewest that make a partial body.  Lines of one and three bytes
with buffers of one and three reach every branch of the `BufWriter` (on stdout, as in
the code, nothing fits the buffer); six units of the clock hold two rotations and a restart.  Two routes
that differ in cache, plugins, upstreams and paths differ in everything a request
takes from its route; one repetition of `upstream_peer` already changes the peer;
three ids are one for each of two requests and one in the cache, and a second stored
answer cannot occur because the cached route lets one path through.  Two upstreams
that share an address are the fewest that `upstream_peer` can mistake.  Three slots
and a limit of two hold two entries for one host, a third for another, and one cut
off by the limit; one change at any turn of the loop makes two different answers.
Two edits are the fewest for an edit during the reload that another edit caused;
the machines cover every fault, every branch of `load_from_path` and a conflict
between files and environment.

**Fairness.**  tokio polls every woken branch of `join!`, so each service takes
its next step (weak fairness); listing the daemon, reading a persisted
certificate and Redis commands may fail, but not for ever (strong fairness); a pool
without connections is no failed command but ends the task, and `EveryReplicaLearns`
states the exception.
The timers of the Let's Encrypt loops and of the scans fire again and again
although the task is busy in between (strong fairness).  An order ends: the
client waits for the CA, which answers, and answers well while `ca` holds.  That the
CA works is no fairness assumption but the premise of `RoutesGetCertificates` and
`CertificatesRenewed`.  The process of `ConfigReload` takes its next step, polls of
the watcher included (weak fairness); the interval of the Docker service fires again
and the daemon does not fail for ever (strong fairness of `ListEntries`).  A request in progress
takes its next step (weak fairness): its waits for upstreams and for the cache lock
have timeouts (`default_peer_opts`, `CACHE_LOCK`), and its client reads or closes the
connection.  The exception is a request that waits for an oauth2 provider
(`AsksProvider`): `oauth2/mod.rs:28` makes the client without a timeout, so nothing
is assumed of it and `RequestsEnd` excludes it.  That requests arrive, readers, crashes,
edits and the environment are not fair.  `LogWriter` assumes no fairness.

## 4. Theorems

All hold for every value of the constants that satisfies the module's named
assumptions: types of the constants, finite hosts and addresses, and model values
that differ from the data they stand beside.

| theorem | statement | argument |
|---|---|---|
| `TypeCorrect` | `RouteDiscovery` is well typed | `TodoRouted`: the health round only holds hosts that have a route, because the store never loses one |
| `RequestsStayHome` | requests stay with their host | `EveryCarrierBelongs`: store, ring, listing, clone and snapshots carry only upstreams and addresses of their host |
| `HealthMarksStay` | copies that share a balancer are copies of one route of one host, and its marks are of that route's backends | the copies of a step are old ones, or one more with a balancer that no copy has (`CopyPlaces`, `OldCopies`, `NewCopy`); `ProbesOfClone`: what is still to be probed are backends of the clone |
| `DockerRefusals` | a docker route is refused only when one of its backends is marked down (or it has none), and its lookup never panics | literal upstreams resolve to themselves, so the lookup finds every backend; without a mark no candidate of `select` is turned down |
| `RingLargeEnough` | the loop never lags if `MaxBatches * Cardinality(Hosts) <= Capacity` | `UnreadFits`: unread messages are at most `batches` times the hosts |
| `StoreTypeCorrect`, `StoreImplementsView` | the Redis store implements `CertificateView` | `OnlyWritten`: every value on its way to a cache has been in Redis |
| `LifeCycleTypeCorrect`, `CrashSafe`, `NeverDowngraded`, `OrdersNeeded` | the safety properties of the life cycle; `CrashSafe` is `CrashCostsOnlyDue`, with the crash between the two puts | `OrderJustified`: an order in progress is for a domain with nothing served and nothing persisted, or for a certificate that is due; so only a renewal meets a user's certificate |
| `PipelineTypeCorrect`, `RouteDecidedOnce`, `NoSecondAnswer`, `HeadersFollowPeer`, `RequestIdsAgree` | the safety properties of the pipeline | `CallbacksConsistent`: phase by phase, what the context holds (no route before the end of `request_filter`, afterwards one whose plugins ran; `upstream` is the peer's; the answer's fields come last; what was sent carries `IdSent`); `UniqueIds`; `NotStoredYet`: until its upstream has answered in full, a request's id is in no cached response and in none that another request holds for revalidation |
| `PipelineImplementsExchange` | the pipeline implements `Exchange` | the same invariant, one lemma per kind of step: `BeginStep`, `PluginStep`, `SendStep`, `ReplyStep`, `EndStep`, `AbortStep` for the panic of `upstream_peer`, and `SilentStep` for callbacks that nobody sees; it needs that the context's route is the one the request arrived to (`AfterRoute`), and that a hit has sent nothing (`AnswerLast`) |
| `LogTypeCorrect`, `LinesComeOutInOrder` | lines come out once and in order | `QueuesInOrder`: `out`, buffer and channel, one after the other, are increasing and end at `sent` |
| `RotationKeepsLines` | every line is written, buffered, queued or known lost, and none is lost without an error or a crash | `EmptyWhenReplaced`: between flush and open the buffer is empty unless there was trouble |
| `WriterImplementsLog` | the writer implements `LineLog` | conservation of lines (`NothingDropped`), their order (`QueuesInOrder`), and `LostIsGone`: what is lost is neither written nor on its way; so a step that hands bytes over settles the oldest pending lines |
| `FilesFollowTheClock`, `RotationDue` | dated files, due rotations | `DatesKnown`, `DueForFile`: dates are starts of periods that have begun, and `next_date` is one period after the file's; `RoundDateIsLastStart` and its lemmas on `%` |
| `CacheTypeCorrect`, `HitsStayHome` | a hit sends the beginning of its own file | files hold only their own chunks; bodies in memory and copies of them begin their file, which only grows |
| `CacheServesWhatIsStored` | the cache implements `ServedAssets` | `ServedIsStored`: what can be opened has a file; `OneWriterPerAnswer` and `StoredWasHandedOver`: an answer of the upstream has one writer, and no chunk has landed that it has not handed over; `LandsOnce`: a chunk that is still to land is not in its file |
| `TypeCorrect`, `HostMapCorrect`, `RefinesListing` (`DockerLabelsProofs`) | the Docker label service implements `RouteListing` | `HostMapFollowsAnswer` is inductive with `UnspelledHasNoRoute`: a host has a route exactly when an entry so far speaks for it, so "first entry" and "entry is vacant" agree |
| `TypeCorrect`, `StrongestSource` (`ConfigReloadProofs`) | every key has the word of its strongest source | `MergedInOrder`: at each position the sources still to come have set nothing, and the figment is right for those before |
| `CheckedValuesSafe` | panics after validation have a listed reason, one that `check_config` does not look at | `RunsAccepted`: what runs has passed `check_config`, and background services only run in it |

Only model-checked: liveness (`AnnouncedRoutesArrive`,
`HealthChecksReachServedRoute`, `EveryReplicaLearns`, `FallbackServes`,
`RoutesGetCertificates`, `CertificatesRenewed`, `RequestsEnd`, `LabelsAnnounced`,
`WatchedEditsArrive`), which the prover does not reach.

## 5. Observations without a run of their own

- `services/discovery/mod.rs:137`: the loop ends at any error of `recv`, `Lagged`
  included; the comment at line 135 says "Watch for new hosts being added and
  configure them accordingly".  With more hosts than the ring has slots the routing
  service ends for good; `RingLargeEnough` gives the bound under which it does not.
- `services/letsencrypt/http01.rs:261`: a certificate persisted before the user named
  certificate files is renewed when due and then served in place of the user's,
  until the next start; `config/mod.rs:288` says the files "will be used instead".
  `NoDowngrade` states that nothing else displaces them.
- `services/letsencrypt/http01.rs:110`: the ACME client blocks the thread that also
  runs routing, health checks and discovery for as long as an order takes.
- `services/letsencrypt/storage.rs:127`: key and certificate are two `put` calls; a
  crash, or an answer of the CA that breaks off, between them leaves a new key beside
  the old certificate, and the watch loop serves the two together, to handshakes that
  fail.  `CrashCostsOnlyDue` says that this only meets a certificate that is due, so
  that the renewal loop replaces it; until then no fallback does (`FallbackServes`).
- `services/letsencrypt/storage.rs:63`: `expect` on the directory of the certificates
  ends every background service at start-up.
- `services/config/mod.rs:115`: an edit between `load()` and the watcher's first scan
  is never noticed.  `WatchedEditsArrive` is about edits after that scan.
- `services/config/mod.rs:55`: only `.hcl` files cause a restart; `proksi.yaml` is
  watched in vain.  A file named directly by `-c` is watched only if
  `auto_reload.paths` lists it, and without `-c` nothing is watched, because
  `config_path` is `None`.
- `services/config/mod.rs:75`: exec comes before anything has parsed the new text: a
  broken edit ends a proxy that was serving.  Removing `proksi.hcl` restarts with
  the defaults, and auto reload is then off.
- `config/mod.rs:788`: the minimal default is merged after the command line and so
  overrides its flags.  `config/mod.rs:757`: a file of another extension is merged
  both as YAML and as HCL, one of which fails.
- `config/validate.rs:7`: what `check_config` accepts and a service later panics on:
  `auto_reload.interval_secs` and `lets_encrypt.renew_interval_secs` of zero, a null
  `lets_encrypt.enabled` (which counts as enabled) with the default email, a Redis
  store without a url, and a header of a route that `HeaderName` or `HeaderValue`
  rejects (`services/discovery/mod.rs:215`).  `OnlyUncheckedPanics` lists them.
- `config/mod.rs:784`: the files are read one after the other, so an edit during a
  load mixes two generations of them in one `Config`; `StrongestSourceWins` only says
  that each key comes from the strongest source as it was read.
- `services/docker/mod.rs:70`: the docker client is made, and unwrapped, although
  docker is switched off.
- `proxy_server/middleware.rs:40`: an error of a plugin lets the request pass.
- `proxy_server/https_proxy.rs:162`: `select` gives up after 32 candidates of a round
  robin that all requests share, so a request can be refused while some backends are
  healthy, as soon as others are marked down.
- `proxy_server/https_proxy.rs:175`: `to_socket_addrs().unwrap()` panics when a name of
  the route no longer resolves: the request ends without an answer and without a line
  in the access log.
- `proxy_server/https_proxy.rs:172`: the peer's upstream is found by resolving again;
  of two upstreams that share an address the first one's headers are sent.
- `plugins/oauth2/mod.rs:28`: the client of the provider has no timeout; a provider
  that does not answer keeps its requests, before anything is logged.
- `services/health_check/mod.rs:42`: the health service writes back the container
  it cloned before its probes, so a route replaced meanwhile is put back as it was
  until the next announcement.  `AnnouncedRoutesArrive` holds because docker
  announces again.
- `services/discovery/mod.rs:193`: an announcement that changes only headers,
  plugins or patterns of a known host is skipped.
- `services/discovery/mod.rs:99`: if no upstream of an announced route resolves,
  a route with an empty balancer replaces a working one until the next listing.
- `services/discovery/mod.rs:58`: `self_signed_on_failure` defaults to false;
  `config/mod.rs:231` says "(defaults to true)".
- `services/letsencrypt/http01.rs:328`: `expect` on the ACME directory ends every
  background service at start-up; `FallbackServes` states this exception.
- `stores/redis_store.rs:115`: `pool.get().unwrap()` panics once r2d2's timeout passes
  without a connection: an outage of Redis that a scan meets ends every background
  service of the replica.  The same unwrap at lines 39 and 53 ends the request or
  handshake that met it.
- `stores/redis_store.rs:78`: within one process, a get that loaded before a set
  may fill the cache after it.
- `stores/redis_store.rs:71`: a certificate renewed by one replica never replaces
  the copy that another has cached, until that one restarts;
  `docs/general/specifications.md:14` speaks of "data replication between multiple
  nodes/replicas".  The cause is the one `redis_challenge` shows.
- `stores/redis_store.rs:10`: challenges live 300 seconds;
  `docs/general/specifications.md:32` says 600.
- `cache/disk/storage.rs:83`: an entry in memory keeps its first metadata; once
  expired it hides the refreshed file until the process ends.
- `cache/disk/handlers.rs:172`: the flush is commented out and every chunk has a handle
  of its own, so tokio writes them in the background, in any order, and an error of
  the write is seen by nobody.  A file that is only created is a hit with no body.
- `cache/disk/handlers.rs:145`: an asset fetched again is appended to its old
  body; `docs/use-cases/cache.md` says the cache is updated with the new response.
- `proxy_server/https_proxy.rs:277`: a hit, or a response revalidated by a 304, carries
  the `x-request-id` of the request that filled the cache, and 404s and answers of plugins carry none;
  `docs/plugins/request-id.md:3` says "every response".
- `stores/mod.rs:72`: the first cached request of a host fixes its cache directory
  until the process ends, also when the route gets another path.
- `services/logger/mod.rs:99`: the test for access logs replaces the result of the
  test for error logs; with both switched off, errors are written.
- `services/logger/mod.rs:202`: while a rotation is due and the file cannot be
  opened, each attempt logs a line that causes the next attempt.
- `services/logger/mod.rs:198`: if the first open fails, `next_date` stays 0: the
  service writes to stdout for good.
- `services/logger/mod.rs:274`: lines wait in a buffer of 1024 bytes until others
  fill it, and are lost with the process; after an idle gap each line moves the
  rotation on by one period.
- `services/docker/mod.rs:452`: the filter asks for the label `proksi.enabled=true`,
  and the loops (lines 148 and 306) know no other name.
  `docs/use-cases/docker-swarm.md:19` tells users to set `proksi.enable`, and
  `CHANGELOG.md:546` says that "proksi.enabled and proksi.enable" are "possible
  labels for discovery": a service labelled as the page shows is never announced.
  Label names are abstracted in `DockerLabels`, where it is an entry without the label.
- `services/docker/mod.rs:112`, `:291`, `:359`: unwraps of optional fields: one
  incomplete answer of the daemon ends every background service.
- `services/docker/mod.rs:160`: `proksi.headers.remove` is parsed as JSON;
  `docs/use-cases/docker-swarm.md:43` shows a comma-separated list, which gives none.

## 6. Not modelled

- A file that is cut off inside one `put` of a key or a certificate, and a `write(2)`
  that appends only part of a chunk.
- Incomplete answers of the docker daemon in `DockerLabels` (they are a fault of
  `ConfigReload`), and the panics of pingora's listeners on addresses they cannot bind.
- Encoding of certificates, headers and log lines; TLS handshakes; pingora itself
  beyond the order in which it calls proksi.
- `wasm/`, `tools/`, benchmarks and examples, which are not part of the running
  system; daemon, upgrade and TLS settings of `main.rs`, which are pingora's.
- What the OAuth2 and basic auth plugins check (state, token, user, password): pure
  functions of one request; the pipeline only needs what becomes of the request.  Serving stale answers on errors is pingora's.

## 7. Plan

Done: the route plane, the certificate stores, the certificate life cycle with HTTP
proxy and TLS callback, the disk cache, the request pipeline, the log writer, the
Docker label service and configuration with reloads, each with its proofs; the
abstract specifications `CertificateView`, `RouteListing`, `ServedAssets`, `Exchange`
and `LineLog`, each implemented, checked and proved.

1. Composition of `DockerLabels` with `RouteDiscovery`: `ListRoutes` as a step of
   `RouteListing`.
2. Composition of `LetsEncrypt` with `RedisStore`, with the abstract
   `CertificateView` in place of the in-memory store.
3. Theorems: an abstract certificate life cycle that `LetsEncrypt` implements, and
   the safe half of `WatchedEditsArrive` (no poll takes note of a change of a watched
   `.hcl` file without a restart).

# Runtime Registry: a TLA+ verification project

Runtime Registry is a C++20 library, with a coordinator and a worker program, that keeps
the records of services, their running instances, endpoints, capabilities, runtimes and
leases, and decides which instances a client may be sent to. Workers are processes: they
say hello, register what they offer, report status, crash and come back. The registry's
central promise is that authority is scoped to a process incarnation (a *boot*): whatever
a dead boot left behind neither serves nor is confused with what its successor registers.

This directory holds TLA+ modules translated from the code, TLC configurations that check
them on small instances, and TLAPS proofs that hold for every instance. Paths below are
relative to the repository; `PROJECT.json` maps each definition to the lines it models.

To repeat the checks, in this directory: `tlc -config X.cfg M` for a row of the table of
runs, `tlapm M.tla` for each of the eight proof modules of section 4.

## 1. Inventory

| Part | Source | State | Operations |
|---|---|---|---|
| Authority | `src/authority.cpp`, `authority.hpp` | epoch, live boots, current boot per worker, owner per boot, boot counter | `begin_coordinator_epoch`, `adopt_worker`, `mark_worker_died`, `validate_envelope` |
| Descriptors | `src/registry.cpp` | eight kinds of descriptor (services, endpoints, capabilities, runtimes under two keys, protocols, backends, devices, nodes), one shared id allocator | `register_*` |
| Instances | `src/registry.cpp` | instances with health, readiness, freshness, reachability, lease and a cached lifecycle | `register_instance`, `supersede`, `deregister`, `update_*`, `reclassify_lifecycle` |
| Leases | `src/registry.cpp` | leases, lease generation | `acquire_lease`, `renew_lease`, `expire_lease`, `revoke_lease`, `mark_lease_revalidation_required` |
| Fencing | `src/registry.cpp` | tombstones, invalidations | `create_tombstone`, `invalidate`, `covered_by_tombstone` |
| Indexes | `src/registry.cpp` | instances by service, kind, boot and node | `rebuild_indexes`, `check_invariants` |
| Discovery | `src/selection.cpp`, `query.hpp` | none of its own; reads everything | `query`, `query_and_account` |
| Persistence | `src/persistence.cpp` | a byte snapshot of the canonical records | `serialize_to`, `load_from` |
| Coordinator | `apps/coordinator.cpp` | the captured epoch; per connection a thread with the boot it adopted | `main`, `handle_connection`, `recv_one` |
| Worker | `apps/worker.cpp` | its position in a fixed script of requests | `main` |
| Framing, TCP | `src/protocol.cpp`, `src/tcp.cpp` | socket, decode buffer | encode, decode, connect, send, recv |
| Versions | `src/version.cpp`, `version.hpp` | none | parse, compare, negotiate |
| Capability values, provenance | `src/capability.cpp`, `src/provenance.cpp` | none | typed values, evidence kinds |
| Accounting, history | `accounting.hpp`, `registry.cpp` | counters; vectors of superseded records | written by the mutating operations |
| Explanations, enum text, command line | `src/explanation.cpp`, `src/enums.cpp`, `apps/cli.cpp` | none | rendering; sequential driver |
| Digests | `src/sha256.cpp`, `crc32.hpp` | none | SHA-256, CRC-32 |

**How they interact.** Workers talk to the coordinator over TCP, one request at a time.
The coordinator runs one thread per connection; all threads share one `Registry`. Every
public mutating operation of the registry holds its recursive mutex from its first to its
last line, so an operation is atomic, and what is concurrent is the *order* of operations:
the death of a connection, the restart of its worker, and requests still in flight meet in
any order. The registry calls nobody back. Persistence is a snapshot taken and loaded by
whoever owns the registry; the coordinator of this repository does neither.

**What is hard.**

- Three containers hold the authority (live boots, current boot per worker, owner per
  boot) and three operations update them.
- Losing a boot must withdraw its instances, expire its leases and release its endpoints,
  and touch nothing else; the loss may be reported late, twice, or after a restart.
- The stored lifecycle of an instance is a cached verdict: leases, endpoints and
  capabilities change under it.
- `register_instance` writes before its last check, so a rejected call changes state.
- Generations, tombstone floors and one allocator for ids of all kinds decide what a
  registration may replace.
- A recovery drops all liveness but keeps every record that claimed it; a load that fails
  among the records has cleared the maps and refilled some of them.
- The counters are moved by hand beside each change, and a lease has four ways to end.
- TCP delivers bytes in pieces; replies carry no number and belong to their request only
  because both ends stay at frame boundaries.
- `query` loops over a hash map; nothing it answers may depend on the order.

**What makes each part correct.** Authority: the three maps agree and a boot, once lost,
is never live again. Instances: what is called AVAILABLE or DEGRADED belongs to a live
incarnation with acceptable status, and is promoted only while its lease, endpoints and
capabilities are good. Leases: only the live owner renews, a revocation is final. Fencing:
generations do not regress, tombstones keep old ones out. Coordinator: every death is
noticed, an acknowledged worker is served, nobody waits for ever. Persistence: no recovered
record is taken over by a new incarnation, loading is idempotent, and a load of a sound file
repairs what a failed one left. Accounting: no counter goes negative, nothing is counted twice, no record is
missing. Framing: the coordinator takes whole requests in order, a reply answers the request
it is read for, a call returns. Versions: the well-formed texts are accepted and no others, printing
loses nothing, the order is semver precedence. Discovery: only trustworthy instances are
returned, the best first, and every other candidate is accounted for.

## 2. Modules

| Module | Models | Extends |
|---|---|---|
| `RegistryTypes` | enums and descriptor records, maps | |
| `Registry` | authority, descriptors, instances, leases, fencing, the service index | `RegistryTypes` |
| `Incarnations` | abstract: what a client may rely on about incarnations | |
| `Coordinator` | coordinator threads, connections and worker processes around `Registry` | `Registry` |
| `Channel` | abstract: requests arrive whole and in order | |
| `Framing` | frames, sockets and the receive loops of both ends, byte by byte | |
| `Recovery` | `serialize_to` and `load_from` around `Registry` | `Registry` |
| `Accounting` | the counters, and the operations that move them | `Registry` |
| `Selection` | `Registry::query` against one registry state | `RegistryTypes` |
| `Versions` | parsing, printing and ordering of versions | |
| `RegistryProofs` | `Registry` is typed; authority, service and the refinement of `Incarnations` | `Registry`, TLAPS |
| `RegistryRecords` | records, leases, endpoints, descriptors and tombstones | `RegistryProofs` |
| `RecoveryProofs`, `AccountingProofs`, `CoordinatorProofs` | theorems about the three modules around `Registry` | theirs, `RegistryRecords` |
| `SelectionProofs`, `FramingProofs`, `VersionsProofs` | theorems about `Selection`, `Framing` and `Versions` | theirs, TLAPS |
| `RegistryClaims` | statements of the documentation the code does not keep | `MCRegistry` |
| `MCRegistry`, `MCRegistrations`, `MCAccounting`, `MCCoordinator`, `MCFraming`, `MCRecovery`, `MCSelection`, `MCVersions` | inputs for TLC | |

Names in the modules are the names in the code wherever a definition stands for a function
(`adopt_worker`, `reclassify_lifecycle`, `load_from`). An operator whose name starts with
`Bug_` is a wrong variant of the definition after it, with a mistake one could make in the
code; it is used by no specification. Substituting it makes TLC report the property paired
with it in `PROJECT.json`.

**Registry.** One variable per container of the class; `catalog` holds the six maps of
runtimes (by runtime and by instance), protocols, backends, devices and nodes, which share
one shape. A strong id or generation is a natural number, 0 the default-constructed "none".
One action per public operation. Its guard is `validate_envelope` plus the conditions under
which the code goes on; a call that throws before it changed anything is a stuttering step.
A call that throws *after* it changed something is an action with the part it did:
`RegisterOver` and `Install` model the supersession, the id taken from the allocator and the
endpoints claimed before the one that is refused. The envelope is any pair of an epoch and a
boot, so stale envelopes are tried in every state. `register_instance` takes the boot of the
instance separately from the boot of the envelope (`ForeignBoots`), because the library does
not compare them.

*Left out of Registry:* the counters (see Accounting), the history vectors and the
registry/record/authority generations (written, never read by an operation), wall-clock
fields of leases (stored, never read), descriptor fields that no operation reads, and the
by-kind, by-boot and by-node indexes (built by the same loop as the service index and never
read). `set_worker_health_reporting` has an empty body.

**Incarnations.** The promise without the records: per worker at most one live incarnation,
boot numbers never reused, and a set of served pairs (instance, boot) from which losing an
incarnation removes exactly its own. `Registry` implements it under the mapping `issued <-
next_boot`, `incarnation <- current_boot` (0 where absent), `serving <-` the AVAILABLE and
DEGRADED instances with their boots.

**Coordinator.** `conn[c]` is a worker process with its TCP connection and the thread that
serves it. The wire carries at most one message since the worker waits for every reply.
`Handle` is one pass of the loop of `handle_connection`, including the registry operation
and the reply; `EndOfStream` and `ShortRead` end the loop (a peer that is gone, and
`recv_one` giving up on a header that arrived in pieces), and both call `mark_worker_died`.
`Crash` may happen at any moment and loses the worker's state; what was on the wire may
still be read. A worker whose connection was cut reads an empty line and goes on with its
script, as `recv_line` does. *Left out:* PING and QUERY, which change nothing; UH and UR,
which no worker sends; a second HELLO on one connection, which no worker sends either; bytes
and frames. Replies reach the worker whole: the worker that gets half a header is in Framing.

**Framing.** One connection down to its bytes. `stream[e]` and `arrived[e]` are the bytes on
their way to an end and the bytes its `recv` can return; `Arrive` moves any number of them,
`Reset` discards what was on its way when the peer closed with unread data. `ReadHeader`,
`ReadBody` and `ReadEnd` are the calls of `recv` in `recv_one` and `recv_line`, which are the
same loop written twice; `Return` is what each end does with the result. A byte is its frame,
its place in it and the length the frame's header states. Bytes read from the middle of a
frame have a header length that can be anything, and never decode. *Left out:* contents,
magic, CRC and field layout, the message kind (no end looks at it). Two flaws of the code are
variables, so that the properties can name them: `cut`, the worker got half a header and reads
on in the middle of the reply; `unsent`, the reply exceeded `kMaxPayload`, `encode_frame`
returned nothing and nothing was sent.

**Channel.** The abstraction of the requests: the k-th one taken is the k-th one sent.
`Framing` implements it with `sent <- calls`, `taken <- handled`.

**Accounting.** The counters `accounting_negative` looks at, each operation of `Registry`
together with what it counts. `Reload` is `load_from`, which counts the records afresh.
`revived` is a history variable: the renewals that made an inactive lease ACTIVE again, which
the code does not count. *Left out:* counters of events and by lifecycle.

**Recovery.** The files a caller keeps (`Files`). `Save` writes to one what `serialize_to`
writes, `load_from` replaces the state by one at any later moment, `Restart` is a new process with an empty registry, `Operate` is any
operation of `Registry`. `get_instance` takes fewer list entries (`MaxList`, 4096 in the code)
than `register_instance`, so a registry can save what it cannot load: `load_fails` is then the
exception, with the maps cleared and partly refilled under the authority, allocators and index
from before. `long_history` stands for the vector of old instances, whose records are read by
the same function. `floor` and `damaged` are history variables; a load that succeeds makes
`damaged` FALSE again unless its file was itself saved in a damaged state. *Left out:* byte layout, and
the magic, version, count, CRC and digest checks (they throw before anything changes).

**Versions.** `parse_u64`, `valid_dot_identifiers`, both `parse`s, both `str`s and `compare`
over sequences of seven characters, one for each role a character can play. Overflow of the
int64 is undefined behaviour that the guard `v < 0` inspects too late; parsing and comparing
therefore return sets of outcomes. Splitting, reading a number and the loop of `compare` are
recursive functions, which the proofs can unfold. `Grammar` is the form `version.hpp` states,
written without the parser; `LeftOpen` names what the code accepts besides. The specification types every text of
bounded length.

**Selection.** `reg` is the registry a query sees, fixed during a behaviour since `query`
holds the mutex. `Visit` is one iteration of the loop, over any instance not yet visited;
`Finish` sorts, truncates and chooses the outcome. The filters are a sequence of (category,
condition) pairs of which the first that applies rejects, as the `continue`s of the code
do; the protocol check is apart because the code records its rejection and falls through.
Sorting is any order that `std::sort` may leave under the code's comparison (`Orders`).
Scores are integers: the code's doubles are whole numbers for every candidate that reaches
the ranking. A catalog holds no TOMBSTONED or INVALIDATED instance: no operation of the
registry stores these two lifecycles (theorems `LifecyclesStored` and, through saves and recoveries, `RecoveredLifecycles`). *Left out:* reasons, details, the explanation text.

## 3. Runs

Passing runs:

| Run | Configuration | Question | Distinct states |
|---|---|---|---|
| `registry` | `MCRegistrations.cfg` | do authority, records and service stay consistent through restarts, deaths and epochs, and can registrations and reports take, resurrect, roll back or promote what they should not? | 465,869 |
| `leases` | `MCAccounting.cfg` | who may renew, what ends a lease, can a lost lease promote, and do the counters follow? | 414,484 |
| `coordinator` | `MCCoordinator.cfg` | are restarts, crashes and cut connections handled, and does everyone finish? | 78,838 |
| `framing` | `MCFraming.cfg` | do requests and replies survive any cutting of the stream, and do calls return? | 73,885 |
| `recovery` | `MCRecovery.cfg` | is a loaded snapshot safe at any moment, and what does a failed load leave? | 353,027 |
| `versions` | `MCVersions.cfg` | what does the parser accept, and does it print and order it as semver says? | 16,806 |
| `selection` | `MCSelection.cfg` | is every answer trustworthy, ordered, complete and explained? | 49,392 |

`registry`, `leases` and `recovery` hold several scenarios in one run: the variable
`scenario` is chosen initially, never changes, and selects an `INSTANCE` of the module with
its own inputs (or, in `recovery`, the part of the state space the behaviour stays in). The
definitions are the same; only constants differ.

What they show:

- `AuthorityConsistent`: live boots, current boots and owners agree in every state.
- `ServingIsLive`: AVAILABLE and DEGRADED instances have a live boot and acceptable status.
- `RecordsResolve`: what `check_invariants` asks of records and index, also after
  registrations that failed half way; and `find_runtime` names a registered instance.
- `DeadBootsStayDead`, `LostBootsReleaseEverything`, `DeathIsIncarnationScoped`: a lost boot
  never returns, takes everything it held with it in the same step, and takes nothing else.
- `ImplementsIncarnations`: the registry implements the abstract specification.
- `LeaseRevivalIsFenced`: what "a stale boot can never renew a current lease" means, stated
  over the state instead of the guard: a revoked lease stays revoked, and a lease becomes
  ACTIVE again only while its owner is the live incarnation.
- `PromotionIsEarned`: at the moment an instance becomes AVAILABLE or DEGRADED its lease,
  endpoints and required capabilities are good. It need not stay so: the lifecycle is not
  recomputed when they change, which is why `query` tests again (`SelectedIsTrustworthy`).
- `ActiveOwnerKeepsEndpoint`, `TombstoneKeepsOut`, `DescriptorsAdvance`: what a registration
  may never take, resurrect or roll back, as long as ids chosen by callers, and ids named by
  tombstones, stay clear of ids handed out by the allocator (`KeepsClear`, `IdsKeptApart`,
  `TombstonesKeptApart`): in a collision the code overwrites the record, and a tombstone is
  looked up under the id the caller named, before the allocator chose one.
- `LiveBootHasThread`, `HoldingIsServed`, `FencedByGenerationOnly`: no incarnation is live
  without a thread that will declare it dead; a worker that holds an acknowledged
  registration owns its endpoint and is AVAILABLE (or UNREACHABLE, if its generation is not
  its own: see the list below); a live worker is refused only for a competing generation.
- `DeathIsNoticed`, `WorkersFinish`: liveness of the coordinator and the workers.
- `ImplementsRegistry`: the threads only do what `Registry` allows, so the theorems below
  apply to the coordinator's registry.
- `LeaseCountsBacked`, `CountersCoverRecords`: every active lease was counted or revived, no
  end of a lease is counted twice whichever of expiry, revocation, death and supersession
  comes first, no counter goes negative and no record is left out. The counters do drift, by
  at most `revived`: a renewal that revives a lease counts nothing.
- `RepliesMatch`, `RepliesAdvance`: while no header reached the worker in two pieces, a reply
  answers the request it was read for; after that a worker may miss replies or read an old one
  for a new request, but never one twice, out of order or from the future.
- `ImplementsChannel`: the coordinator takes whole requests in order or ends the connection.
- `CallsReturn`: a call gets a reply or an end of stream, with the two flaws as exceptions.
- `ServedSinceRecovery`, `RoundTripStable`, `AllocatorAhead`: nothing recovered serves under a
  boot of the past, loading twice is loading once, an allocated id is never handed out again.
- `WholeServes`, `WholeResolves`: `ServingIsLive` and `RecordsResolve` after any sequence of
  saves, loads, restarts and operations in which the last load was of a file that a sound
  registry saved. The scenario "repair" has two files, so that such a load comes after one
  that failed and left something serving for a dead boot; the theorem `LoadRepairs` states the
  repair as a property of the step. While a failed load lasts they do not hold, and a file
  saved then is not sound either. `AuthorityConsistent` holds throughout.
- `AcceptsGrammar`, `PrintsBack`, `OrderIsPrecedence`: `parse`, `str` and `compare` against
  definitions that follow semver's own words. `parse` accepts the texts of the grammar and,
  against the documentation (`claim_versions`), those that only want a component after the dot
  at the end of a part ("1.2.", "1.0.0-a."); nothing else. Numeric build identifiers with
  leading zeros, which semver allows, the code rejects; so does `Identifier`.
- `SelectedIsTrustworthy`, `SelectionIsDeterministic`, `EveryCandidateExplained`,
  `OutcomeIsBacked`: selected instances have a live boot, an active lease, the required
  capabilities and a health, readiness, freshness and reachability that meet the query; the
  selection is the prefix of one ranking whatever the visiting order; each considered instance
  is ranked or rejected; every outcome, each of the `*_ONLY` ones and INSUFFICIENT_EVIDENCE
  among them, agrees with the rejections.

**Bounds, and why they are enough.** `MaxBoot`, `MaxEpoch`, `MaxId`, `MaxLeaseGen` and
`MaxConnections` cap counters that otherwise grow for ever. Two workers with three boots give
a restart, a restart after a restart and a second worker that must not be touched; two epochs
give every record a life before and after a coordinator restart; two generations per record
give older, equal and newer. The run `registry` has four scenarios. In "incarnations" two
instances claim one endpoint, the newer one holds a lease, descriptors name the boot of their
caller, the one reachability reported is DEGRADED, and a new epoch uses up one of the three
boots. In "fencing" two services compete for one endpoint, with one id left to the allocator
and one that collides with it, under tombstones. "reports" and "descriptors" also try foreign
boots (`ForeignBoots`), as `leases` does. "descriptors" has one epoch, which no registration
of a descriptor compares with anything but the envelope. In `leases` the one lease can be
acquired twice and revived twice (`MaxRevived`), and a second scenario counts every kind of
record, with ids left to the allocator and ids in its way. In `coordinator`, which has two
scenarios, two processes of one worker or of two, of equal or different generations, that
crash and lose frames are enough for a predecessor and a successor whose requests and deaths
interleave; and three processes of one worker that stay, the last two of one generation, are
enough for a supersession whose endpoint a third one finds. At the end of their scripts
nothing more happens, so deadlock is not checked, and `WorkersFinish` says that nobody is
stuck before. In `selection` the catalogs are all pairs of 21 variants of an instance, next to
a good one, so every filter is met by the candidate that is best, second and last; a query
ends, so deadlock is not checked. In `framing` a header of three bytes (`HeaderSize`) can be
cut in two places, as one of ten can in nine; payloads of one and two bytes (`MaxPayload`)
make frames that end on and beside the end of a misread one, a reply of three is too large,
and three calls (`MaxCalls`) leave one after a reply was missed and one after that; the
connection ends, so deadlock is not checked. In `recovery` lists of two ids are too long
(`MaxList` 1); "leases" and "lists" keep one file, and "repair" two (`Files`), of which one
can be read and was saved by a sound registry and the other cannot be read. In the last two,
where nobody reports, instance 9 serves without a lease, so that a load that fails can leave
it serving for a dead boot. In `versions` integers go to 99 (`MaxInt`) and every text of four
characters (`MaxTail`) follows openings that lead into each part of a version; typing ends.
The theorems have neither bound.

**Fairness.** In `Coordinator`, `Main`, each thread's `Handle` or `EndOfStream`, and each
running worker's `Receive` are weakly fair: they are threads and processes of one machine
that run unless blocked, and `recv` returns once there is data or the peer is gone. Nothing
forces a process to start, to crash or to lose a frame. `Crash` and `ShortRead` have no
fairness. `WorkersFinish` speaks of workers whose replies arrive whole. In `Framing` each
end's `Receive` and each direction's `Arrive` are weakly fair, for the same reason and because
TCP delivers what was sent; no call has to be made, and no process has to crash.

### Disagreements between code and documentation

Each is a run that TLC must refute, with the quoted statement as its property:

| Run | Statement | What the code does |
|---|---|---|
| `claim_fence` | "A larger generation from an old boot never fences a fresh incarnation" (`README.md`) | `register_instance` compares with STALE records too, so the record of a dead boot rejects a restarted worker with a smaller generation |
| `claim_rejection` | "On rejection a RegistryError is thrown and no state changes" (`registry.hpp`) | the current instance is SUPERSEDED before the endpoint checks that may reject |
| `claim_history` | historical entries "never enter a current lookup accidentally" (`README.md`) | `update_health` and the other updates reclassify a superseded or retired record as current |
| `claim_selection` | "Hard filters eliminate candidates first" (`README.md`) | `goto done_proto` leaves the protocol block, not the iteration: an incompatible candidate is both rejected and selected |
| `claim_versions` | "malformed versions are rejected" (`README.md`); "majors require patch" (`version.cpp`) | an empty patch is taken as 0, and the loop of `valid_dot_identifiers` ends at the end of the text: "1.2.", "1.0.0-a." and "1.0.0+a." are accepted |

Modelling also showed, without a run of its own:

- `load_from` restores `next_boot_` from the snapshot without a new epoch, so boots issued
  after the snapshot was saved are issued again once it is loaded. This contradicts
  `README.md`, which calls a WorkerBootId "a unique, monotonic process incarnation".
  `ServedSinceRecovery` shows that no *record* changes hands through it; that two processes
  had one boot stays.
- A death leaves the endpoint it releases UNREACHABLE (`authority.cpp:101`), a registration
  with the stored generation does not replace the endpoint, and claiming a free one
  (`registry.cpp:291`) does not reset it. So an endpoint registered by a process of generation
  2 that got no further, then used and lost by one of generation 1, is found UNREACHABLE by
  the next process of generation 2, whose instance is acknowledged and never served.
  `HoldingIsServed` names this exception (`Rivalled`).
- A failed `load_from` leaves saved records, not revalidated, under the old authority, and a
  registry can write the file that does this.
- `deregister` called twice counts two deregistrations (`accounting.hpp`: "duplicate
  removal/expiration/invalidation never double-account"), an event counter outside the model;
  `available_instances` is decremented by operations and incremented by none but `load_from`.
- `RegistryConfig::max_history_per_identity` is never read: the histories grow without bound.

## 4. Proofs

The theorems hold for every set of workers, every bound, every set of inputs, every size of a
frame, every number of calls, and texts of every length. They state all 34 safety properties
that the passing runs check; what is left to TLC is liveness.

| Module | Theorem | States | Inductive invariant |
|---|---|---|---|
| `RegistryProofs` | `TypeCorrect` | `Spec => []TypeOK` | `TypeOK` |
| | `AuthorityCorrect` | `Spec => []AuthorityConsistent` | `TypeOK /\ AuthorityConsistent` |
| | `ServingCorrect` | `Spec => []ServingIsLive` | `TypeOK /\ ServingIsLive` |
| | `DeadBootsCorrect` | `Spec => DeadBootsStayDead` | `TypeOK` |
| | `RefinementCorrect` | `Spec => ImplementsIncarnations` | all of the above |
| `RegistryRecords` | `RecordsCorrect` | `Spec => []RecordsResolve` | `TypeOK /\ RecordsResolve` |
| | `DeathScopeCorrect` | `Spec => DeathIsIncarnationScoped` | `TypeOK /\ AuthorityConsistent` |
| | `ReleaseCorrect` | `Spec => LostBootsReleaseEverything` | with `RecordsResolve`, `AllocatorsSound` |
| | `LeaseRevivalCorrect` | `Spec => LeaseRevivalIsFenced` | with `AllocatorsSound` |
| | `PromotionCorrect` | `Spec => PromotionIsEarned` | `TypeOK /\ RecordsResolve` |
| | `EndpointOwnersCorrect` | `Spec => ActiveOwnerKeepsEndpoint`, if `KeepsClear(EndpointInputs)` | with `AllocatorsSound` |
| | `DescriptorsCorrect` | `Spec => DescriptorsAdvance`, if `IdsKeptApart` | the allocator is ahead of allocated ids |
| | `LifecyclesStored` | no instance is stored as TOMBSTONED or INVALIDATED | `TypeOK`, itself |
| | `TombstonesKeepOut` | `Spec => TombstoneKeepsOut`, if `TombstonesKeptApart` of endpoints and runtimes | the same |
| `RecoveryProofs` | `LoadRepairs` | `RecoverySpec =>` after a load of a file a sound registry saved, whatever the state before, `ServingIsLive` and `RecordsResolve` | `RecoveryInv` |
| | `RecoveredAuthority`, `RecoveredServing`, `RecoveredRecords`, `RecoveredIncarnations`, `RecoveryIdempotent`, `RecoveredAllocator` | `RecoverySpec => []` of `AuthorityConsistent`, `WholeServes`, `WholeResolves`, `ServedSinceRecovery`, `RoundTripStable`, `AllocatorAhead` | `RecoveryInv` |
| | `RecoveredLifecycles` | the same as `LifecyclesStored`, through saves, restarts, loads and loads that fail | `RecoveryInv`, `StoredOnly` |
| `AccountingProofs` | `CountersCorrect`, `LeaseCountsCorrect` | `AccountingSpec => []` of `CountersCoverRecords`, `LeaseCountsBacked` | `AccountingInv` |
| `CoordinatorProofs` | `ThreadsCorrect` | `CoordinatorSpec => []LiveBootHasThread` | `ProcessInv` |
| | `CoordinatorImplements` | `CoordinatorSpec => ImplementsRegistry` | `ProcessInv` |
| | `HoldingCorrect`, `FencingCorrect` | `CoordinatorSpec => []` of `HoldingIsServed`, `FencedByGenerationOnly`, if no worker has id 0 | `ProcessInv /\ HoldingInv` |
| `SelectionProofs` | `ExplanationComplete`, `OutcomeTrue`, `SelectionCorrect`, `SelectionTrusted` | `SelectionSpec => []` of `EveryCandidateExplained`, `OutcomeIsBacked`, `SelectionIsDeterministic`, `SelectedIsTrustworthy` | `LoopInv` |
| `FramingProofs` | `RepliesInOrder`, `RepliesCorrect` | `FramingSpec => []` of `RepliesAdvance`, `RepliesMatch` | `FramingInv` |
| | `ChannelCorrect` | `FramingSpec => ImplementsChannel` | `FramingInv` |
| `VersionsProofs` | `AcceptsCorrect`, `PrintsCorrect`, `OrderCorrect` | `VersionsSpec => []` of `AcceptsGrammar`, `PrintsBack`, `OrderIsPrecedence` | what is typed is a text |

*Assumptions*, all evaluated by TLC in the runs of the modules that state them:
`BoundsAssumption` (workers and bounds are naturals), `InputsAssumption` (the inputs are
descriptors of the right type), `MaxListAssumption`, `MaxRevivedAssumption`,
`CoordinatorAssumption` (generations are naturals and there is room for the epoch that `main`
begins), `RequestsAssumption` (what the coordinator builds from a request is an input of
`Registry`), `QueriesAssumption` and `CatalogsAssumption` (queries and the records they read
have the types of the code; finitely many instances), `FramingAssumption` (sizes are positive
and a request fits into a frame), `VersionsAssumption` and `TextsAssumption` (the width of
integers is a natural; openings and the texts of `Corpus` are texts, and the numbers in the
latter fit). Nothing is assumed about which inputs there are, so colliding
ids and instances that name a foreign boot are covered; the three theorems that a collision
would refute carry the condition as a hypothesis. So do `HoldingCorrect` and `FencingCorrect`:
the endpoint of a worker with id 0 is stored under an id of the allocator
(`register_endpoint`), and its instance, which names endpoint 0, is refused.

*Authority and service.* `AuthorityConsistent` needs more than "live boots are issued": the
step that revokes boot `b` looks up its owner and clears the owner's current boot only if
it is `b`, so that the lookup finds the right worker is part of the invariant (the owners'
domain is the set of live boots, and owner and current boot are inverse to each other).
`AuthorityFrame` shows once that no operation of `registry.cpp` touches the authority,
which leaves three actions. `ServingIsLive` is inductive because everything that sets a
serving lifecycle goes through `reclassify_lifecycle` (lemmas on `classify` and the two
aggregates), and every step that shrinks the live boots either rewrites the instances of
the lost boot or all instances that could serve. The refinement then has one lemma per
abstract action.

*Records.* `RecordsResolve` survives a registration that fails half way because the
supersession and the endpoints claimed before the refusal only rename owners to an id that is
stored or was free. `ReleaseCorrect` needs `AllocatorsSound`: no instance is stored under the
id 0, which an endpoint without owner names. `LeaseRevivalCorrect` needs that every stored
lease generation was issued, or an acquisition could hide a revival. The three theorems about
descriptors need that every allocated id is below `next_id`.

*Recovery.* A load replaces the state by a file, so the invariant is also about the files
(`DiskSound`: each typed, and sound unless it was saved in a damaged state), and about the boots
that are live since (`FloorSound`). The lemmas about `Registry`'s steps do the rest: `Operate`
is a step of `Registry`.

*Accounting.* The counters are compared with cardinalities. A registration with a known id
adds no record and counts nothing; that this is never the id 0 ("allocate one") is the
strengthening. That ends of leases are not counted twice is `LeaseCountsBacked` itself: each
step removes at most as many ACTIVE leases as it subtracts.

*Coordinator.* `ProcessInv` says which boots the threads have: distinct ones, all issued, and
none live once its thread is done. With it every step of a thread is a step of `Registry` or
none, under an envelope `Registry` allows. `HoldingInv` relates the requests of a running
worker with a live boot that were answered to what they left: its service, its endpoint, its
capability, then its instance (`Progress`). It needs to know who wrote each record
(`Written`), and that an endpoint is bound only to an instance of a live boot (`Bound`). A
worker has one live boot, and what is bound to its endpoint is its own, so no request, death
or restart of another process reaches it (`Spared`), and the endpoint is free when the worker
registers its instance. What is left to refuse it is a generation, and that generation has an
author other than the worker itself: a rival.

*Selection.* What the loop has recorded is a function of the set of visited instances
(`LoopInv`), so the visiting order cannot matter, and a comparison that is a strict total order
on the candidates leaves one sorted sequence (two that differ would differ first somewhere,
and there each order contradicts the other).

*Framing.* What an end has not dealt with, in its buffer, at its socket and on its way, is one
sequence, of which a receive loop drops a beginning and to which the other end adds whole
frames. The invariant keeps it a *window of frames*, stated for all pairs of places so that
no induction over the sequence is needed to use it: two places are in one frame at the
distance their positions say, or the later one is in a later frame. The coordinator's window
starts at the request it takes next, as long as its socket is open, which is
`ImplementsChannel`. The worker's holds replies newer than all it took, also after it lost its
place, which is `RepliesAdvance`; and while it has its place the window starts at a frame, so
that a call gets exactly the reply to it.

*Versions.* The three properties hold of every text, so the invariant is only that what is
typed is one; the work is in the operators. Each recursive function is shown to be a fold over
the text, whose two equations (the empty text, one character more) come from the existence and
uniqueness of its run. Induction is then over sets of numbers and of texts, by the least number
left out. On that rest: a text is the dots and words `Split` finds, in one way
(`SplitInjective`); the pieces `parse` cuts at the first plus and the first dash before it are
those the text was joined from (`JoinedParts`), and a prerelease it accepts has no plus, a core
no sign, so that the cuts of the grammar, which may be anywhere, are those of the parser
(`LenientForm`, `ParseAccepts`). A dot that ends a part is completed alike on both sides
(`CompletedForm`, `ValidIdentifiers`), and what the strict grammar takes has nothing to
complete (`WellFormedWhole`), which separates `Grammar` from `LeftOpen` (`GrammarForm`). Printing inverts reading digit by digit (`PrintNumber`),
as there is no leading zero. The loop of `compare` is solved from its end (`LoopExists`): equal
identifiers give 0, so its verdict is that of the first difference (`LoopVerdict`), where
`Decides` says that one of two different identifiers is below the other, in `compare` as in the
reference order (`IdentifierOrder`). Identifiers with equal numbers are equal because their
numbers print as themselves. The theorems are about the seven characters of the model, three of
them digits; of a digit the arguments use its value only, 0 or another below ten.

*Only model-checked.*

- `DeathIsNoticed`, `WorkersFinish`, `CallsReturn`: fairness and ENABLED are beyond the proof
  system. `CoordinatorImplements` and `ChannelCorrect` are about safety; the abstract
  specifications state no fairness.
- That some sorted order of the candidates exists, so that `Finish` can be taken: this is about
  what a step can do, not about what it may not.

## 5. Not modelled

- CRC-32, SHA-256 and the byte layout of frames and snapshots: arithmetic out of a model
  checker's reach, and checks that throw before anything changes.
- The command line tool (it drives the library sequentially), explanations and the text of
  enums (rendering), typed capability values (compared by no operation of the core).
- Event counters and the contents of the history vectors (written, read by no operation).
- PING, QUERY, UH, UR and a second HELLO in `Coordinator`. The first two change nothing; the
  others are sent by no worker of the repository, and `Registry` models the operations they
  would call.
- Compatibility records and dependencies (stored by nothing but `load_from`).
- Accessors that read without the mutex (`find_*`, `authority()`): they have no concurrent
  caller in the repository.
- The proof programs under `proofs/` and the tests.

## 6. Plan

Done: all modules above with their runs, and the theorems of section 4.

Left for TLC: the properties section 4 lists as only model-checked. Left out: section 5.

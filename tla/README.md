# A TLA+ model of parts of Open Policy Agent

OPA keeps policies and documents in a transactional store, compiles the
policies, evaluates queries against a snapshot of the store, and runs plugins
beside the server: bundles are downloaded and activated, decisions are logged
and uploaded, status is reported. The modules here model the parts of it where
goroutines, locks, limits, retries and restarts meet. TLC checks every module on
small instances; TLAPS proves properties of the in-memory store, of the inter-query
cache, of the store that bundles and API clients share, of the bundle plugin, of the
plugin manager and of the disk store for every value of their constants.

## The system and its parts

| part | source | module | state |
|---|---|---|---|
| storage interface | `storage/interface.go` | `Store` | abstract specification |
| in-memory store: locks, triggers | `storage/inmem/inmem.go`, `txn.go` | `InmemStore` | checked and proved |
| in-memory store: updates of a transaction | `storage/inmem/txn.go`, `inmem.go`, `internal/merge`, `internal/deepcopy`, `storage/internal/ptr` | `Documents`, `InmemTxn` | checked |
| inter-query builtin cache | `topdown/cache/cache.go` | `InterQueryCache` | checked and proved |
| decision logs: chunk encoder | `plugins/logs/encoder.go` | `ChunkEncoder` | checked |
| decision logs: buffer, uploader, shutdown | `plugins/logs/plugin.go`, `buffer.go` | `DecisionLogs` | checked, periodic mode |
| disk store: layout over partitions | `storage/disk/partition.go`, `paths.go`, `txn.go` | `DiskPartitions` | checked |
| disk store: locks, `Truncate`, crash and restart | `storage/disk/disk.go`, `txn.go` | `DiskStore` | checked, partly proved |
| bundle download, bundle plugin | `download/download.go`, `plugins/bundle/plugin.go` | `BundlePlugin` | checked, partly proved |
| bundle activation, data and policy API | `bundle/store.go`, `server/server.go`, `ast/conflicts.go` | `BundleStore` | checked and proved |
| plugin manager, status, discovery | `plugins/plugins.go`, `plugins/status`, `plugins/discovery` | `PluginManager` | checked and proved |
| runtime, SDK, REST clients, bundle files and signatures | `runtime/`, `sdk/`, `plugins/rest`, `bundle/bundle.go`, ... | | not modelled |
| parser, compiler, evaluator, planner, wasm, formatter, tools | `ast/`, `topdown/`, `internal/planner`, `wasm/`, `cmd/`, ... | | not modelled |

The last row is sequential code over syntax trees, where a bounded model says
less than the repository's own test suites. It is also most of the repository:
the lines that the definitions here translate are about 5,200 of some 124,000 of
Go, four in a hundred of the whole, and about a quarter of the files they are in.
`PROJECT.json` has the full list of parts, and the hazards of this code with the
lines where they bite.

How the parts meet. The server opens one transaction of the store for each
request, and evaluates with the compiler that a commit trigger of the manager
has built from the same store. Builtins keep results in the inter-query cache,
whose configuration the server replaces at run time. Every decision is handed to
the decision log plugin, which writes it to its encoder; the encoder's chunks go
to its buffer, and from there to a remote service. Bundles come from a loader per
bundle, whose goroutines call back into the bundle plugin; the plugin activates a
bundle in one transaction of the store, which erases what the bundle had before
and refuses roots that another bundle owns, as the API refuses to write there.
The manager creates, starts, reconfigures and stops the plugins, at boot or when
discovery finds a new configuration; the plugins tell the status plugin over
channels how they fare.

How the modules meet. `DecisionLogs` extends `ChunkEncoder`, and `DiskStore`
extends `DiskPartitions`, so that these are composed as in the code. `BundleStore`,
`DiskPartitions` and `InmemTxn` share the documents of `Documents`. `BundlePlugin`
has of a bundle in the store only its revision and ETag; `BundleStore` has its
contents, and its step `Activate` is the transaction that `ProcessActivated` of
`BundlePlugin` stands for. `PluginManager` has of each plugin only when it runs
and what it reports. `Lists` has the few operators on sequences that most of these
modules and their proofs share.

## Modules

### Store

What `storage.Store` promises: a transaction works on the contents as they were
when it began, one writer at a time, a commit makes all changes visible at once,
an abort none, and triggers run before anyone else sees the change. Variables:
the committed contents, what each client is doing, and the view of its
transaction.

### InmemStore

Clients are goroutines that run one transaction after another. `wmu`, `readers`
and `rwriter` are the two locks of the store: `wmu` is the mutex held through a
write transaction; `rmu` is a `sync.RWMutex`, whose exclusive side, once asked
for, keeps new readers out. `Commit` is several actions, because other clients run
between them: `CommitLock` (asks for `rmu`), `CommitApply` (has it; applies the
updates), `RunOnCommitTrigger` for each trigger, `CommitUnlock` and
`CommitRelease` (the two unlocks). The other methods are one action each.

Abstractions. A path has one segment, so the update list is a function from
paths to pending updates; `InmemTxn` has the list itself. The flag `stale` and
transaction ids guard against calls on a transaction that is over, which the
clients here do not make; the updates of such a transaction, which the code leaves
in it, are forgotten when it ends. The part of `Truncate` that writes policies is
`UpsertPolicy`. Triggers read and do not write.

### Documents and InmemTxn

`Documents` has plain JSON documents and what a patch means for them: the
reference. `InmemTxn` is one transaction on documents in a heap, because Go's
maps and slices are references that two documents can share: `WriteOutcome` is
`transaction.Write` with its compaction of the list, `ReadOutcome` is `transaction.Read`, `CommitOutcome` applies the list,
`Truncate` loads a bundle's files (`MakeDir`, `Mktree`, `InterfaceMaps`,
`Lookup`). The ghosts `base` and `expected` are the document the last commit left
and that document patched by each write in turn. After an error other than the
not-found of a remove the transaction can only abort, as the callers do.

Abstractions. A value written is a fresh copy (the store's round trip through
JSON, on by default). Indices are the canonical decimal numbers and `-`.

### InterQueryCache

`cache` holds the map, the list and `usage` of the struct, `config` its
configuration. All methods hold the mutex and are one action each. The clean-up
goroutine is two, `CleanUp` and `RearmTicker`, because it reads the
configuration again, without the lock, between them. `Get` and `Clone` change
nothing. Values are a size and an expiry time; the clock is a bounded counter.

### ChunkEncoder

`Encode` is `Write`, `FlushEncoder` is `Flush`, and `Reset` is `reset` with its
three cases `ScaleUp`, `Stable` and `ScaleDown`. An event is its length and what
it adds to a compressed stream; a chunk is its events. `Encode` and `Reset` call
each other, as in the code, so this module and those that extend it carry no
theorems.

Abstractions. The length of a gzip stream is a constant plus a contribution of
each event. The exponents, which the code adds up as floats in steps of 0.2, are
exact fifths; at an exponent that is a whole number the code's rounding may give
a factor smaller by one.

### DecisionLogs

The plugin in periodic mode with a service. `enc` and `buffer` are shared and
change under the mutex. `up` has the `oneShot` call of each goroutine that
uploads: the loop, and during a graceful `Stop` the flush goroutine. `TakeOver`
is the locked head of `oneShot` with the flush of the old encoder, which is then
private; after it, uploads (`UploadOK`, `UploadFails`) and the putting back of
chunks (`Requeue`) interleave freely with `Log` and the other goroutine. An
upload may fail before or after the service has taken the chunk. `StopLoop` is
the handshake of `Stop` with the loop, which is possible only in its `select`.

Ghosts: `logged`, `received`, `dropped` (given up with a message in the log),
`unsure` (received in an upload that was reported failed), `early` (logged
before `Stop`).

Abstractions. Masking, the drop decision and the console logger come before the
buffer. The rate limiter lets pass any subset of the events. A configuration is
its two size limits. The passing runs use events that compress, so that a flush
never scales down; what happens when one does is in `MCEncoderFlush.cfg`.

### DiskPartitions and DiskStore

`DiskPartitions` is how a document is laid out over the keys of a key-value
store: a partition is a path that may have wildcards, a node of the trie the set
of what is left of the partitions through it. `Find` is the trie's, `Read` and
`PartitionWrite` are those of a transaction, `ValidatePartitions` is the check a
restart with other partitions has to pass.

`DiskStore` has one writer, which holds `wmu` in every state but `idle` and
`down`, and readers, which hold the shared side of `rmu` from `ReaderBegins` to
`ReaderEnds`. `dbs` are the databases by directory, `active` and `backup` the two
that the store knows, `link` the symbolic link that leads a restart to the right
one. `Truncate` copies the database, commits the transaction in flight and goes
on with a new one; `Abort` then has four steps (wait for the readers, remove the
link, set the link, swap), and the process may die between any two of them.
`committed` and `crashes` are history.

Abstractions. Badger is a map with transactions. Policies and triggers are left
out. A path below a partition holds objects and scalars, no arrays. `Restart`
discards the directories that nothing leads to, which the code leaves behind; it
would open one of them again only if that is `data` and the link is lost.
`Truncate` is one step. The code commits several times in it when badger's
transaction is full, and a crash between two of these commits is outside the model.
`MaxTruncates` is one per transaction, as when one bundle is activated; a
transaction that activates several lazily loaded bundles calls `Truncate` for each
of them and is outside the model too.

### BundlePlugin

The bundle plugin with its loaders: HTTP downloaders, periodic or manual, and
file loaders. `config`, `status`, `etags`, `downloaders`, `ready` and `stopped`
are the fields of the plugin; `loaders` are the loaders created so far, which
outlive their place in `downloaders`; `work` is what the goroutines of a loader do:
its loop, and one goroutine for each caller of `Trigger`. A request remembers the
ETag it was sent with; the answer (`Fetch`, `FetchFails`) sets the loader's ETag
at once, and the callback (`Process`, under `p.mtx`) follows later, so that other
goroutines run between them. `Plugin.Stop` and `Reconfigure` stop loaders one by
one without the mutex (`StopperStops`, `ReconfigureStops`), and
`ReconfigureApplies` is the rest of `Reconfigure`, under it. `Crash` is a restart
of the process, with a store in memory or on disk and with what was persisted;
`CrashUnsaved` is one between the activation of a bundle and its being saved. A 304
whose headers have no ETag leaves the loader with the one it has at that moment.

Abstractions. A bundle is a version that a service published, and is its own
ETag; the versions of a service only grow. Whether a bundle compiles is a property
of the version. A delta applied to another base than its own may fail or be taken;
the store's revision is then `Mixed`. Delays are left out. A panic stops every
step of the process but a restart. Which bundles are triggered is a constant: the
code's `Trigger` triggers every loader there is, so `EtagNamesBundle`,
`QuietAfterStop` and `Converges`, which are about polled bundles, assume an
environment that does not call it for these. A loop that is told to stop may, where
its `select` finds the timer due as well, make one more request, which fails; the
model leaves it out. With it the instance of `bundle_plugin` has 310,302 states, and
TLC found the same properties to hold there.

### BundleStore

Base documents, stored policies, the manifests of active bundles and the
manager's compiler. Every operation is one write transaction, hence one step:
`Activate` (one delta, or snapshots together), `Deactivate`, the data handlers
PUT, PATCH and DELETE, the policy handlers PUT and DELETE. Its guard is the
conjunction of what would make the operation fail. `content` is a ghost: what the
last activation of each bundle was to put in place.

Abstractions. A policy is its package, the one rule it defines and the rules its
body calls as functions; it compiles when no rule lies inside another and what is
called exists. Metadata, WebAssembly modules and signatures are left out. Policies
of bundles are stored under ids that carry the bundle's name. Documents are objects
and scalars (`IsDocument`): a root or an API path that leads into an array is left
out, arrays are in `InmemTxn`.

### PluginManager

A thread is the list of calls it has yet to make; a call that blocks is the head
of such a list and has no step. `main` boots the process and stops it; `bundle`,
`decision_logs` and `discovery` are the goroutines of these plugins; `loop` is the
goroutine of the status plugin, `channel` its buffered channel for the statuses of
plugins. The reports of bundles, decision logs and discovery go over channels
without a buffer (`Tell`), and so have to meet the loop at its `select`. Discovery
creates, starts and reconfigures plugins while the process runs
(`DiscoveryConfigures`). The history variable `raced` records that two updates
of plugin statuses overlapped.

Abstractions. What a goroutine does between two reports is in the other modules.
`Start` does not fail. The order in which a configuration's plugins are created
is the code's (`Each`): bundle, decision logs, status.

Definitions marked "Mutant" in the modules are variants of the definition that
follows them, each with a plausible mistake; no specification uses them. For every
property of a passing run `PROJECT.json` names one by which TLC finds the property
violated.

## Runs that pass

| run | bounds | states | shows |
|---|---|---|---|
| `inmem_store` | 3 clients, 1 path, 1 policy, 2 values, 1 trigger | 147,528 | `TriggersBeforeClients`, `SnapshotStable`, the inductive invariant `IInv`, `EveryoneServed`, and `ImplementsStore`: the store implements `Store` |
| `inmem_txn` | 3 writes, removals or bundle loads on two initial documents | 168,869 | `NoOverlap`, `ReadYourWrites`, `CommittedIsExact` where array elements are scalars |
| `cache` | 3 keys, sizes 1 to 3, limits 3 and 2 | 4,224 | `Accounting`, `GrowthWithinLimit`, `EvictionIsFIFO`, `StaleEntriesLeave` |
| `encoder` | 7 events of 3 kinds, flushes in between, limit 12 | 194,701 | `EventsConserved`, `ChunksFit` |
| `decision_logs` | 3 events, 2 configurations, with and without rate limit | 1,150,500 | `NothingLost`, `NoDuplicates` |
| `decision_logs_live` | 2 events | 15,520 | `EventsDelivered`, `StopReturns` |
| `disk_store` | 7 settings: 13 patches under 4 layouts; partitions added by up to 2 restarts; 2 readers, `Truncate`, failures and a crash | 34,181 | `PointReadsAgree`, `WriteIsPatch`, `AbortRestores`, `ReadersUndisturbed`, `RestartKeeps`, `CommitReturns` |
| `bundle_plugin` | 11 deployments of up to 2 bundles, up to 3 versions, 2 loaders per bundle, 2 callers of `Trigger`, 1 fault | 167,537 | `ReadyMeansActive`, `EtagNamesBundle`, `StatusIsTrue`, `QuietAfterStop`, `Converges`, `BecomesReady`, `StopReturns` |
| `bundle_store` | 12 activations of 2 bundles, 7 data paths, 2 patch lists, 4 policies | 5,190 | `RootsDisjoint`, `BundleIntact`, `RulesOffData`, `OnlyRemovalBreaks`, `OthersUntouched` |
| `plugin_manager` | 3 deployments of 4 plugins, with and without discovery | 107,310 | `StoppedIsQuiet`, `ReportsSettle`, `ReportsArrive`, `StopReturns` |

Three clients are what it takes to have a reader and a second writer wait on one
commit. Three writes let one write mask, another fall inside, and a third meet
both. Cache entries of one to three bytes under a limit of three make one
insertion evict none, some or all. Seven events let the encoder scale up and,
after less compressible ones, scale down and write its events again. Three events
under an upload limit of 12 bytes fill two chunks and leave one open, and the
third fits only without its cache of builtin results.

The disk store's patches lie at, above and below each partition; two readers let
one end while the other keeps a `Commit` waiting, and three databases let an
aborted `Truncate` be followed by another. Two versions of a bundle are a base and
its delta, or one that works and one that does not compile; two loaders of one name
are an old one that still answers and its successor. The roots in `bundle_store`
are nested, disjoint, moved and overlapping from one revision to the next, and a
delta, a removal and an API write can each meet every one of them.

In `disk_store`, `bundle_plugin` and `plugin_manager` the instance is a variable
(`env`), chosen at the start and never changed, so that several small instances
share a run.

Some conditions are limits of what the code promises. Triggers that overlap are of
a bundle without deltas (`MCBundleDeltas.cfg` has the others). In
`EtagNamesBundle` the store is compared only where the status shows no error, since a
bundle that was activated but not persisted is in the store and not in the books
(`MCBundleEtag.cfg`); one of the deployments has a version that cannot be persisted
and after it one that does not compile. In `ReportsSettle` updates that overlapped are left out,
since the manager calls listeners after it has released its mutex; `StoppedIsQuiet` is
about the plugins that were registered when `Manager.Stop` began; `ReportsArrive` and
`StopReturns` of `plugin_manager` are about deployments in which the status plugin is
registered after those that report to it (`MCManagerStop.cfg` has the other order).
`RestartKeeps` covers transactions that have not called `Truncate`, and an `Abort` once
it has linked the backup; between these points what `Truncate` has committed is in the
database in use, and a restart finds it. `PointReadsAgree` holds where restarts add
partitions, not where one puts a pattern in the place of another (`MCDiskLayout.cfg`).

Each module also has a `TypeOK`. It held at these bounds and is not listed in the
runs; adding it to the `INVARIANTS` of a configuration checks it again.

Deadlock is not checked in the runs of the encoder, where the number of events
is bounded, of the decision logs and the plugin manager, where the process stops,
of the disk store, where a failed commit keeps the locks and a process that dies
may find nothing to start with, and of the bundle plugin, where all that is to
be published may have been activated by a plugin that is stopped.

## Runs that show a disagreement

| run | property | what the trace shows |
|---|---|---|
| `inmem_txn_rollback` | `CommittedIsExact` | with objects in an array, an open transaction changes committed data in place |
| `decision_logs_flush` | `FlushedIsDelivered` | `Stop` reports a complete flush while the loop is about to put a failed chunk back |

The findings in `PROJECT.json` quote the comment, document or test each of these
contradicts.

## Further configurations

These are not runs of `PROJECT.json`. Each checks one property with which TLC
finds a disagreement between the code and what the repository says of it, on the
module named; `tlc -config <file> <module>` reproduces it.

| configuration | module | property | what the trace shows | what it contradicts |
|---|---|---|---|---|
| `MCCachePeriod.cfg` | `MCInterQueryCache` | `ZeroPeriodDisables` | setting the eviction period to zero at run time makes `time.NewTicker` panic (`cache.go:139`) | `cache.go:123`, `configuration.md:809` |
| `MCCacheThreshold.cfg` | `MCInterQueryCache` | `ThresholdIsPercentage` | the percentage is rounded up to one before it is applied (`cache.go:223`) | `cache.go:33`, `cache_test.go:289` |
| `MCEncoderFlush.cfg` | `MCChunkEncoder` | `FlushEmpties` | a flush that scales down leaves events in the encoder (`encoder.go:184`), which `oneShot` then drops | `logs/plugin.go:822` |
| `MCDecisionLogsLimit.cfg` | `MCDecisionLogs` | `BufferWithinLimit` | `Push` drops one chunk at most, and the buffer outgrows its limit (`buffer.go:36`) | `buffer.go:12` |
| `MCDiskBackup.cfg` | `MCDiskStore` | `ActiveExists` | after an aborted `Truncate` the store still calls its database the backup, and the next commit removes it (`disk.go:534`) | `disk.go:107` |
| `MCDiskLayout.cfg` | `MCDiskStore` | `PointReadsAgree` | when `/a/b` gives way to `/a/*`, a value written whole under the key `/a/c` stays there; reading everything shows it, reading below its path does not | the package comment of `disk.go`: partitions may be added where "they do not overlap with existing unpartitioned data" |
| `MCDiskRemove.cfg` | `MCDiskStore` | `RemoveAddsNothing` | removing `/a/b` where there is no `/a` writes an object with a null (`disk/txn.go:565`, `:594`) | `disk_test.go:1325` |
| `MCBundleLate.cfg` | `MCBundlePlugin` | `NoPanic` | the answer to a manual trigger arrives after `Reconfigure` has dropped its bundle (`bundle/plugin.go:476`) | the comment at `:167` |
| `MCBundleEtag.cfg` | `MCBundlePlugin` | `SendsLastActivation` | a bundle that was activated but not persisted is asked for again with an older ETag (`bundle/plugin.go:519`) | `management-bundles.md:623` |
| `MCBundleOverlap.cfg` | `MCBundlePlugin` | `ConfirmsWhatIsStored` | two triggers overlap; the older answer is activated last, while the loader has the newer ETag (`download.go:157`), which a 304 then confirms | `management-bundles.md:131` |
| `MCBundleDeltas.cfg` | `MCBundlePlugin` | `StatusIsTrue` | two triggers overlap; the first answer has set the loader's ETag but is not activated, the second is a delta to it and is activated first, on another base (`download.go:275`) | `management-bundles.md:623` |
| `MCBundleRestart.cfg` | `MCBundlePlugin` | `ConfirmedIsReady` | after a restart with a store on disk a 304 confirms the stored bundle, whose status stays unactivated, and the plugin is never ready (`bundle/plugin.go:544`) | the comment at `:547` |
| `MCBundleWhole.cfg` | `MCBundleStore` | `RemovalErases` | data of a bundle whose root is the whole document stays when the bundle is removed (`bundle/store.go:629`) | the comment at `:325` |
| `MCManagerStop.cfg` | `MCPluginManager` | `StopReturns` | when discovery configures the status plugin before the bundle plugin, it is stopped first; a callback of the bundle plugin then waits on its channel, with the mutex that its `Stop` needs (`plugins.go:734`) | the comment at `plugins.go:710` |

More disagreements came out of TLC or of reading the code and have no
configuration. The passing runs do not show their absence:

- Overlapping updates. With objects inside an array, a pending `/l/0/b` and then a
  write of `/l/0` or `/l/1` leave updates at `/l` and at `/l/0/b`; `txn.go:21` says
  "two updates never overlap". `inmem_txn` has arrays of scalars only.
- Lost add. A replace of a path added by the same transaction fails and drops the
  add; `txn.go:24` says the existing update is removed and the new one added.
- Open stream. Events that gzip makes longer stay in the encoder and are written
  again with each new one; `encoder.go:131` says the soft limit decides when to
  flush. `encoder` has events that compress.
- Empty chunk. With limit 10 and some forty events of 8 bytes that add nothing to
  the stream, except the 17th and 18th which add 5, the soft limit falls below the
  limit and a closed empty stream is returned; `management-decision-logs.md:32`
  says the body is a JSON array. `encoder` stops at seven events.
- Locks after a failed commit. When badger's commit fails, `Commit` of the disk
  store returns with both locks held (`disk.go:482`); `storage/interface.go:33`
  has a transaction be over once `Commit` returns. `CommitFails` is in the model,
  and leads to a state with no further step of the store.
- Late plugins. A plugin that discovery registers after `Manager.Stop` has copied
  its list is not stopped (`plugins.go:718`); the comment at `:710` says all
  plugins are. `StoppedIsQuiet` is about those in the list.
- Reconfigure after Stop. `Plugin.Stop` of the bundle plugin sets its map of
  loaders to nil, and a later `Reconfigure` that adds a bundle writes to it
  (`bundle/plugin.go:233`). `ReconfigureApplies` has this as a panic.

`cache` always has a size limit; the branch without one is in the model and in no
passing run.

## Fairness

- `inmem_store`: transactions end (requests and queries terminate), callbacks
  return, and a goroutine that waits on `wmu` gets it in the end: strong fairness
  of `AcquireWmu` is the starvation mode of `sync.Mutex`. Readers need none,
  since `rmu.Unlock` admits all that wait.
- `cache`: the clean-up goroutine is scheduled and its ticker fires.
- `decision_logs_live`: goroutines are scheduled, the delay and the deadline
  pass. Strong fairness of `StopLoop`: the loop comes back to its `select` again
  and again, and a `select` chooses among ready cases at random. Strong
  fairness of `UploadOK` states that the service does not refuse for ever, which
  is what delivery depends on. `StopReturns` rests on it too: it is the only
  assumption here by which a request ends, where the code has a timeout.
- `disk_store`: readers end their transactions, and a `Commit` or `Abort` that has
  its locks goes on. Nobody has to write, to restart or to crash.
- `bundle_plugin`: the loops and the steps of `Stop` and `Reconfigure` are
  scheduled. Strong fairness of a loop's `Fetch`: a service that is asked again and
  again answers again and again. Nobody has to trigger, reconfigure, stop or
  publish, so only polled bundles are promised to converge.
- `plugin_manager`: strong fairness of each thread's next call and of the status
  plugin's receive: they compete for channels and for a mutex, a `select` chooses
  at random and a channel serves those that wait in their order. A post ends,
  with an answer or a timeout. Nobody has to download, upload or stop.

## Proofs

### The in-memory store

`InmemStoreProofs` is about `InmemStore`, from the
assumption `ConstantsDistinct`: the three marker values are neither values nor
clients nor each other, and no path is a policy id. The sets are arbitrary,
finite or not.

`LocksHeld` is inductive with `TypeOK`. `TriggersBeforeClients` is not: it says
nothing while a commit notifies, so the step that readmits readers cannot be
shown to preserve it. `TriggersCurrent` says what holds then: the triggers
already called have seen the committed contents, and the committing transaction,
with which callbacks read, sees exactly these. This in turn needs that only the
holder of `wmu` has pending updates (`OnlyWritersUpdate`), so that applying them
twice is harmless. `IInv` is the conjunction of these three, inductive together with
`TypeOK`; `inmem_store` checks it before it is proved.

| theorem | states |
|---|---|
| `Invariance` | `Spec => [](TypeOK /\ IInv)` |
| `LockDiscipline` | `Spec => [](TypeOK /\ LocksHeld)` |
| `TriggersFirst` | `Spec => []TriggersBeforeClients` |
| `SnapshotIsolation` | `Spec => SnapshotStable`: from `IInv`, the data changes only when nobody else has a transaction open |
| `Refinement` | `Spec => ImplementsStore`: each step maps to a step of `Store` or leaves its variables unchanged |

The proof that a step preserves them is one lemma per conjunct (`TypeStep`,
`LocksStep`, `UpdatesStep`, `TriggersStep`), each with one step per action.

### Bundles and API clients on one store

`BundleWriteProofs` has what the operators on documents and policies do,
`BundleStoreProofs`, which extends it, the theorems. The assumptions are
`ActivationsValid` (what `validateAndInjectDefaults` ensures of each bundle, finitely
many bundles and roots, documents for data, and a delta activated by itself),
`RequestsValid` (paths and documents for what clients send) and `ApiPoliciesValid`
(packages and rules are named by strings). Any number of bundles, roots, policies and
paths, documents of any depth and patch lists of any length.

`RootsDisjoint` is inductive as it stands: `hasRootsOverlap` compares the new roots
with those of every other bundle. `RulesOffData` is not. A write of data is checked
against the rules of the manager's compiler, a write of a policy against the data of
the store, and either check is of use only if the compiler has the policies of the
store, which is what `OnCommit` and `Activate` have to keep true
(`CompilerIsStore`). `IInv` has this, the absence of conflicts in the form in which
`CheckPathConflicts` tests it, and that policies have packages and rules of the right
shape.

`BundleIntact` needs what each write may change. `Local(d, e, R)` says that `e` differs
from `d` only below the paths of `R`, and above them by objects that were missing; it is
transitive, and `Patch`, `MakeDir`, the folds over patches, roots and bundles and
`EraseData` are shown to be local to the paths they are given (`PatchLocal` to
`EraseLocal`). `PoliciesLocal` is the same for policies. A step whose writes are local
to paths apart from the roots of a bundle leaves the bundle intact (`StaysIntact`);
that they are apart is `RootsDisjoint` for other bundles and `checkPathScope` for
clients. For the bundle that is activated itself, a snapshot finds its roots cleared and
leaves its own data there (`SnapshotsData`). What a delta should leave is defined on the
bundle's own part of the data, and what it does leave is computed on all of the data:
two documents that agree at, below and above some paths still do after a patch to one of
these paths, or the patch fails on both (`PatchAgrees`, `PatchesAgree`).

`Kept` is the inductive invariant: `BundleIntact`, the shapes of data and manifests
(`Shaped`), and that a policy under an id of a bundle module belongs to a bundle that is
active (`IdsOwned`). Without the last, an activation could replace a policy of which no
bundle knows.

| theorem | states |
|---|---|
| `RootsStayDisjoint` | `Spec => []RootsDisjoint` |
| `Inductive` | `Spec => []IInv` |
| `RulesStayOffData` | `Spec => [](RulesOffData /\ CompilerIsStore)` |
| `RemovalAloneBreaks` | `Spec => OnlyRemovalBreaks` |
| `KeptInductive` | if `IdsApart`, `Spec => []Kept` |
| `BundlesStayIntact` | if `IdsApart`, `Spec => []BundleIntact` |
| `RestStaysUntouched` | if `IdsApart`, `Spec => OthersUntouched` |

`IdsApart` is a condition on the deployment: no client stores a policy under an id that a
module of a bundle has. It is needed. The handlers check the scope of the policy that an
id already has and of the one sent, and `writeDataAndModules` checks nothing, so a policy
that a client has stored under the id of a bundle's module before that bundle is active
is replaced when it is activated, although it lies outside the roots of the bundle, and
`OthersUntouched` is violated. Where a delta has in the meantime made the package of the
policy that of another bundle, `BundleIntact` is violated as well; `MCBundleIds.cfg`, on
`MCBundleStore`, has TLC show this. In `bundle_store` the ids are apart; TLC has checked
`Kept` on its instance.

### The disk store

`DiskStoreProofs`, from `DatabasesValid` (the first directory is one of the
databases, and the marker for none is not). Any number of readers, databases,
partitions, patches and crashes.

That an `Abort` puts back what the transaction found rests on where this is kept
(`BaseKept`): in the active database as long as there is no backup, and in the
backup afterwards. A backup is therefore taken before the first commit of the
transaction in flight, and a transaction that has not called `Truncate` must find no
backup, or the active database under that name, which an earlier `Abort` leaves
(`BackupBefore`). That no reader loses its database rests on `rmu` keeping readers
out while a directory is removed (`LockedOut`). `MaxTruncates`, one call of
`Truncate` per transaction, is used: a second call would back up what the first has
committed.

The second part of the module is what a process finds that starts after a crash at any
step. `Directories` says that a restart is led to the active database, except while
`Abort` replaces the link, and that there is no directory besides the active one and
the backup; so while the link is gone there is no `data` for a restart to mistake for
the store. `CommittedKept` says where what was last committed is kept: in the active
database until the first `Truncate` of a transaction, and where the link leads once
`Abort` has linked the backup. Their conjunction `Recoverable` is inductive given `IInv`.

| theorem | states |
|---|---|
| `Inductive` | `Spec => []IInv` |
| `ReadersKeepTheirDatabase` | `Spec => []ReadersUndisturbed` |
| `AbortLeavesNothing` | `Spec => AbortRestores` |
| `AlwaysRecoverable` | `Spec => []Recoverable` |
| `RestartFindsCommitted` | `Spec => RestartKeeps` |

### The inter-query cache

`InterQueryCacheProofs`, from `ConfigsValid` (a threshold is a percentage),
`SizesValid` (sizes are not negative) and `MaxTimeValid` (the clock's bound). Any
number of keys, sizes and configurations, and lists of any length.

`Accounting` is inductive with `TypeOK`; the work is in what the operators compute.
`unsafeDelete` and `PushBack` keep a cache in order (`DeleteKeeps`, `PushBackKeeps`),
which needs that a sum over a set does not depend on the order it is taken in
(`TotalAdd`) and what the list is without one of its elements (`RemoveFirstRange`). The
loops of `unsafeInsert` and `cleanStaleValues` are folds; `Evicted` is the invariant of
the first: after n entries the first m are gone and the others are there, and unless
m = n the new value fits. At the end the entries left are a back part of the list, and
either they fit or there are none.

The general facts about folds, sets and sequences that this and the proofs about
bundles use are in `DataTheorems`. The library's induction theorems cannot be used
there, since they take an operator. The induction is done with the least counterexample
instead: a set of naturals has a least member (`LeastNat`), a set of finite sets a
minimal one (`MinimalSet`). `FoldExists` shows in this way that the function a fold is
defined by exists, and `FoldStays` that what each turn keeps holds at the end.

| theorem | states |
|---|---|
| `CacheInOrder` | `Spec => []IInv` |
| `CacheTyped` | `Spec => []TypeOK` |
| `AccountsAgree` | `Spec => []Accounting` |
| `GrowthIsBounded` | `Spec => GrowthWithinLimit` |
| `EvictsOldestFirst` | `Spec => EvictionIsFIFO` |

### The bundle plugin

From `DeploymentsValid` (configurations give sources to names) and `LoadersValid` (there
is room for the loaders a process starts with). Any number of bundles, services,
versions, callers of `Trigger`, loaders and crashes. The proofs are in
`BundlePluginProofs`.

`ReadyMeansActive` says nothing of a plugin that is not ready,
which may become so with the next activation. `ActiveStored` therefore speaks of each
bundle by itself: one whose status says it was activated is in the store until the
plugin is stopped. That a removed bundle keeps no such status needs the maps of the
plugin to agree while `Reconfigure` waits without its lock (`Books`): what it will delete
from `p.downloaders` and `p.status` is what it takes out of the store. That an activation
stores something needs that an answer with a bundle has one (`Delivered`). `IInv` is
their conjunction with the shapes of the records (`Shapes`).

That the ETag a loop will send names the bundle in the store involves the loader, the
request under way, the books of the plugin and the store (`Agree`): until the answer is there the loader's ETag is that of the
books; an answer 304 confirms the store; and where store and books differ, because a
bundle was activated and not persisted, the status shows an error and the service no
longer offers what the books name, so that no 304 can clear the error. A 304 may bring
the loader's own ETag of the moment, which is therefore never ahead of the service
(`Works`), also while `Stop` waits for the loop. This holds of the
current loader, and the others are stopped or about to be (`OneLoop`), also while
`Reconfigure` and `Stop` wait for them (`Replaced`). `EInv` is the conjunction, for one
bundle; `PolledInv` has it for every bundle that is only polled.

For the statuses `SInv` adds that the store has the bundle its ETag names, that the
status reports it, and that a delta under way is one to it.

| theorem | states |
|---|---|
| `Inductive` | `Spec => []IInv` |
| `ReadyPluginsAreActive` | `Spec => []ReadyMeansActive` |
| `PolledInductive` | `Spec => [](IInv /\ PolledInv)` |
| `PolledEtagsName` | for every bundle that is only polled, `EtagNamed` always holds, whatever the other bundles are |
| `EtagsNameBundles` | if all bundles are only polled, `Spec => []EtagNamesBundle` |
| `StoppedPluginIsQuiet` | if all bundles are only polled, `Spec => QuietAfterStop` |
| `UnpersistedInductive` | if `BasesKnown`, `Spec => []UnpersistedInv` |
| `StatusesAreTrue` | if `BasesKnown` and all bundles are only polled and not persisted, `Spec => []StatusIsTrue` |

The hypotheses are conditions on the deployment. Each is needed: without it TLC finds a
behaviour of the model, on an instance larger than those of the run, that violates the
property.

- `OnlyPolled`: not triggered and never read from a file. Overlapping triggers are in
  `MCBundleOverlap.cfg` and `MCBundleDeltas.cfg`. `Stop` of a file loader does nothing, so
  when a bundle changes from a file to a service while the file is being read, the file
  is activated after the service's bundle.
- `NotPersisted`: after a bundle could not be persisted, the store has it and the status
  the one before. A `Reconfigure` of its source gives the new loader the ETag of the
  store, a 304 then clears the error, and the status reports the older revision; a delta
  to the older one may also be applied to it.
- `BasesKnown`: services send no deltas, or the store does not survive the process. While
  `Stop` waits for a loop, the loop may poll twice, and the second answer, a delta, meets a
  store without the first; a durable store keeps the result for the next process.

### The plugin manager

`PluginManagerProofs`, from `DeploymentsValid` (discovery is configured or not, and what
boots and what is discovered are bundle, decision log and status plugins). Any number of
deployments and of discovered configurations, in any order and at any time, also while
the process stops.

Both properties are about lists of calls, and neither is inductive. What is in the list of
a thread decides what the state will be, so the invariant speaks of whole lists.
`Threaded` has who makes which calls, and that the calls are in order (`Orderly`): a
plugin is registered before it is started, discovery is started last, and the status
plugin's `listen` has an update right behind it.

`StoppedIsQuiet` needs `Halting`. While `Stop` runs, each plugin it has copied is over, or
the call that waits for it is still in the list; and a plugin that discovery has yet to
start has that call behind the one that waits for discovery. The last holds because what
discovery starts was registered by it, hence after it (`DiscoveryFirst`), and `Stop` goes
in the order of registration: `StopsAll` shows by induction what the loop of
`Manager.Stop` puts into the list.

`ReportsSettle` needs `Told`: as long as no two updates overlapped, the statuses the
manager holds are those a thread is about to send, or, if none is, those in the channel,
or, if it is empty, those received, unless an update is the next call of a thread. It has
to begin somewhere: `ListenOnce` says that one thread at most will make the status plugin
listen, and that before nothing has been sent; the update behind `listen` is then the one
that `Told` asks for.

`IInv` is the conjunction of these with the shapes (`Types`). A call that returns leaves
something of itself in front of the rest of the list (`Made`), and one lemma per action
shows that it is kept; `BootOrderly` and `ConfigureShape` that the lists put together at
boot and from a discovered configuration are in order.

| theorem | states |
|---|---|
| `LifecycleInductive` | `Spec => []IInv` |
| `StopLeavesQuiet` | `Spec => []StoppedIsQuiet` |
| `LastReportIsCurrent` | `Spec => []ReportsSettle` |

TLC has checked `IInv` on the instance of `plugin_manager` and on a larger one.

### How the proofs are laid out

The modules with theorems extend `Lists` or the standard modules rather than
`SequencesExt`, which brings bags and combinatorics with it: the prover carries every
definition and every lemma it can see into every obligation. For the same reason leaves
without arithmetic name the prover `Zenon`, and `PluginManagerProofs`, the largest of
these modules, states the five facts about lists it needs itself instead of extending
`DataTheorems`, where the other general lemmas are.

### Only model-checked

- Liveness, whose proof needs fairness and ENABLED.
- `InmemTxn`, whose properties compare a heap in which objects may be shared with the
  documents it holds, by recursion over both.
- `ChunkEncoder`, which computes by recursive operators over sequences of events, and
  with it `DecisionLogs`.
- `PointReadsAgree` and `WriteIsPatch`, which are about how documents are laid out over
  keys, computed by folds over paths and keys.
- `StatusIsTrue` of bundles that are triggered, read from files or persisted.
  `EtagNamesBundle` and `QuietAfterStop` speak of polled loaders only. They are proved
  for bundles that are only polled, beside which `bundle_plugin` has a triggered one or
  one read from a file, and neither is checked for a bundle that is triggered.

## Not modelled

- Decision logs in manual mode, with `Trigger`; masking and dropping of events, which
  are evaluations of policies.
- The OCI downloader, whose control is that of the HTTP downloader; the delays of
  polling.
- Policies and triggers of the disk store, and what badger does inside.
- Bundle files, signatures and manifests' metadata; the resolvers of WebAssembly
  modules.
- Handlers of the server that only read and evaluate; authorization; the runtime and
  the SDK beyond boot and stop of the manager; REST clients and their credentials.
- Errors of a plugin's `Start`, the reconfiguration of services, the status plugin's
  manual trigger and its console and Prometheus outputs; the evaluation of a
  discovered configuration.
- Parser, compiler, type checker, evaluator, builtins, planner, WebAssembly, Rego API,
  command line and tools: sequential functions of their inputs, without state that
  two actors share, on inputs that a bounded model could only sample.

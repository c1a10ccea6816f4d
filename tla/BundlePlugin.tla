---------------------------- MODULE BundlePlugin ----------------------------
(***************************************************************************)
(* The bundle plugin (plugins/bundle/plugin.go) and the loaders it owns:   *)
(* the HTTP downloader (download/download.go) and the file loader.  Every  *)
(* loader has goroutines that fetch an answer and then call back into the  *)
(* plugin; the plugin's mutex p.mtx makes each callback and the second     *)
(* half of Reconfigure atomic, and everything else interleaves.            *)
(*                                                                         *)
(* A bundle is a version that a service has published; it doubles as the   *)
(* ETag the service sends with it.  Latest versions only grow.             *)
(***************************************************************************)
EXTENDS Integers, FiniteSets, Functions

CONSTANTS
    Names,          \* bundle names
    Services,       \* bundle services, or files for "file" loaders
    Callers,        \* threads that call Plugin.Trigger
    Triggered,      \* the bundles that may be configured while somebody does
    Deployments,    \* surroundings the plugin is put in, see Deployment
    Deltas,         \* bundles the service can send as a delta to its predecessor
    MaxLoaders      \* bound on the loaders created for a name

Modes == {"periodic", "manual", "file"}
Sources == [svc : Services, mode : Modes, persist : BOOLEAN]
Partial(D, R) == UNION {[d -> R] : d \in SUBSET D}

\* The configuration a process starts with and those it is given later, a bound
\* on the versions that each service publishes, those of them that do not
\* compile, a bound on crashes and failures to persist, whether the store is one
\* that a crash leaves alone (storage/disk), and who calls Trigger.
Deployment(e) ==
    /\ e.boot \in Partial(Names, Sources)
    /\ e.configs \subseteq Partial(Names, Sources)
    /\ e.versions \in [Services -> Nat]
    /\ e.broken \subseteq [svc : Services, v : Nat]
    /\ e.faults \in Nat
    /\ e.durable \in BOOLEAN
    /\ e.callers \subseteq Callers

ASSUME DeploymentsValid == \A e \in Deployments : Deployment(e)
ASSUME LoadersValid == MaxLoaders \in Nat \ {0}

None == [svc |-> "none", v |-> 0]       \* no bundle; as an ETag, ""
Mixed == [svc |-> "mixed", v |-> 0]     \* a delta applied to another base
Kinds == {"loop"} \cup Callers
Ids == Names \X (1..MaxLoaders)

VARIABLES
    env,            \* the deployment
    latest,         \* what each service offers, 0 for nothing
    config,         \* p.config.Bundles
    status,         \* p.status
    etags,          \* p.etags
    downloaders,    \* p.downloaders: name -> number of its loader
    ready,          \* p.ready, and the state reported to the manager
    stopped,        \* p.stopped
    loaders,        \* the loaders created so far, by name and number
    work,           \* the goroutines of each loader
    created,        \* number of loaders created for each name
    reconf,         \* the goroutine in Reconfigure
    stopper,        \* the goroutine in Plugin.Stop
    store,          \* revision and ETag of each bundle in the store
    disk,           \* the persisted bundle of each name
    faults,
    panicked

pluginVars == <<config, status, etags, downloaders, ready, stopped>>
loaderVars == <<loaders, work, created>>
vars == <<env, latest, pluginVars, loaderVars, reconf, stopper, store, disk, faults, panicked>>

NoLoader == <<"none", 0>>
Nobody == [pc |-> "idle", wait |-> {}, at |-> NoLoader, new |-> {}, updated |-> {}, deleted |-> {}]
Unborn == [pc |-> "idle", sent |-> None, ans |-> None]
Unused == [src |-> [svc |-> "none", mode |-> "manual", persist |-> FALSE],
           etag |-> None, run |-> "stopped"]
Empty == [rev |-> None, etag |-> None]

NewStatus == [rev |-> None, activated |-> FALSE, err |-> "none"]

Broken == env.broken
Latest(s) == IF latest[s] = 0 THEN None ELSE [svc |-> s, v |-> latest[s]]
Current(n) == <<n, downloaders[n]>>

-----------------------------------------------------------------------------
(* The process starts, and starts again after a crash.                     *)

\* newDownloader, SetCache and Start: only a periodic loader has a loop, and
\* a file loader reads its file once.
NewLoader(src, etag) ==
    [src |-> src, etag |-> IF src.mode = "file" THEN None ELSE etag,
     run |-> IF src.mode = "periodic" THEN "running" ELSE "stopped"]

NewWork(src) ==
    [k \in Kinds |-> IF k = "loop" /\ src.mode = "file"
                     THEN [Unborn EXCEPT !.pc = "sent"] ELSE Unborn]

\* loadAndActivateBundlesFromDisk: what was persisted compiles or fails again; it
\* takes the place of what the store has kept.
FromDisk(conf, d, kept) ==
    [n \in Names |->
        IF n \in DOMAIN conf /\ conf[n].persist /\ d[n] \notin {None} \cup Broken
        THEN [rev |-> d[n], etag |-> None] ELSE kept[n]]

Loaded(conf, d, n) ==
    IF ~conf[n].persist \/ d[n] = None THEN NewStatus
    ELSE IF d[n] \in Broken THEN [NewStatus EXCEPT !.err = "ast"]
    ELSE [rev |-> d[n], activated |-> TRUE, err |-> "none"]

AllActivated(sts) ==
    \A n \in DOMAIN sts : sts[n].activated /\ sts[n].err # "ast"

\* checkPluginReadiness.
Readiness(sts) == ready \/ AllActivated(sts)

\* New and Start, given what an earlier process left on disk.  The readiness
\* check runs only when a bundle has been activated.
Booted(n) == n \in DOMAIN env.boot
BootStatus(d) == [n \in DOMAIN env.boot |-> Loaded(env.boot, d, n)]
BootLoaders(found) ==
    [i \in Ids |-> IF Booted(i[1]) /\ i[2] = 1
                   THEN NewLoader(env.boot[i[1]], found[i[1]].etag) ELSE Unused]
BootWork ==
    [i \in Ids |-> IF Booted(i[1]) /\ i[2] = 1
                   THEN NewWork(env.boot[i[1]]) ELSE [k \in Kinds |-> Unborn]]
BootReady(d) == DOMAIN env.boot # {} /\ AllActivated(BootStatus(d))

Init ==
    /\ env \in Deployments
    /\ latest = [s \in Services |-> 0]
    /\ disk = [n \in Names |-> None]
    /\ store = [n \in Names |-> Empty]
    /\ config = env.boot
    /\ status = BootStatus(disk)
    /\ etags = [n \in DOMAIN env.boot |-> None]
    /\ downloaders = [n \in DOMAIN env.boot |-> 1]
    /\ ready = BootReady(disk)
    /\ stopped = FALSE
    /\ loaders = BootLoaders(store)
    /\ work = BootWork
    /\ created = [n \in Names |-> IF Booted(n) THEN 1 ELSE 0]
    /\ reconf = Nobody
    /\ stopper = Nobody
    /\ faults = 0
    /\ panicked = FALSE

\* The process dies when the store has s, which is lost unless it is on disk, and
\* starts again.  initDownloaders takes the ETags from the store.
Dies(s) ==
    /\ faults < env.faults
    /\ faults' = faults + 1
    /\ store' = FromDisk(env.boot, disk, IF env.durable THEN s ELSE [n \in Names |-> Empty])
    /\ config' = env.boot
    /\ status' = BootStatus(disk)
    /\ etags' = [n \in DOMAIN env.boot |-> store'[n].etag]
    /\ downloaders' = [n \in DOMAIN env.boot |-> 1]
    /\ ready' = BootReady(disk)
    /\ stopped' = FALSE
    /\ loaders' = BootLoaders(store')
    /\ work' = BootWork
    /\ created' = [n \in Names |-> IF Booted(n) THEN 1 ELSE 0]
    /\ reconf' = Nobody
    /\ stopper' = Nobody
    /\ panicked' = FALSE
    /\ UNCHANGED <<env, latest, disk>>

Crash == Dies(store)

\* The service moves on to its next version.
Publish(s) ==
    /\ latest[s] < env.versions[s]
    /\ latest' = [latest EXCEPT ![s] = @ + 1]
    /\ UNCHANGED <<env, pluginVars, loaderVars, reconf, stopper, store, disk, faults, panicked>>

-----------------------------------------------------------------------------
(* Downloader.loop, Downloader.oneShot and fileLoader.oneShot.             *)

\* Plugin.Trigger copies the loaders under p.mtx and calls them afterwards.  It calls
\* all of them; that bundles outside Triggered are not triggered says of their
\* deployment that nobody calls it while they are configured.
Trigger(n, c) ==
    /\ ~panicked
    /\ n \in DOMAIN downloaders \cap Triggered
    /\ work[Current(n)][c].pc = "idle"
    /\ work' = [work EXCEPT ![Current(n)][c].pc = "called"]
    /\ UNCHANGED <<env, latest, pluginVars, loaders, created, reconf, stopper, store, disk,
                   faults, panicked>>

\* The loop after its delay, or the goroutine of a Trigger, asks for the bundle
\* with the loader's ETag in If-None-Match.  A loop that is told to stop while its
\* delay is over may make one more request, which fails like one that was under way;
\* it is left out.
Request(i, k) ==
    /\ ~panicked
    /\ IF k = "loop" THEN work[i][k].pc = "idle" /\ loaders[i].run = "running"
                     ELSE work[i][k].pc = "called"
    /\ work' = [work EXCEPT ![i][k] = [pc |-> "sent", sent |-> loaders[i].etag, ans |-> None]]
    /\ UNCHANGED <<env, latest, pluginVars, loaders, created, reconf, stopper, store, disk,
                   faults, panicked>>

\* The context of a loop is cancelled while its loader is being stopped.
Cancelled(i, k) == k = "loop" /\ loaders[i].run = "stopping"

Fetched(i, k, ans) ==
    /\ work' = [work EXCEPT ![i][k].pc = "got", ![i][k].ans = ans]
    /\ loaders' = [loaders EXCEPT ![i].etag = ans.etag]
    /\ UNCHANGED <<env, latest, pluginVars, created, reconf, stopper, store, disk, faults, panicked>>

\* The request fails or the answer cannot be read: oneShot clears the ETag.
FetchFails(i, k) ==
    /\ ~panicked
    /\ work[i][k].pc = "sent"
    /\ Fetched(i, k, [type |-> "error", b |-> None, base |-> None, etag |-> None])

\* 200 with a snapshot; 200 with a delta to the bundle the request names; 304, with
\* the ETag or without, for which the loader takes the one it has by now.  A file
\* has no ETag.
Fetch(i, k) ==
    LET w == work[i][k]
        b == Latest(loaders[i].src.svc)
        file == loaders[i].src.mode = "file"
        etag == IF file THEN None ELSE b
    IN /\ ~panicked
       /\ w.pc = "sent"
       /\ ~Cancelled(i, k)
       /\ b # None
       /\ \/ /\ w.sent # b
             /\ Fetched(i, k, [type |-> "snapshot", b |-> b, base |-> None, etag |-> etag])
          \/ /\ ~file
             /\ b \in Deltas
             /\ w.sent = [b EXCEPT !.v = @ - 1]
             /\ Fetched(i, k, [type |-> "delta", b |-> b, base |-> w.sent, etag |-> etag])
          \/ /\ w.sent = b
             /\ \E e \in {etag, loaders[i].etag} :
                   Fetched(i, k, [type |-> "same", b |-> None, base |-> None, etag |-> e])

\* Mutant: Stop does not wait for the goroutines of the loader.
LoopReturnsAtOnce(i) ==
    /\ ~panicked
    /\ loaders[i].run = "stopping"
    /\ loaders' = [loaders EXCEPT ![i].run = "stopped"]
    /\ UNCHANGED <<env, latest, pluginVars, work, created, reconf, stopper, store, disk,
                   faults, panicked>>

\* The loop returns once its context is cancelled.
LoopReturns(i) ==
    /\ ~panicked
    /\ loaders[i].run = "stopping"
    /\ work[i]["loop"].pc = "idle"
    /\ loaders' = [loaders EXCEPT ![i].run = "stopped"]
    /\ UNCHANGED <<env, latest, pluginVars, work, created, reconf, stopper, store, disk,
                   faults, panicked>>

-----------------------------------------------------------------------------
(* Plugin.oneShot: the callback, under p.mtx.                              *)

\* Mutant: the loop returns at the first error.
DoneAtFirstError(i, k) ==
    work' = [work EXCEPT ![i][k] =
        IF k = "loop" /\ (loaders[i].src.mode = "file" \/ @.ans.type = "error")
        THEN [Unborn EXCEPT !.pc = "over"] ELSE Unborn]

\* A goroutine ends its oneShot; a file loader's Start is over then.
Done(i, k) ==
    work' = [work EXCEPT ![i][k] =
        IF k = "loop" /\ loaders[i].src.mode = "file" THEN [Unborn EXCEPT !.pc = "over"] ELSE Unborn]

\* Mutant: the loader keeps the ETag of the bundle that failed.
FailKeepsEtag(i, k, err) ==
    /\ status' = [status EXCEPT ![i[1]].err = err]
    /\ Done(i, k)
    /\ UNCHANGED <<env, latest, config, etags, downloaders, ready, stopped, loaders, created,
                   reconf, stopper, panicked>>

\* SetError, and SetCache with the ETag of the plugin's own books unless stopped.
Fail(i, k, err) ==
    LET n == i[1] IN
    /\ status' = [status EXCEPT ![n].err = err]
    /\ loaders' = IF stopped \/ loaders[Current(n)].src.mode = "file" THEN loaders
                  ELSE [loaders EXCEPT ![Current(n)].etag = etags[n]]
    /\ Done(i, k)
    /\ UNCHANGED <<env, latest, config, etags, downloaders, ready, stopped, created, reconf,
                   stopper, panicked>>

\* Mutant: Stop holds p.mtx while it waits for the loaders.
CalledUnlessStopping(i, k) ==
    ~panicked /\ work[i][k].pc = "got" /\ i[1] \in DOMAIN status /\ stopper.pc # "stopping"

Called(i, k) == ~panicked /\ work[i][k].pc = "got" /\ i[1] \in DOMAIN status

\* process dereferences p.status[name], which Reconfigure may have deleted.
ProcessPanics(i, k) ==
    /\ ~panicked
    /\ work[i][k].pc = "got"
    /\ i[1] \notin DOMAIN status
    /\ panicked' = TRUE
    /\ Done(i, k)
    /\ UNCHANGED <<env, latest, pluginVars, loaders, created, reconf, stopper, store, disk, faults>>

ProcessError(i, k) ==
    /\ Called(i, k)
    /\ work[i][k].ans.type = "error"
    /\ Fail(i, k, "other")
    /\ UNCHANGED <<store, disk, faults>>

\* activate: what is in the store afterwards.  A delta replaces the revision
\* and the ETag whatever it is applied to.
Activated(i, k) ==
    LET ans == work[i][k].ans IN
    [store EXCEPT ![i[1]] =
        [rev |-> IF ans.type = "delta" /\ store[i[1]].rev # ans.base THEN Mixed ELSE ans.b,
         etag |-> ans.etag]]

\* The bundle does not compile, or a patch of a delta does not apply.
ActivationFails(i, k) ==
    LET ans == work[i][k].ans IN
    /\ Called(i, k)
    /\ \/ /\ ans.type \in {"snapshot", "delta"} /\ ans.b \in Broken
          /\ Fail(i, k, "ast")
       \/ /\ ans.type = "delta" /\ store[i[1]].rev # ans.base
          /\ Fail(i, k, "other")
    /\ UNCHANGED <<store, disk, faults>>

Activates(i, k) ==
    /\ Called(i, k)
    /\ work[i][k].ans.type \in {"snapshot", "delta"}
    /\ work[i][k].ans.b \notin Broken

\* persistBundle, with the configuration of the moment.
Persists(i, k) ==
    /\ work[i][k].ans.type = "snapshot"
    /\ i[1] \in DOMAIN config
    /\ config[i[1]].persist

\* The process dies after it has activated a bundle and before it has saved it.
CrashUnsaved(i, k) ==
    /\ Activates(i, k)
    /\ Persists(i, k)
    /\ Dies(Activated(i, k))

\* Mutant: the error is logged and forgotten.
PersistFailsSilently(i, k) ==
    /\ Activates(i, k)
    /\ Persists(i, k)
    /\ faults < env.faults
    /\ faults' = faults + 1
    /\ store' = Activated(i, k)
    /\ Fail(i, k, "none")
    /\ UNCHANGED disk

\* saveBundleToDisk fails: writing the file does so only when nothing is
\* persisted yet, renaming it always does.  The store keeps the new bundle.
PersistFails(i, k) ==
    /\ Activates(i, k)
    /\ Persists(i, k)
    /\ faults < env.faults
    /\ faults' = faults + 1
    /\ store' = Activated(i, k)
    /\ Fail(i, k, "other")
    /\ UNCHANGED disk

\* The bundle is activated; it is saved, or an older one stays on disk.  p.mtx is held
\* from one to the other, and a crash in between is CrashUnsaved.
ProcessActivated(i, k) ==
    LET n == i[1]
        ans == work[i][k].ans
    IN /\ Activates(i, k)
       /\ \/ /\ Persists(i, k)
             /\ disk' = [disk EXCEPT ![n] = ans.b]
             /\ UNCHANGED faults
          \/ /\ Persists(i, k)
             /\ disk[n] # None
             /\ faults < env.faults
             /\ faults' = faults + 1
             /\ UNCHANGED disk
          \/ /\ ~Persists(i, k)
             /\ UNCHANGED <<disk, faults>>
       /\ store' = Activated(i, k)
       /\ status' = [status EXCEPT ![n] = [rev |-> ans.b, activated |-> TRUE, err |-> "none"]]
       /\ etags' = [m \in DOMAIN etags \cup {n} |-> IF m = n THEN ans.etag ELSE etags[m]]
       /\ ready' = Readiness(status')
       /\ Done(i, k)
       /\ UNCHANGED <<env, latest, config, downloaders, stopped, loaders, created, reconf,
                      stopper, panicked>>

\* Mutant: a 304 does not lead to a readiness check.
ProcessNotModifiedUnready(i, k) ==
    LET n == i[1] IN
    /\ Called(i, k)
    /\ work[i][k].ans.type = "same"
    /\ IF n \in DOMAIN etags /\ work[i][k].ans.etag = etags[n]
       THEN status' = [status EXCEPT ![n].err = "none"]
       ELSE UNCHANGED status
    /\ Done(i, k)
    /\ UNCHANGED <<env, latest, config, etags, downloaders, ready, stopped, loaders, created,
                   reconf, stopper, store, disk, faults, panicked>>

\* A 304 counts only when it names the ETag of the last activation.
ProcessNotModified(i, k) ==
    LET n == i[1] IN
    /\ Called(i, k)
    /\ work[i][k].ans.type = "same"
    /\ IF n \in DOMAIN etags /\ work[i][k].ans.etag = etags[n]
       THEN /\ status' = [status EXCEPT ![n].err = "none"]
            /\ ready' = Readiness(status')
       ELSE UNCHANGED <<status, ready>>
    /\ Done(i, k)
    /\ UNCHANGED <<env, latest, config, etags, downloaders, stopped, loaders, created, reconf,
                   stopper, store, disk, faults, panicked>>

-----------------------------------------------------------------------------
(* Plugin.Stop and Plugin.Reconfigure.                                     *)

\* Downloader.Stop, from goroutine g: a running loop is told to stop, one that
\* somebody else is stopping is waited for, and the other loaders ignore it.
StopNext(g, i) ==
    /\ ~panicked
    /\ g.at = NoLoader
    /\ i \in g.wait
    /\ loaders' = [loaders EXCEPT ![i].run = IF @ = "running" THEN "stopping" ELSE @]

Stopped(g) == ~panicked /\ g.at # NoLoader /\ loaders[g.at].run = "stopped"

AllStopped(g) == ~panicked /\ g.pc = "stopping" /\ g.wait = {} /\ g.at = NoLoader

StopCalled ==
    /\ ~panicked
    /\ stopper.pc = "idle"
    /\ ~stopped
    /\ stopper' = [stopper EXCEPT !.pc = "stopping", !.wait = {Current(n) : n \in DOMAIN downloaders}]
    /\ downloaders' = <<>>
    /\ stopped' = TRUE
    /\ UNCHANGED <<env, latest, config, status, etags, ready, loaderVars, reconf, store, disk,
                   faults, panicked>>

StopperStops(i) ==
    /\ StopNext(stopper, i)
    /\ stopper' = [stopper EXCEPT !.at = i, !.wait = @ \ {i}]
    /\ UNCHANGED <<env, latest, pluginVars, work, created, reconf, store, disk, faults, panicked>>

StopperGoesOn ==
    /\ \/ /\ Stopped(stopper)
          /\ stopper' = [stopper EXCEPT !.at = NoLoader]
       \/ /\ AllStopped(stopper)
          /\ stopper' = [Nobody EXCEPT !.pc = "returned"]
    /\ UNCHANGED <<env, latest, pluginVars, loaderVars, reconf, store, disk, faults, panicked>>

\* configDelta, and p.config is replaced before any loader is stopped.
ReconfigureCalled(conf) ==
    LET new == DOMAIN conf \ DOMAIN config
        updated == {n \in DOMAIN conf \cap DOMAIN config : conf[n] # config[n]}
        deleted == DOMAIN config \ DOMAIN conf
    IN /\ ~panicked
       /\ reconf.pc = "idle"
       /\ conf # config
       /\ \A n \in new \cup updated : created[n] < MaxLoaders
       /\ config' = conf
       /\ reconf' = [pc |-> "stopping", at |-> NoLoader,
                     wait |-> {Current(n) : n \in DOMAIN downloaders \cap (updated \cup deleted)},
                     new |-> new, updated |-> updated, deleted |-> deleted]
       /\ UNCHANGED <<env, latest, status, etags, downloaders, ready, stopped, loaderVars,
                      stopper, store, disk, faults, panicked>>

ReconfigureStops(i) ==
    /\ StopNext(reconf, i)
    /\ reconf' = [reconf EXCEPT !.at = i, !.wait = @ \ {i}]
    /\ UNCHANGED <<env, latest, pluginVars, work, created, stopper, store, disk, faults, panicked>>

ReconfigureGoesOn ==
    /\ Stopped(reconf)
    /\ reconf' = [reconf EXCEPT !.at = NoLoader]
    /\ UNCHANGED <<env, latest, pluginVars, loaderVars, stopper, store, disk, faults, panicked>>

\* bundle.Deactivate.
Deactivated(names) == [n \in Names |-> IF n \in names THEN Empty ELSE store[n]]

\* Mutant: starting loaders does not make the plugin unready.
ReadyAfterAnyway(start) == ready

\* readyNow: with loaders to start the plugin is not ready any more.
ReadyAfter(start) == ready /\ start = {}

\* The rest of Reconfigure, under p.mtx.  Plugin.Stop has set p.downloaders to
\* nil, to which no loader can be added.
ReconfigureApplies ==
    LET start == reconf.new \cup reconf.updated
        gone == reconf.deleted \cap DOMAIN downloaders
        Number(n) == created[n] + 1
    IN /\ AllStopped(reconf)
       /\ store' = Deactivated(reconf.deleted)
       /\ reconf' = Nobody
       /\ IF stopped /\ start # {}
          THEN /\ panicked' = TRUE
               /\ UNCHANGED <<status, etags, downloaders, ready, loaderVars>>
          ELSE /\ status' = [n \in (DOMAIN status \ gone) \cup reconf.new |->
                                IF n \in reconf.new THEN NewStatus ELSE status[n]]
               /\ etags' = [n \in (DOMAIN etags \ gone) \cup start |->
                                IF n \in start THEN store[n].etag ELSE etags[n]]
               /\ downloaders' = [n \in (DOMAIN downloaders \ gone) \cup start |->
                                IF n \in start THEN Number(n) ELSE downloaders[n]]
               /\ created' = [n \in Names |-> IF n \in start THEN Number(n) ELSE created[n]]
               /\ loaders' = [i \in Ids |-> IF i[1] \in start /\ i[2] = Number(i[1])
                                            THEN NewLoader(config[i[1]], store[i[1]].etag)
                                            ELSE loaders[i]]
               /\ work' = [i \in Ids |-> IF i[1] \in start /\ i[2] = Number(i[1])
                                         THEN NewWork(config[i[1]]) ELSE work[i]]
               /\ ready' = ReadyAfter(start)
               /\ UNCHANGED panicked
       /\ UNCHANGED <<env, latest, config, stopped, stopper, disk, faults>>

-----------------------------------------------------------------------------
Process(i, k) ==
    \/ ProcessPanics(i, k)
    \/ ProcessError(i, k)
    \/ ActivationFails(i, k)
    \/ PersistFails(i, k)
    \/ ProcessActivated(i, k)
    \/ ProcessNotModified(i, k)

Next ==
    \/ \E n \in Names, c \in env.callers : Trigger(n, c)
    \/ \E i \in Ids, k \in Kinds : Request(i, k) \/ FetchFails(i, k) \/ Fetch(i, k) \/ Process(i, k)
    \/ \E i \in Ids : LoopReturns(i) \/ StopperStops(i) \/ ReconfigureStops(i)
    \/ StopCalled
    \/ StopperGoesOn
    \/ \E conf \in env.configs : ReconfigureCalled(conf)
    \/ ReconfigureGoesOn
    \/ ReconfigureApplies
    \/ \E s \in Services : Publish(s)
    \/ Crash
    \/ \E i \in Ids, k \in Kinds : CrashUnsaved(i, k)

Spec == Init /\ [][Next]_vars

\* Goroutines run when they can, and the service answers again and again.
\* Nobody is obliged to trigger, reconfigure, stop or publish.
Fairness ==
    /\ \A i \in Ids :
        /\ WF_vars(Request(i, "loop"))
        /\ WF_vars(FetchFails(i, "loop"))
        /\ SF_vars(Fetch(i, "loop"))
        /\ WF_vars(Process(i, "loop"))
        /\ WF_vars(LoopReturns(i))
        /\ WF_vars(StopperStops(i))
        /\ WF_vars(ReconfigureStops(i))
    /\ WF_vars(StopperGoesOn)
    /\ WF_vars(ReconfigureGoesOn \/ ReconfigureApplies)

FairSpec == Spec /\ Fairness

-----------------------------------------------------------------------------
(* Properties.                                                             *)

Bundles == UNION {[svc : {s}, v : 1..env.versions[s]] : s \in Services}
Etags == Bundles \cup {None}
Answers == [type : {"error", "snapshot", "delta", "same"}, b : Etags, base : Etags, etag : Etags]
Goroutine == [pc : {"idle", "called", "sent", "got", "over"}, sent : Etags, ans : Answers \cup {None}]
Worker(g) ==
    /\ g.pc \in {"idle", "stopping", "returned"}
    /\ g.wait \subseteq Ids
    /\ g.at \in Ids \cup {NoLoader}
    /\ g.new \cup g.updated \cup g.deleted \subseteq Names

\* The types of the variables; once stopped the plugin has no loaders.
TypeOK ==
    /\ \A s \in Services : latest[s] \in 0..env.versions[s]
    /\ config \in Partial(Names, Sources)
    /\ DOMAIN status \subseteq Names
    /\ \A n \in DOMAIN status :
        status[n] \in [rev : Etags, activated : BOOLEAN, err : {"none", "ast", "other"}]
    /\ etags \in Partial(Names, Etags)
    /\ downloaders \in Partial(Names, 1..MaxLoaders)
    /\ stopped => downloaders = <<>>
    /\ ~stopped => DOMAIN downloaders = DOMAIN status
    /\ ready \in BOOLEAN /\ stopped \in BOOLEAN /\ panicked \in BOOLEAN
    /\ \A i \in Ids :
        /\ loaders[i].etag \in Etags
        /\ loaders[i].run \in {"running", "stopping", "stopped"}
        /\ \A k \in Kinds : work[i][k] \in Goroutine
    /\ created \in [Names -> 0..MaxLoaders]
    /\ Worker(reconf) /\ Worker(stopper)
    /\ store \in [Names -> [rev : Etags \cup {Mixed}, etag : Etags]]
    /\ disk \in [Names -> Etags]
    /\ faults \in 0..env.faults

\* A plugin that reports itself ready has every bundle it is responsible for in
\* the store (rest-api.md: all configured bundles have been activated).
ReadyMeansActive ==
    ready /\ ~stopped => \A n \in DOMAIN status : store[n].rev # None

Resting(n) ==
    /\ n \in DOMAIN downloaders
    /\ loaders[Current(n)].run = "running"
    /\ work[Current(n)]["loop"].pc = "idle"

\* A polling loader will send the ETag of the last bundle that the plugin accepted, which
\* names the bundle in the store unless the bundle's status shows an error; otherwise a
\* 304 would confirm the wrong bundle (process, SetCache).  It is about loaders that
\* have a loop, of bundles that are not triggered besides.
EtagNamed(n) ==
    Resting(n) =>
        /\ loaders[Current(n)].etag = etags[n]
        /\ status[n].err = "none" => store[n].etag = etags[n]

\* The loaders of all bundles do so.
EtagNamesBundle == \A n \in Names : EtagNamed(n)

\* The revision that a status without error reports is the revision in the store; so
\* deltas are only ever applied to the revision they were made for (process, activate).
StatusTrue(n) ==
    ~stopped /\ n \in DOMAIN status /\ status[n].activated /\ status[n].err = "none"
        => store[n].rev = status[n].rev

\* The status of every bundle is true.  It is not when two triggers of a bundle with
\* deltas overlap, and not for ever when a bundle could not be persisted.
StatusIsTrue == \A n \in Names : StatusTrue(n)

Polled(n) == n \in DOMAIN config /\ config[n].mode = "periodic"

Quiet(n) ==
    stopper.pc = "returned" /\ stopper'.pc = "returned" /\ Polled(n) /\ reconf.pc = "idle"
        => store'[n] = store[n]

AllQuiet == \A n \in Names : Quiet(n)

\* Once Plugin.Stop has returned, no answer of a polling loader reaches the store, if
\* nobody calls Trigger: Stop waits for the loop, and for no goroutine of a Trigger.
QuietAfterStop == [][AllQuiet]_vars

Running == ~stopped /\ ~panicked /\ reconf.pc = "idle"

\* While the plugin runs, the store ends up with the version that the service of a polled
\* bundle offers, through failures, restarts and reconfigurations, if nobody triggers the
\* bundle: with a triggered download next to the loop the older answer may come last.
Converges ==
    <>[](\A n \in Names :
        Running /\ Polled(n) /\ Latest(config[n].svc) \notin Broken \cup {None}
            => store[n].rev = Latest(config[n].svc))

\* A plugin that polls a bundle and has activated all of them ends up ready.
BecomesReady ==
    <>[](Running /\ AllActivated(status)
            /\ (\E n \in Names : Polled(n) /\ Latest(config[n].svc) \notin Broken \cup {None})
            => ready)

\* A bundle that a process finds in a store on disk, and that the service confirms
\* with a 304, counts as activated in the end: "The downloader received a 304 (same
\* etag as saved in local state), update plugin readiness" (plugin.go:547).
ConfirmedIsReady ==
    <>[](Running /\ DOMAIN status # {}
            /\ (\A n \in DOMAIN status : Polled(n) /\ Latest(config[n].svc) \notin Broken \cup {None})
            => ready)

\* Plugin.Stop and Reconfigure return, whatever the loaders are doing, and also
\* when both stop the same loader.
StopReturns ==
    /\ stopper.pc = "stopping" ~> (stopper.pc # "stopping" \/ panicked)
    /\ reconf.pc = "stopping" ~> (reconf.pc # "stopping" \/ panicked)

\* The loaders finish their requests in progress before Reconfigure changes the
\* plugin's maps (plugin.go:167): no callback finds its bundle gone.
NoPanic == ~panicked

\* "OPA always includes the last successful activation Etag value in the bundle
\* request" (management-bundles.md).
SendsLastActivation ==
    \A n \in DOMAIN downloaders :
        work[Current(n)]["loop"].pc = "sent" /\ config[n].mode = "periodic"
            => work[Current(n)]["loop"].sent = store[n].etag

\* A 304 confirms the bundle in the store, when no other download of the bundle is
\* under way: services reply with it "if the bundle has not changed since the last
\* update" (management-bundles.md).
ConfirmsWhatIsStored ==
    \A n \in DOMAIN downloaders : \A k \in Kinds :
        work[Current(n)][k].pc = "got" /\ work[Current(n)][k].ans.type = "same"
            /\ (\A j \in Kinds \ {k} : work[Current(n)][j].pc = "idle")
            => store[n].etag = work[Current(n)][k].ans.etag
=============================================================================

--------------------------- MODULE PluginManager ----------------------------
(***************************************************************************)
(* The plugin manager and the plugins it runs: how plugins are created,    *)
(* registered, started, reconfigured and stopped, by the process at boot   *)
(* and by discovery later, while their goroutines report to the status     *)
(* plugin over channels that block (plugins/plugins.go,                    *)
(* plugins/discovery/discovery.go, plugins/status/plugin.go and the ends   *)
(* of plugins/bundle and plugins/logs that touch them).                    *)
(*                                                                         *)
(* A thread is the list of calls it has yet to make; a call that blocks is *)
(* the head of such a list and has no step.  What the bundle, decision log *)
(* and discovery goroutines do between two reports is the business of      *)
(* other modules: here each makes a report from time to time.              *)
(***************************************************************************)
EXTENDS Integers, Sequences, Functions

CONSTANT Deployments    \* boot: the plugins the boot configuration has
                        \* discovery: whether discovery is configured, "yes" or "no"
                        \* configs: the sets of plugins discovered configurations have

Discovery == "discovery"
Bundle == "bundle"
Logs == "decision_logs"
Status == "status"
Main == "main"

Workers == {Discovery, Bundle, Logs}
Names == Workers \union {Status}
Threads == Workers \union {Main}
Configurable == {Bundle, Logs, Status}

ASSUME DeploymentsValid ==
    \A e \in Deployments :
        /\ e.discovery \in {"yes", "no"}
        /\ e.boot \subseteq Configurable
        /\ \A c \in e.configs : c \subseteq Configurable

VARIABLES
    env,        \* the member of Deployments
    plugins,    \* m.plugins, in the order of registration
    state,      \* m.pluginStatus
    listening,  \* m.pluginStatusListeners: {Status} or {}
    heard,      \* the listeners of the bundle plugin: {Status} or {}
    running,    \* the goroutine of each worker
    loop,       \* the goroutine of the status plugin
    channel,    \* pluginStatusCh, which holds one message
    last,       \* lastPluginStatuses of the status plugin
    todo,       \* the calls each thread has yet to make
    main,       \* the process: booting, up, stopping or stopped
    toStop,     \* the plugins Manager.Stop stops
    raced       \* history: whether two updates of plugin statuses overlapped

vars == <<env, plugins, state, listening, heard, running, loop, channel, last, todo, main,
          toStop, raced>>

Nothing == [n \in Names |-> "none"]

(* A call: what is done, to which plugin, and for an update the state and  *)
(* for a notification the statuses it carries.                             *)
Op(do, of, is, all) == << [do |-> do, of |-> of, is |-> is, all |-> all] >>
Call(do, of) == Op(do, of, "none", Nothing)
UpdateTo(p, is) == Op("update", p, is, Nothing)

Registered == Range(plugins)

\* The calls for each of a set of plugins, in the order in which getPluginSet goes
\* through them.
Each(Ops(_), ps) ==
    LET ops(p) == IF p \in ps THEN Ops(p) ELSE <<>>
    IN  ops(Bundle) \o ops(Logs) \o ops(Status)

\* A plugin's New reports it not ready, then it is registered.
CreateOps(p) == UpdateTo(p, "NotReady") \o Call("register", p)
StartOps(p) == Call("start", p)
ReconfigureOps(p) == Call("reconfigure", p)

\* What discovery does with a configuration: getPluginSet, then reconfigure.
ConfigureOps(config) ==
    LET new == config \ Registered
        old == config \intersect Registered
    IN  Each(CreateOps, new) \o Each(StartOps, new) \o Each(ReconfigureOps, old)

\* readyOnce.
ReadyOps == IF state[Discovery] = "OK" THEN <<>> ELSE UpdateTo(Discovery, "OK")

(* What the Start of each plugin may do.  The bundle plugin and discovery  *)
(* may find what they persisted, on disk.                                  *)

BundleStart == {Call("run", Bundle), UpdateTo(Bundle, "OK") \o Call("run", Bundle)}

LogsStart == {Call("run", Logs) \o UpdateTo(Logs, "OK")}

\* Mutant: the listener is registered before the loop runs.
StatusStartListensFirst ==
    {Call("listen", Status) \o UpdateTo(Status, "OK") \o Call("run", Status)}

StatusStart ==
    {Call("run", Status) \o Call("listen", Status) \o UpdateTo(Status, "OK")}

DiscoveryStart ==
    IF env.discovery = "no" THEN {UpdateTo(Discovery, "OK")}
    ELSE {Call("run", Discovery)}
         \union {ConfigureOps(c) \o ReadyOps \o Call("run", Discovery) : c \in env.configs}

(* What the Stop of each plugin does.                                      *)

BundleStop == Call("stop", Bundle) \o Call("await", Bundle)

LogsStop == Call("await", Logs) \o UpdateTo(Logs, "NotReady")

StatusStop == Call("unlisten", Status) \o Call("await", Status) \o UpdateTo(Status, "NotReady")

DiscoveryStop ==
    (IF env.discovery = "no" THEN <<>> ELSE Call("stop", Discovery) \o Call("await", Discovery))
    \o UpdateTo(Discovery, "NotReady")

Starts == [p \in Names |-> CASE p = Bundle -> BundleStart
                             [] p = Logs -> LogsStart
                             [] p = Status -> StatusStart
                             [] p = Discovery -> DiscoveryStart]

StopOps(p) ==
    CASE p = Bundle -> BundleStop
      [] p = Logs -> LogsStop
      [] p = Status -> StatusStop
      [] p = Discovery -> DiscoveryStop

\* The loop of Manager.Stop.
StopAll(ps) ==
    LET upTo[n \in 0..Len(ps)] == IF n = 0 THEN <<>> ELSE upTo[n - 1] \o StopOps(ps[n])
    IN  upTo[Len(ps)]

\* The process at boot: discovery.New, which creates the plugins itself when discovery
\* is not configured, the registration of discovery, and Manager.Start.
BootOps(e) ==
    Each(CreateOps, e.boot)
    \o (IF e.discovery = "no" THEN <<>> ELSE UpdateTo(Discovery, "NotReady"))
    \o Call("register", Discovery)
    \o Each(StartOps, e.boot)
    \o StartOps(Discovery)

Init ==
    /\ env \in Deployments
    /\ plugins = <<>>
    /\ state = Nothing
    /\ listening = {}
    /\ heard = {}
    /\ running = [w \in Workers |-> "off"]
    /\ loop = "off"
    /\ channel = Nothing
    /\ last = Nothing
    /\ todo = [t \in Threads |-> IF t = Main THEN BootOps(env) ELSE <<>>]
    /\ main = "boot"
    /\ toStop = <<>>
    /\ raced = "no"

-----------------------------------------------------------------------------
(* The calls.  A call returns with what is left to do of it, if anything,  *)
(* in front of the rest.                                                   *)

Calls(t, do) == todo[t] # <<>> /\ Head(todo[t]).do = do
Arg(t) == Head(todo[t]).of
Return(t, ops) == todo' = [todo EXCEPT ![t] = ops \o Tail(@)]

Overlaps(t) == listening # {} /\ \E u \in Threads \ {t} : Calls(u, "notify")

\* Mutant: the statuses are copied before the new one is set.
UpdatePluginStatusCopiesFirst(t) ==
    /\ Calls(t, "update")
    /\ state' = [state EXCEPT ![Arg(t)] = Head(todo[t]).is]
    /\ Return(t, IF listening = {} THEN <<>> ELSE Op("notify", Arg(t), "none", state))
    /\ raced' = IF Overlaps(t) THEN "yes" ELSE raced
    /\ UNCHANGED <<env, plugins, listening, heard, running, loop, channel, last, main, toStop>>

\* UpdatePluginStatus: under m.mtx the status is set and the listeners and all statuses
\* are copied; the listeners are called when m.mtx is free again.
UpdatePluginStatus(t) ==
    /\ Calls(t, "update")
    /\ state' = [state EXCEPT ![Arg(t)] = Head(todo[t]).is]
    /\ Return(t, IF listening = {} THEN <<>> ELSE Op("notify", Arg(t), "none", state'))
    /\ raced' = IF Overlaps(t) THEN "yes" ELSE raced
    /\ UNCHANGED <<env, plugins, listening, heard, running, loop, channel, last, main, toStop>>

\* The status plugin's listener: a send on pluginStatusCh, which has room for one.
Notify(t) ==
    /\ Calls(t, "notify")
    /\ channel = Nothing
    /\ channel' = Head(todo[t]).all
    /\ Return(t, <<>>)
    /\ UNCHANGED <<env, plugins, state, listening, heard, running, loop, last, main, toStop, raced>>

\* The bundle plugin's p.mtx: its callback holds it until all listeners have returned,
\* its Reconfigure while it reports the plugin not ready.
BundleMtxFree ==
    /\ todo[Bundle] = <<>>
    /\ ~ \E t \in Threads : (Calls(t, "update") \/ Calls(t, "notify")) /\ Arg(t) = Bundle

Register(t) ==
    /\ Calls(t, "register")
    /\ plugins' = Append(plugins, Arg(t))
    /\ state' = IF state[Arg(t)] = "none" THEN [state EXCEPT ![Arg(t)] = "NotReady"] ELSE state
    /\ Return(t, IF Arg(t) \in {Bundle, Status} /\ {Bundle, Status} \subseteq Range(plugins')
                 THEN Call("hear", Bundle) ELSE <<>>)
    /\ UNCHANGED <<env, listening, heard, running, loop, channel, last, main, toStop, raced>>

\* registerBundleStatusUpdates, once the bundle and the status plugin are registered.
Hear(t) ==
    /\ Calls(t, "hear")
    /\ BundleMtxFree
    /\ heard' = {Status}
    /\ Return(t, <<>>)
    /\ UNCHANGED <<env, plugins, state, listening, running, loop, channel, last, main, toStop, raced>>

Start(t) ==
    /\ Calls(t, "start")
    /\ \E ops \in Starts[Arg(t)] : Return(t, ops)
    /\ UNCHANGED <<env, plugins, state, listening, heard, running, loop, channel, last, main,
                   toStop, raced>>

\* The goroutine of a plugin begins.
Run(t) ==
    /\ Calls(t, "run")
    /\ IF Arg(t) = Status
       THEN loop' = "select" /\ UNCHANGED running
       ELSE running' = [running EXCEPT ![Arg(t)] = "on"] /\ UNCHANGED loop
    /\ Return(t, <<>>)
    /\ UNCHANGED <<env, plugins, state, listening, heard, channel, last, main, toStop, raced>>

\* RegisterPluginStatusListener and UnregisterPluginStatusListener.
Listen(t) ==
    /\ Calls(t, "listen") \/ Calls(t, "unlisten")
    /\ listening' = IF Calls(t, "listen") THEN {Status} ELSE {}
    /\ Return(t, <<>>)
    /\ UNCHANGED <<env, plugins, state, heard, running, loop, channel, last, main, toStop, raced>>

\* Whether the goroutine of p can take a request: at its select, or between callbacks.
AtSelect(p) == IF p = Status THEN loop = "select" ELSE todo[p] = <<>>

\* Reconfigure: a request to the goroutine; the bundle plugin waits for the downloaders
\* it restarts and then, if any, reports itself not ready.
Reconfigure(t) ==
    /\ Calls(t, "reconfigure")
    /\ AtSelect(Arg(t))
    /\ \/ Return(t, <<>>)
       \/ Arg(t) = Bundle /\ BundleMtxFree /\ Return(t, UpdateTo(Bundle, "NotReady"))
    /\ UNCHANGED <<env, plugins, state, listening, heard, running, loop, channel, last, main,
                   toStop, raced>>

\* Whether a report of t has a receiver: the plugins look the status plugin up, except
\* the bundle plugin, which has listeners.
HasReceiver(t) == IF t = Bundle THEN heard # {} ELSE Status \in Registered

\* UpdateDiscoveryStatus, BulkUpdateBundleStatus, UpdateDecisionLogsStatus: a send on a
\* channel with no buffer.
Tell(t) ==
    /\ Calls(t, "tell")
    /\ HasReceiver(t) => loop = "select"
    /\ loop' = IF HasReceiver(t) THEN "post" ELSE loop
    /\ Return(t, <<>>)
    /\ UNCHANGED <<env, plugins, state, listening, heard, running, channel, last, main, toStop, raced>>

-----------------------------------------------------------------------------
(* The goroutines.                                                         *)

\* A download that is cancelled still ends in a callback, the last one.
Goes(w) == [running EXCEPT ![w] = IF @ = "stopping" THEN "ending" ELSE @]
MayGo(w) == running[w] \in {"on", "stopping"} /\ todo[w] = <<>>

\* The bundle plugin's oneShot, under p.mtx: it may become ready (checkPluginReadiness),
\* then it calls its listeners.
BundleCallback ==
    /\ MayGo(Bundle)
    /\ BundleMtxFree
    /\ \E ready \in {<<>>, UpdateTo(Bundle, "OK")} :
          /\ ready # <<>> => state[Bundle] # "OK"
          /\ todo' = [todo EXCEPT ![Bundle] = ready \o Call("tell", Status)]
    /\ running' = Goes(Bundle)
    /\ UNCHANGED <<env, plugins, state, listening, heard, loop, channel, last, main, toStop, raced>>

\* The decision logger's doOneShot.
LogsUpload ==
    /\ MayGo(Logs)
    /\ todo' = [todo EXCEPT ![Logs] = Call("tell", Status)]
    /\ UNCHANGED <<env, plugins, state, listening, heard, running, loop, channel, last, main,
                   toStop, raced>>

\* Discovery's oneShot when there is no new configuration, or it is not valid.
DiscoveryFails ==
    /\ MayGo(Discovery)
    /\ todo' = [todo EXCEPT ![Discovery] = Call("tell", Status)]
    /\ running' = Goes(Discovery)
    /\ UNCHANGED <<env, plugins, state, listening, heard, loop, channel, last, main, toStop, raced>>

\* Discovery's oneShot with a configuration; when it cannot be persisted discovery is
\* not ready yet, though the plugins are configured.
DiscoveryConfigures(config) ==
    /\ MayGo(Discovery)
    /\ \E ready \in {<<>>, ReadyOps} :
          todo' = [todo EXCEPT ![Discovery] = ConfigureOps(config) \o ready \o Call("tell", Status)]
    /\ running' = Goes(Discovery)
    /\ UNCHANGED <<env, plugins, state, listening, heard, loop, channel, last, main, toStop, raced>>

\* The status plugin's loop takes the statuses of the plugins, and posts what it has.
StatusReceives ==
    /\ loop = "select"
    /\ channel # Nothing
    /\ last' = channel
    /\ channel' = Nothing
    /\ loop' = "post"
    /\ UNCHANGED <<env, plugins, state, listening, heard, running, todo, main, toStop, raced>>

StatusPosted ==
    /\ loop = "post"
    /\ loop' = "select"
    /\ UNCHANGED <<env, plugins, state, listening, heard, running, channel, last, todo, main,
                   toStop, raced>>

-----------------------------------------------------------------------------
(* The process.                                                            *)

Booted ==
    /\ main = "boot" /\ todo[Main] = <<>>
    /\ main' = "up"
    /\ UNCHANGED <<env, plugins, state, listening, heard, running, loop, channel, last, todo,
                   toStop, raced>>

\* Mutant: plugins are stopped in the reverse order.
StopCalledBackwards ==
    /\ main = "up"
    /\ main' = "stop"
    /\ toStop' = plugins
    /\ todo' = [todo EXCEPT ![Main] = StopAll([i \in DOMAIN plugins |-> plugins[Len(plugins) + 1 - i]])]
    /\ UNCHANGED <<env, plugins, state, listening, heard, running, loop, channel, last, raced>>

\* Manager.Stop copies the plugins and stops them in the order of registration.
StopCalled ==
    /\ main = "up"
    /\ main' = "stop"
    /\ toStop' = plugins
    /\ todo' = [todo EXCEPT ![Main] = StopAll(plugins)]
    /\ UNCHANGED <<env, plugins, state, listening, heard, running, loop, channel, last, raced>>

\* Plugin.Stop takes p.mtx before it tells the downloaders to stop; discovery has no lock.
StopWorker(t) ==
    /\ Calls(t, "stop")
    /\ Arg(t) = Bundle => BundleMtxFree
    /\ running' = [running EXCEPT ![Arg(t)] = "stopping"]
    /\ Return(t, <<>>)
    /\ UNCHANGED <<env, plugins, state, listening, heard, loop, channel, last, main, toStop, raced>>

\* Mutant: Stop does not wait for the answer of a worker.
AwaitNot(t) ==
    /\ Calls(t, "await")
    /\ Arg(t) = Status => AtSelect(Arg(t))
    /\ IF Arg(t) = Status
       THEN loop' = "gone" /\ UNCHANGED running
       ELSE running' = [running EXCEPT ![Arg(t)] = "off"] /\ UNCHANGED loop
    /\ Return(t, <<>>)
    /\ UNCHANGED <<env, plugins, state, listening, heard, channel, last, main, toStop, raced>>

\* The stop request is taken, and answered when the goroutine is done.
Await(t) ==
    /\ Calls(t, "await")
    /\ AtSelect(Arg(t))
    /\ IF Arg(t) = Status
       THEN loop' = "gone" /\ UNCHANGED running
       ELSE running' = [running EXCEPT ![Arg(t)] = "off"] /\ UNCHANGED loop
    /\ Return(t, <<>>)
    /\ UNCHANGED <<env, plugins, state, listening, heard, channel, last, main, toStop, raced>>

StopReturned ==
    /\ main = "stop" /\ todo[Main] = <<>>
    /\ main' = "stopped"
    /\ UNCHANGED <<env, plugins, state, listening, heard, running, loop, channel, last, todo,
                   toStop, raced>>

Calling(t) ==
    \/ UpdatePluginStatus(t)
    \/ Notify(t)
    \/ Register(t)
    \/ Hear(t)
    \/ Start(t)
    \/ Run(t)
    \/ Listen(t)
    \/ Reconfigure(t)
    \/ Tell(t)
    \/ StopWorker(t)
    \/ Await(t)

Next ==
    \/ \E t \in Threads : Calling(t)
    \/ BundleCallback
    \/ LogsUpload
    \/ DiscoveryFails
    \/ \E c \in env.configs : DiscoveryConfigures(c)
    \/ StatusReceives
    \/ StatusPosted
    \/ Booted
    \/ StopCalled
    \/ StopReturned

Spec == Init /\ [][Next]_vars

(* A call that can be made is made; one that waits for a channel or a lock *)
(* others use too gets it in the end (Go's select and channels are fair to *)
(* those that wait).  A post ends, with an answer or a timeout.  Nobody    *)
(* has to download anything, nor to stop the process.                      *)
Fairness ==
    /\ \A t \in Threads : SF_vars(Calling(t))
    /\ SF_vars(StatusReceives)
    /\ WF_vars(StatusPosted)
    /\ WF_vars(Booted)
    /\ WF_vars(StopReturned)

FairSpec == Spec /\ Fairness

-----------------------------------------------------------------------------
(* Properties.                                                             *)

Goroutines == {"off", "on", "stopping", "ending"}

\* Everything has its type, and each plugin is registered once (getPluginSet's lookups).
TypeOK ==
    /\ env \in Deployments
    /\ Registered \subseteq Names /\ IsInjective(plugins)
    /\ state \in [Names -> {"none", "NotReady", "OK"}]
    /\ listening \subseteq {Status} /\ heard \subseteq {Status}
    /\ running \in [Workers -> Goroutines]
    /\ loop \in {"off", "select", "post", "gone"}
    /\ {channel, last} \subseteq [Names -> {"none", "NotReady", "OK"}]
    /\ main \in {"boot", "up", "stop", "stopped"}
    /\ toStop = SubSeq(plugins, 1, Len(toStop))

\* When Manager.Stop returns, no goroutine of a plugin it stopped runs, and none waits to
\* report (Manager.Stop, Downloader.Stop, status Plugin.Stop).  The plugins it stops are
\* those registered when it began: one that discovery registers later is not stopped.
StoppedIsQuiet ==
    main = "stopped" =>
        \A p \in Range(toStop) :
            IF p = Status THEN loop = "gone" /\ listening = {}
            ELSE running[p] = "off" /\ todo[p] = <<>>

\* When no notification is on its way, what the status plugin last received is what the
\* manager holds, if no two updates overlapped: listeners are called outside m.mtx, and
\* two updates that overlap may arrive in the other order (UpdatePluginStatus and the
\* report of all plugins that the status plugin's Start relies on).
ReportsSettle ==
    listening # {} /\ raced = "no" /\ channel = Nothing
    /\ ~(\E t \in Threads : Calls(t, "notify") \/ Calls(t, "update"))
        => \A p \in Names : last[p] = state[p]

\* Every report that was begun is delivered, however the plugins' goroutines, discovery
\* and the shutdown interleave, if the status plugin was registered after those that
\* report to it: it is there for as long as they may (Tell's and Notify's channels).
ReportsArrive ==
    \A t \in Workers : todo[t] # <<>> ~> todo[t] = <<>>

\* Manager.Stop returns ("within the duration of the graceful shutdown period", the comment
\* of Manager.Stop), though the Stop of a plugin waits for goroutines that may be reporting
\* to another.  This is so where the status plugin is registered after those that report to
\* it, hence stopped last; stopped before them it no longer receives, and the Stop of a
\* plugin that reports waits for ever.
StopReturns == main = "stop" ~> main = "stopped"
=============================================================================

------------------------- MODULE BundlePluginProofs -------------------------
(***************************************************************************)
(* Proofs about BundlePlugin, for any bundles, services, callers,          *)
(* configurations, failures and restarts: a plugin that reports itself     *)
(* ready has all its bundles in the store; and what a bundle that is only  *)
(* polled can rely on.  Its loader sends the ETag of what the plugin has   *)
(* accepted, a 304 confirms what is stored, nothing reaches the store      *)
(* after Stop, and the revision its status reports is the one in the store *)
(* if it is not persisted.                                                 *)
(***************************************************************************)
EXTENDS BundlePlugin, TLAPS

Updates == {"snapshot", "delta"}

\* The shapes that a step relies on.
Shapes ==
    /\ env \in Deployments
    /\ ready \in BOOLEAN /\ stopped \in BOOLEAN
    /\ status = [n \in DOMAIN status |-> status[n]] /\ DOMAIN status \subseteq Names
    /\ \A n \in DOMAIN status :
        /\ status[n] = [rev |-> status[n].rev, activated |-> status[n].activated,
                        err |-> status[n].err]
        /\ status[n].activated \in BOOLEAN
    /\ store = [n \in Names |-> store[n]]
    /\ reconf = [pc |-> reconf.pc, wait |-> reconf.wait, at |-> reconf.at, new |-> reconf.new,
                 updated |-> reconf.updated, deleted |-> reconf.deleted]

\* The plugin's maps have the bundles of its configuration, or will have them when the
\* Reconfigure under way is done.
Books ==
    /\ reconf.new \subseteq Names
    /\ reconf.new \intersect reconf.deleted = {}
    /\ reconf.updated \intersect reconf.deleted = {}
    /\ reconf.pc # "stopping" => reconf.new = {} /\ reconf.updated = {} /\ reconf.deleted = {}
    /\ DOMAIN config \subseteq Names
    /\ ~stopped =>
        /\ DOMAIN downloaders = DOMAIN status
        /\ reconf.updated \subseteq DOMAIN status
        /\ DOMAIN config = (DOMAIN status \ reconf.deleted) \union reconf.new

\* Goroutine w is of the right shape, and an answer with a bundle has one.
Sound(w) ==
    /\ w = [pc |-> w.pc, sent |-> w.sent, ans |-> w.ans]
    /\ w.pc = "got" /\ w.ans.type \in Updates => w.ans.b # None

Delivered ==
    /\ work = [i \in Ids |-> [k \in Kinds |-> work[i][k]]]
    /\ \A i \in Ids : \A k \in Kinds : Sound(work[i][k])

\* A plugin that is ready has activated its bundles, and a bundle that has been
\* activated is in the store until it is removed.
ActiveStored ==
    /\ ready => \A n \in DOMAIN status : status[n].activated
    /\ ~stopped => \A n \in DOMAIN status : status[n].activated => store[n].rev # None

IInv == Shapes /\ Books /\ Delivered /\ ActiveStored

\* A step of one goroutine leaves the others alone.
LEMMA SetWork ==
  ASSUME Delivered, NEW i \in Ids, NEW k \in Kinds, NEW w, Sound(w),
         work' = [work EXCEPT ![i][k] = w]
  PROVE  Delivered'
<1>1. work' = [j \in Ids |-> [l \in Kinds |-> IF j = i /\ l = k THEN w ELSE work[j][l]]]
  BY Zenon DEF Delivered
<1>2. \A j \in Ids : \A l \in Kinds : work'[j][l] = IF j = i /\ l = k THEN w ELSE work[j][l]
  BY <1>1
<1>3. work' = [j \in Ids |-> [l \in Kinds |-> work'[j][l]]]
  BY <1>1, <1>2, Zenon
<1>4. \A j \in Ids : \A l \in Kinds : Sound(work'[j][l])
  BY <1>2 DEF Delivered
<1> QED BY Zenon, <1>3, <1>4 DEF Delivered, Sound

\* The steps of loaders change nothing that the plugin has.
LEMMA LoadersKeep ==
  ASSUME IInv, UNCHANGED <<env, config, status, downloaders, ready, stopped, reconf, store>>,
         Delivered'
  PROVE  IInv'
  BY Zenon DEF IInv, Shapes, Books, ActiveStored

\* Trigger only starts a goroutine.
LEMMA TriggerKeeps ==
  ASSUME IInv, NEW n \in Names, NEW c \in env.callers, Trigger(n, c)
  PROVE  IInv'
<1> DEFINE i == Current(n)
<1>0. c \in Kinds
  BY Zenon, DeploymentsValid DEF IInv, Shapes, Deployment, Kinds
<1>1. work' = [work EXCEPT ![i][c].pc = "called"]
  BY Zenon DEF Trigger
<1>2. CASE i \in Ids
  <2> DEFINE w == [pc |-> "called", sent |-> work[i][c].sent, ans |-> work[i][c].ans]
  <2>1. work[i][c] = [pc |-> work[i][c].pc, sent |-> work[i][c].sent, ans |-> work[i][c].ans]
    BY Zenon, <1>0, <1>2 DEF IInv, Delivered, Sound
  <2>2. [work[i][c] EXCEPT !.pc = "called"] = w
    BY <2>1
  <2>3. work' = [work EXCEPT ![i][c] = w]
    BY <1>0, <1>1, <1>2, <2>2, Zenon DEF IInv, Delivered
  <2>4. Sound(w)
    BY Zenon DEF Sound
  <2> HIDE DEF w
  <2>5. Delivered'
    BY <1>0, <1>2, <2>3, <2>4, SetWork, Zenon DEF IInv
  <2> QED BY Zenon, <2>5, LoadersKeep DEF Trigger, pluginVars
<1>3. CASE i \notin Ids
  <2>1. work' = work
    BY Zenon, <1>1, <1>3 DEF IInv, Delivered
  <2>2. Delivered'
    BY Zenon, <2>1 DEF IInv, Delivered, Sound
  <2> QED BY Zenon, <2>2, LoadersKeep DEF Trigger, pluginVars
<1> QED BY Zenon, <1>2, <1>3

\* A request has an answer with a bundle or without one; it touches no map of the plugin.
LEMMA DownloadKeeps ==
  ASSUME IInv, NEW i \in Ids, NEW k \in Kinds, Request(i, k) \/ FetchFails(i, k) \/ Fetch(i, k)
  PROVE  IInv'
<1>0. work[i][k] = [pc |-> work[i][k].pc, sent |-> work[i][k].sent, ans |-> work[i][k].ans]
  BY Zenon DEF IInv, Delivered, Sound
<1>1. CASE Request(i, k)
  <2> DEFINE w == [pc |-> "sent", sent |-> loaders[i].etag, ans |-> None]
  <2>1. Sound(w)
    BY Zenon DEF Sound
  <2>2. work' = [work EXCEPT ![i][k] = w]
    BY Zenon, <1>1 DEF Request
  <2> HIDE DEF w
  <2>3. Delivered'
    BY <2>1, <2>2, SetWork, Zenon DEF IInv
  <2> QED BY Zenon, <1>1, <2>3, LoadersKeep DEF Request, pluginVars
<1>2. ASSUME NEW ans, Fetched(i, k, ans), ans.type \in Updates => ans.b # None
      PROVE  IInv'
  <2> DEFINE w == [pc |-> "got", sent |-> work[i][k].sent, ans |-> ans]
  <2>1. Sound(w)
    BY Zenon, <1>2 DEF Sound
  <2> DEFINE first == [work EXCEPT ![i][k].pc = "got"]
             once == [pc |-> "got", sent |-> work[i][k].sent, ans |-> work[i][k].ans]
  <2>2. first = [work EXCEPT ![i][k] = once]
    <3>1. [work[i][k] EXCEPT !.pc = "got"] = once
      BY <1>0
    <3> QED BY <3>1, Zenon DEF IInv, Delivered
  <2>3. work' = [work EXCEPT ![i][k] = w]
    <3>1. work' = [first EXCEPT ![i][k].ans = ans]
      BY Zenon, <1>2 DEF Fetched
    <3> HIDE DEF first
    <3>2. first[i][k] = once
      BY Zenon, <2>2 DEF IInv, Delivered
    <3>3. [first[i][k] EXCEPT !.ans = ans] = w
      BY <3>2
    <3>4. first = [j \in Ids |-> first[j]] /\ first[i] = [l \in Kinds |-> first[i][l]]
      BY <2>2, Zenon DEF IInv, Delivered
    <3>5. work' = [first EXCEPT ![i][k] = w]
      BY <3>1, <3>3, <3>4, Zenon
    <3> HIDE DEF w, once
    <3> QED BY <2>2, <3>5, Zenon DEF IInv, Delivered
  <2> HIDE DEF w
  <2>4. Delivered'
    BY <2>1, <2>3, SetWork, Zenon DEF IInv
  <2> QED BY Zenon, <1>2, <2>4, LoadersKeep DEF Fetched, pluginVars
<1>3. CASE FetchFails(i, k)
  BY Zenon, <1>2, <1>3 DEF FetchFails, Updates
<1>4. CASE Fetch(i, k)
  BY Zenon, <1>2, <1>4 DEF Fetch, Updates
<1> QED BY Zenon, <1>1, <1>3, <1>4

\* A goroutine that ends its oneShot has no answer any more.
LEMMA DoneKeeps ==
  ASSUME Delivered, NEW i \in Ids, NEW k \in Kinds, Done(i, k)
  PROVE  Delivered'
<1>1. PICK w : /\ w \in {Unborn, [Unborn EXCEPT !.pc = "over"]}
               /\ work' = [work EXCEPT ![i][k] = w]
  BY Zenon DEF Done
<1>2. Sound(w)
  BY <1>1 DEF Sound, Unborn
<1> QED BY <1>1, <1>2, SetWork, Zenon

\* SetError and its like change nothing but the error.
LEMMA OnlyTheError ==
  ASSUME IInv, NEW n \in DOMAIN status, NEW err, status' = [status EXCEPT ![n].err = err]
  PROVE  /\ DOMAIN status' = DOMAIN status /\ status' = [m \in DOMAIN status |-> status'[m]]
         /\ \A m \in DOMAIN status :
              /\ status'[m].activated = status[m].activated
              /\ status'[m] = [rev |-> status'[m].rev, activated |-> status'[m].activated,
                               err |-> status'[m].err]
<1>1. DOMAIN status' = DOMAIN status /\ status' = [m \in DOMAIN status |-> status'[m]]
  BY Zenon DEF IInv, Shapes
<1>2. \A m \in DOMAIN status : m # n => status'[m] = status[m]
  BY Zenon DEF IInv, Shapes
<1>3. status'[n] = [rev |-> status[n].rev, activated |-> status[n].activated, err |-> err]
  <2>1. status'[n] = [status[n] EXCEPT !.err = err]
    BY Zenon DEF IInv, Shapes
  <2>2. status[n] = [rev |-> status[n].rev, activated |-> status[n].activated,
                     err |-> status[n].err]
    BY Zenon DEF IInv, Shapes
  <2> QED BY <2>1, <2>2, Zenon
<1> QED BY <1>1, <1>2, <1>3 DEF IInv, Shapes

\* What was activated stays so, and in the store.
LEMMA StillStored ==
  ASSUME ActiveStored, DOMAIN status \subseteq Names, DOMAIN status' = DOMAIN status,
         \A m \in DOMAIN status : status'[m].activated = status[m].activated,
         stopped' = stopped,
         ready' => ready \/ \A m \in DOMAIN status' : status'[m].activated,
         \A n \in Names : store[n].rev # None => store'[n].rev # None
  PROVE  ActiveStored'
<1>1. ready' => \A m \in DOMAIN status' : status'[m].activated
  BY Zenon DEF ActiveStored
<1>2. ~stopped' => \A m \in DOMAIN status' : status'[m].activated => store'[m].rev # None
  BY Zenon DEF ActiveStored
<1> QED BY <1>1, <1>2, Zenon DEF ActiveStored

\* The callback sets an error: what was activated stays so, and in the store.
LEMMA FailKeeps ==
  ASSUME IInv, NEW i \in Ids, NEW k \in Kinds, NEW err, i[1] \in DOMAIN status, Fail(i, k, err),
         store' = [n \in Names |-> store'[n]],
         \A n \in Names : store[n].rev # None => store'[n].rev # None
  PROVE  IInv'
<1> DEFINE n == i[1]
<1>1. /\ status' = [status EXCEPT ![n].err = err]
      /\ UNCHANGED <<env, config, downloaders, ready, stopped, reconf>>
      /\ Delivered'
  BY Zenon, DoneKeeps DEF Fail, IInv
<1>2. /\ DOMAIN status' = DOMAIN status /\ status' = [m \in DOMAIN status |-> status'[m]]
      /\ \A m \in DOMAIN status :
           /\ status'[m].activated = status[m].activated
           /\ status'[m] = [rev |-> status'[m].rev, activated |-> status'[m].activated,
                            err |-> status'[m].err]
  BY <1>1, OnlyTheError, Zenon
<1>3. Shapes'
  BY Zenon, <1>1, <1>2 DEF IInv, Shapes
<1>4. Books'
  BY Zenon, <1>1, <1>2 DEF IInv, Books
<1>5. ActiveStored'
  BY Zenon, <1>1, <1>2, StillStored DEF IInv, Shapes
<1> QED BY Zenon, <1>1, <1>3, <1>4, <1>5 DEF IInv

\* An activation puts a bundle in the store and leaves the others alone.
LEMMA ActivatedStores ==
  ASSUME IInv, NEW i \in Ids, NEW k \in Kinds, Activates(i, k), store' = Activated(i, k)
  PROVE  /\ store' = [n \in Names |-> store'[n]]
         /\ store'[i[1]].rev # None
         /\ \A n \in Names : n # i[1] => store'[n] = store[n]
<1> DEFINE ans == work[i][k].ans
           rev == IF ans.type = "delta" /\ store[i[1]].rev # ans.base THEN Mixed ELSE ans.b
<1>1. store' = [store EXCEPT ![i[1]] = [rev |-> rev, etag |-> ans.etag]]
  BY Zenon DEF Activated
<1>2. rev # None
  <2>1. ans.b # None
    BY Zenon DEF Activates, Called, IInv, Delivered, Sound, Updates
  <2>2. Mixed # None
    BY Zenon DEF Mixed, None
  <2> QED BY Zenon, <2>1, <2>2
<1>3. i[1] \in Names
  BY Zenon DEF Ids
<1> HIDE DEF rev, ans
<1> QED BY <1>1, <1>2, <1>3 DEF IInv, Shapes

\* The callback of a loader, by its outcome.
LEMMA ProcessKeeps ==
  ASSUME IInv, NEW i \in Ids, NEW k \in Kinds, Process(i, k)
  PROVE  IInv'
<1> DEFINE n == i[1]
           ans == work[i][k].ans
<1>0. n \in Names
  BY Zenon DEF Ids
<1>1. CASE ProcessPanics(i, k)
  BY Zenon, <1>1, DoneKeeps, LoadersKeep DEF ProcessPanics, pluginVars, IInv
<1>2. CASE ProcessError(i, k)
  BY Zenon, <1>2, FailKeeps DEF ProcessError, Called, IInv, Shapes
<1>3. CASE ActivationFails(i, k)
  BY Zenon, <1>3, FailKeeps DEF ActivationFails, Called, IInv, Shapes
<1>4. CASE PersistFails(i, k)
  BY Zenon, <1>0, <1>4, FailKeeps, ActivatedStores DEF PersistFails, Activates, Called
<1>5. CASE ProcessActivated(i, k)
  <2> DEFINE st == [rev |-> ans.b, activated |-> TRUE, err |-> "none"]
  <2>1. /\ n \in DOMAIN status /\ store' = Activated(i, k) /\ Activates(i, k)
        /\ status' = [status EXCEPT ![n] = st]
        /\ ready' = Readiness(status')
        /\ UNCHANGED <<env, config, downloaders, stopped, reconf>>
        /\ Done(i, k)
    BY Zenon, <1>5 DEF ProcessActivated, Activates, Called
  <2>2. /\ store' = [m \in Names |-> store'[m]]
        /\ store'[n].rev # None
        /\ \A m \in Names : m # n => store'[m] = store[m]
    BY Zenon, <2>1, ActivatedStores
  <2>3. /\ DOMAIN status' = DOMAIN status /\ status' = [m \in DOMAIN status |-> status'[m]]
        /\ status'[n] = st
        /\ \A m \in DOMAIN status : m # n => status'[m] = status[m]
    BY <2>1, Zenon DEF IInv, Shapes
  <2>4. st.activated = TRUE /\ st = [rev |-> st.rev, activated |-> st.activated, err |-> st.err]
    BY Zenon
  <2> HIDE DEF st
  <2>5. \A m \in DOMAIN status : status'[m].activated \in BOOLEAN
    BY <2>3, <2>4, Zenon DEF IInv, Shapes
  <2>6. ready' \in BOOLEAN
    BY Zenon, <2>1 DEF Readiness, AllActivated
  <2>7. Shapes'
    BY Zenon, <2>1, <2>2, <2>3, <2>4, <2>5, <2>6 DEF IInv, Shapes
  <2>8. ActiveStored'
    <3>1. ready => \A m \in DOMAIN status' : status'[m].activated
      BY <2>3, <2>4, Zenon DEF IInv, ActiveStored
    <3>2. ready' => \A m \in DOMAIN status' : status'[m].activated
      BY <2>1, <3>1, Zenon DEF Readiness, AllActivated
    <3>3. ASSUME ~stopped', NEW m \in DOMAIN status', status'[m].activated
          PROVE  store'[m].rev # None
      <4>1. CASE m = n
        BY Zenon, <2>2, <4>1
      <4>2. CASE m # n
        <5>1. status'[m] = status[m] /\ m \in DOMAIN status /\ stopped' = stopped
          BY Zenon, <2>1, <2>3, <4>2
        <5>2. store'[m] = store[m]
          BY Zenon, <2>2, <4>2, <5>1 DEF IInv, Shapes
        <5> QED BY Zenon, <3>3, <5>1, <5>2 DEF IInv, ActiveStored
      <4> QED BY Zenon, <4>1, <4>2
    <3> QED BY <3>2, <3>3, Zenon DEF ActiveStored
  <2>9. Books'
    BY Zenon, <2>1, <2>3 DEF IInv, Books
  <2> QED BY Zenon, <2>1, <2>7, <2>8, <2>9, DoneKeeps DEF IInv
<1>6. CASE ProcessNotModified(i, k)
  <2>1. /\ n \in DOMAIN status /\ Done(i, k)
        /\ UNCHANGED <<env, config, downloaders, stopped, reconf, store>>
        /\ \/ status' = [status EXCEPT ![n].err = "none"] /\ ready' = Readiness(status')
           \/ UNCHANGED <<status, ready>>
    BY Zenon, <1>6 DEF ProcessNotModified, Called
  <2>2. CASE UNCHANGED <<status, ready>>
    BY Zenon, <2>1, <2>2, DoneKeeps, LoadersKeep DEF IInv
  <2>3. CASE status' = [status EXCEPT ![n].err = "none"] /\ ready' = Readiness(status')
    <3>1. /\ DOMAIN status' = DOMAIN status /\ status' = [m \in DOMAIN status |-> status'[m]]
          /\ \A m \in DOMAIN status :
               /\ status'[m].activated = status[m].activated
               /\ status'[m] = [rev |-> status'[m].rev, activated |-> status'[m].activated,
                                err |-> status'[m].err]
      BY <2>1, <2>3, OnlyTheError, Zenon
    <3>2. ready' \in BOOLEAN
      BY Zenon, <2>3 DEF Readiness, AllActivated
    <3>3. ready' => ready \/ \A m \in DOMAIN status' : status'[m].activated
      BY <2>3, Zenon DEF Readiness, AllActivated
    <3>4. Shapes'
      BY Zenon, <2>1, <3>1, <3>2 DEF IInv, Shapes
    <3>5. ActiveStored'
      BY Zenon, <2>1, <3>1, <3>3, StillStored DEF IInv, Shapes
    <3>6. Books'
      BY Zenon, <2>1, <3>1 DEF IInv, Books
    <3> QED BY Zenon, <2>1, <3>4, <3>5, <3>6, DoneKeeps DEF IInv
  <2> QED BY Zenon, <2>1, <2>2, <2>3
<1> QED BY Zenon, <1>1, <1>2, <1>3, <1>4, <1>5, <1>6 DEF Process

\* Stop takes the loaders away and nothing else; the goroutines of Stop and Reconfigure
\* wait for loaders.
LEMMA StoppingKeeps ==
  ASSUME IInv,
         \/ StopCalled
         \/ StopperGoesOn
         \/ ReconfigureGoesOn
         \/ \E i \in Ids : LoopReturns(i) \/ StopperStops(i) \/ ReconfigureStops(i)
         \/ \E s \in Services : Publish(s)
  PROVE  IInv'
<1>1. CASE StopCalled
  <2>1. /\ stopped' = TRUE
        /\ UNCHANGED <<env, config, status, ready, work, reconf, store>>
    BY Zenon, <1>1 DEF StopCalled, loaderVars
  <2>2. Shapes' /\ Delivered'
    BY Zenon, <2>1 DEF IInv, Shapes, Delivered, Sound
  <2>3. Books' /\ ActiveStored'
    BY Zenon, <2>1 DEF IInv, Books, ActiveStored
  <2> QED BY Zenon, <2>2, <2>3 DEF IInv
<1>2. ASSUME UNCHANGED <<env, config, status, downloaders, ready, stopped, reconf, store, work>>
      PROVE  IInv'
  <2>1. Delivered'
    BY Zenon, <1>2 DEF IInv, Delivered, Sound
  <2> QED BY Zenon, <1>2, <2>1, LoadersKeep
<1>3. CASE \/ StopperGoesOn
           \/ \E i \in Ids : LoopReturns(i) \/ StopperStops(i)
           \/ \E s \in Services : Publish(s)
  BY <1>2, <1>3, Zenon DEF StopperGoesOn, LoopReturns, StopperStops, Publish, pluginVars, loaderVars
<1>4. ASSUME NEW at, NEW wait, reconf' = [reconf EXCEPT !.at = at, !.wait = wait],
             UNCHANGED <<env, config, status, downloaders, ready, stopped, store, work>>
      PROVE  IInv'
  <2>1. reconf' = [pc |-> reconf.pc, wait |-> wait, at |-> at, new |-> reconf.new,
                   updated |-> reconf.updated, deleted |-> reconf.deleted]
    BY <1>4, Zenon DEF IInv, Shapes
  <2>2. Delivered' /\ ActiveStored'
    BY Zenon, <1>4 DEF IInv, Delivered, Sound, ActiveStored
  <2>3. Shapes'
    BY <1>4, <2>1, Zenon DEF IInv, Shapes
  <2>4. Books'
    BY Zenon, <1>4, <2>1 DEF IInv, Books
  <2> QED BY Zenon, <2>2, <2>3, <2>4 DEF IInv
<1>5. ASSUME NEW i \in Ids, ReconfigureStops(i)
      PROVE  IInv'
  BY <1>4, <1>5, Zenon DEF ReconfigureStops, pluginVars
<1>6. CASE ReconfigureGoesOn
  <2>1. reconf' = [reconf EXCEPT !.at = NoLoader, !.wait = reconf.wait]
    BY <1>6, Zenon DEF ReconfigureGoesOn, IInv, Shapes
  <2> QED BY <1>4, <1>6, <2>1, Zenon DEF ReconfigureGoesOn, pluginVars, loaderVars
<1> QED BY Zenon, <1>1, <1>3, <1>5, <1>6

\* Reconfigure replaces the configuration, and keeps what its second half will add and
\* remove.
LEMMA ReconfigureCalledKeeps ==
  ASSUME IInv, NEW conf \in env.configs, ReconfigureCalled(conf)
  PROVE  IInv'
<1> DEFINE new == DOMAIN conf \ DOMAIN config
           updated == {n \in DOMAIN conf \cap DOMAIN config : conf[n] # config[n]}
           deleted == DOMAIN config \ DOMAIN conf
           wait == {Current(n) : n \in DOMAIN downloaders \cap (updated \cup deleted)}
<1>1. /\ reconf.pc = "idle" /\ config' = conf
      /\ reconf' = [pc |-> "stopping", at |-> NoLoader, wait |-> wait, new |-> new,
                    updated |-> updated, deleted |-> deleted]
      /\ UNCHANGED <<env, status, downloaders, ready, stopped, store, work>>
  BY Zenon DEF ReconfigureCalled, loaderVars
<1>2. DOMAIN conf \subseteq Names
  BY DeploymentsValid DEF IInv, Shapes, Deployment, Partial
<1>3. updated \subseteq DOMAIN config /\ updated \subseteq DOMAIN conf
  BY Zenon
<1>4. Delivered' /\ ActiveStored'
  BY Zenon, <1>1 DEF IInv, Delivered, Sound, ActiveStored
<1> HIDE DEF wait, updated
<1>5. Shapes'
  BY <1>1, Zenon DEF IInv, Shapes
<1>6. Books'
  BY Zenon, <1>1, <1>2, <1>3 DEF IInv, Books
<1> QED BY Zenon, <1>4, <1>5, <1>6 DEF IInv

\* A goroutine that has not run, or only has its file to read, has no answer yet.
LEMMA NewWorkSound ==
  ASSUME NEW src
  PROVE  /\ NewWork(src) = [k \in Kinds |-> NewWork(src)[k]]
         /\ \A k \in Kinds : Sound(NewWork(src)[k])
         /\ Sound(Unborn)
<1>1. Sound(Unborn)
  BY Zenon DEF Sound, Unborn
<1>2. Sound([Unborn EXCEPT !.pc = "sent"])
  BY DEF Sound, Unborn
<1> QED BY Zenon, <1>1, <1>2 DEF NewWork

\* The second half of Reconfigure removes bundles from the plugin's maps and from the
\* store together, and a bundle that it adds has not been activated.
LEMMA ReconfigureAppliesKeeps ==
  ASSUME IInv, ReconfigureApplies
  PROVE  IInv'
<1> DEFINE start == reconf.new \cup reconf.updated
           gone == reconf.deleted \cap DOMAIN downloaders
<1>1. /\ store' = [n \in Names |-> IF n \in reconf.deleted THEN Empty ELSE store[n]]
      /\ reconf' = Nobody
      /\ UNCHANGED <<env, config, stopped>>
  BY Zenon DEF ReconfigureApplies, Deactivated
<1>2. /\ reconf'.new = {} /\ reconf'.updated = {} /\ reconf'.deleted = {}
      /\ reconf' = [pc |-> reconf'.pc, wait |-> reconf'.wait, at |-> reconf'.at,
                    new |-> reconf'.new, updated |-> reconf'.updated, deleted |-> reconf'.deleted]
  BY Zenon, <1>1 DEF Nobody
<1>3. store' = [n \in Names |-> store'[n]]
  BY Zenon, <1>1
<1>4. CASE stopped /\ start # {}
  <2>1. UNCHANGED <<status, downloaders, ready, work>>
    BY Zenon, <1>4 DEF ReconfigureApplies, loaderVars
  <2>2. Shapes'
    BY Zenon, <1>1, <1>2, <1>3, <2>1 DEF IInv, Shapes
  <2>3. Books'
    BY Zenon, <1>1, <1>2, <1>4 DEF IInv, Books
  <2>4. Delivered'
    BY Zenon, <2>1 DEF IInv, Delivered, Sound
  <2>5. ActiveStored'
    BY Zenon, <1>1, <1>4, <2>1 DEF IInv, ActiveStored
  <2> QED BY Zenon, <2>2, <2>3, <2>4, <2>5 DEF IInv
<1>5. CASE ~(stopped /\ start # {})
  <2>1. /\ status' = [n \in (DOMAIN status \ gone) \cup reconf.new |->
                        IF n \in reconf.new THEN NewStatus ELSE status[n]]
        /\ DOMAIN downloaders' = (DOMAIN downloaders \ gone) \cup start
        /\ work' = [i \in Ids |-> IF i[1] \in start /\ i[2] = created[i[1]] + 1
                                  THEN NewWork(config[i[1]]) ELSE work[i]]
        /\ ready' = ReadyAfter(start)
    BY Zenon, <1>5 DEF ReconfigureApplies
  <2>2. /\ DOMAIN status' = (DOMAIN status \ gone) \cup reconf.new
        /\ \A n \in DOMAIN status' :
              status'[n] = IF n \in reconf.new THEN NewStatus ELSE status[n]
    BY Zenon, <2>1
  <2>3. Delivered'
    <3>1. \A i \in Ids : work'[i] = [k \in Kinds |-> work'[i][k]]
      BY Zenon, <2>1, NewWorkSound DEF IInv, Delivered
    <3>2. \A i \in Ids : \A k \in Kinds : Sound(work'[i][k])
      BY Zenon, <2>1, NewWorkSound DEF IInv, Delivered
    <3>3. work' = [i \in Ids |-> work'[i]]
      BY Zenon, <2>1
    <3> QED BY Zenon, <3>1, <3>2, <3>3 DEF Delivered, Sound
  <2>4. ready' \in BOOLEAN /\ (ready' => ready /\ start = {})
    BY <2>1, Zenon DEF ReadyAfter, IInv, Shapes
  <2>5. Shapes'
    <3>1. status' = [n \in DOMAIN status' |-> status'[n]] /\ DOMAIN status' \subseteq Names
      BY Zenon, <2>1, <2>2 DEF IInv, Shapes, Books
    <3>2. \A n \in DOMAIN status' :
            /\ status'[n] = [rev |-> status'[n].rev, activated |-> status'[n].activated,
                             err |-> status'[n].err]
            /\ status'[n].activated \in BOOLEAN
      <4> TAKE n \in DOMAIN status'
      <4>1. CASE n \in reconf.new
        <5>1. status'[n] = NewStatus
          BY Zenon, <2>2, <4>1
        <5> QED BY <5>1 DEF NewStatus
      <4>2. CASE n \notin reconf.new
        <5>1. status'[n] = status[n] /\ n \in DOMAIN status
          BY Zenon, <2>2, <4>2
        <5> QED BY Zenon, <5>1 DEF IInv, Shapes
      <4> QED BY Zenon, <4>1, <4>2
    <3> QED BY Zenon, <1>1, <1>2, <1>3, <2>4, <3>1, <3>2 DEF IInv, Shapes
  <2>6. Books'
    BY <1>1, <1>2, <2>1, <2>2, Zenon DEF IInv, Books
  <2>7. ActiveStored'
    <3>1. ready' => \A n \in DOMAIN status' : status'[n].activated
      BY Zenon, <2>2, <2>4 DEF IInv, ActiveStored
    <3>2. ASSUME ~stopped', NEW n \in DOMAIN status', status'[n].activated
          PROVE  store'[n].rev # None
      <4>1. n \notin reconf.new /\ n \in DOMAIN status /\ status'[n] = status[n]
        BY <2>2, <3>2 DEF NewStatus
      <4>2. n \notin reconf.deleted /\ n \in Names
        BY Zenon, <1>1, <2>2, <3>2, <4>1 DEF IInv, Books, Shapes
      <4>3. store'[n] = store[n]
        BY Zenon, <1>1, <4>2
      <4> QED BY Zenon, <1>1, <3>2, <4>1, <4>3 DEF IInv, ActiveStored
    <3> QED BY Zenon, <3>1, <3>2 DEF ActiveStored
  <2> QED BY Zenon, <2>3, <2>5, <2>6, <2>7 DEF IInv
<1> QED BY Zenon, <1>4, <1>5

\* What the process finds on disk when it starts: a bundle that it activates from there
\* is then in the store.
LEMMA LoadedStores ==
  ASSUME NEW d, NEW kept, NEW n \in DOMAIN env.boot, DOMAIN env.boot \subseteq Names
  PROVE  /\ Loaded(env.boot, d, n) = [rev |-> Loaded(env.boot, d, n).rev,
                                      activated |-> Loaded(env.boot, d, n).activated,
                                      err |-> Loaded(env.boot, d, n).err]
         /\ Loaded(env.boot, d, n).activated \in BOOLEAN
         /\ Loaded(env.boot, d, n).activated => FromDisk(env.boot, d, kept)[n].rev # None
<1>1. CASE ~env.boot[n].persist \/ d[n] = None
  <2>1. Loaded(env.boot, d, n) = NewStatus
    BY Zenon, <1>1 DEF Loaded
  <2> QED BY <2>1 DEF NewStatus
<1>2. CASE ~(~env.boot[n].persist \/ d[n] = None) /\ d[n] \in Broken
  <2>1. Loaded(env.boot, d, n) = [rev |-> None, activated |-> FALSE, err |-> "ast"]
    BY <1>2, Zenon DEF Loaded, NewStatus
  <2> QED BY <2>1
<1>3. CASE ~(~env.boot[n].persist \/ d[n] = None) /\ d[n] \notin Broken
  <2>1. Loaded(env.boot, d, n) = [rev |-> d[n], activated |-> TRUE, err |-> "none"]
    BY Zenon, <1>3 DEF Loaded
  <2>2. FromDisk(env.boot, d, kept)[n] = [rev |-> d[n], etag |-> None]
    BY Zenon, <1>3 DEF FromDisk
  <2> QED BY <1>3, <2>1, <2>2
<1> QED BY Zenon, <1>1, <1>2, <1>3

\* The goroutines that a process starts with have no answer yet.
LEMMA BootWorkSound ==
  /\ BootWork = [i \in Ids |-> [k \in Kinds |-> BootWork[i][k]]]
  /\ \A i \in Ids : \A k \in Kinds : Sound(BootWork[i][k])
<1>1. \A i \in Ids : BootWork[i] = [k \in Kinds |-> BootWork[i][k]]
  BY Zenon, NewWorkSound DEF BootWork
<1>2. \A i \in Ids : \A k \in Kinds : Sound(BootWork[i][k])
  BY Zenon, NewWorkSound DEF BootWork
<1>3. BootWork = [i \in Ids |-> BootWork[i]]
  BY Zenon DEF BootWork
<1> QED BY Zenon, <1>1, <1>2, <1>3

\* The invariant holds when a process starts for the first time, with nothing on disk.
LEMMA InitEstablishes == Init => IInv
<1> SUFFICES ASSUME Init PROVE IInv
  BY Zenon
<1>1. env \in Deployments /\ DOMAIN env.boot \subseteq Names
  BY DeploymentsValid DEF Init, Deployment, Partial
<1>2. /\ DOMAIN status = DOMAIN env.boot /\ status = [n \in DOMAIN status |-> status[n]]
      /\ \A n \in DOMAIN status : status[n] = Loaded(env.boot, disk, n)
  BY Zenon DEF Init, BootStatus
<1>3. \A n \in DOMAIN status : ~status[n].activated
  <2> TAKE n \in DOMAIN status
  <2>1. disk[n] = None
    BY Zenon, <1>1, <1>2 DEF Init
  <2>2. status[n] = NewStatus
    BY <1>2, <2>1, Zenon DEF Loaded
  <2> QED BY <2>2 DEF NewStatus
<1>4. ready \in BOOLEAN /\ (ready => \A n \in DOMAIN status : status[n].activated)
  BY Zenon DEF Init, BootReady, AllActivated
<1>5. Shapes
  <2>1. \A n \in DOMAIN status :
          /\ status[n] = [rev |-> status[n].rev, activated |-> status[n].activated,
                          err |-> status[n].err]
          /\ status[n].activated \in BOOLEAN
    BY <1>1, <1>2, LoadedStores
  <2>2. store = [n \in Names |-> store[n]]
    BY Zenon DEF Init
  <2>3. stopped \in BOOLEAN /\ reconf = Nobody
    BY Zenon DEF Init
  <2> QED BY Zenon, <1>1, <1>2, <1>4, <2>1, <2>2, <2>3 DEF Shapes, Nobody
<1>6. Books
  BY Zenon, <1>1, <1>2 DEF Init, Books, Nobody
<1>7. Delivered
  BY Zenon, BootWorkSound DEF Init, Delivered
<1>8. ActiveStored
  BY Zenon, <1>3, <1>4 DEF ActiveStored
<1> QED BY Zenon, <1>5, <1>6, <1>7, <1>8 DEF IInv

\* A process that starts after a crash activates what it finds on disk, and no more.
LEMMA DiesKeeps ==
  ASSUME IInv, NEW s, Dies(s)
  PROVE  IInv'
<1> DEFINE kept == IF env.durable THEN s ELSE [n \in Names |-> Empty]
<1>1. /\ env \in Deployments /\ DOMAIN env.boot \subseteq Names
  BY DeploymentsValid DEF IInv, Shapes, Deployment, Partial
<1>2. /\ status' = [n \in DOMAIN env.boot |-> Loaded(env.boot, disk, n)]
      /\ store' = FromDisk(env.boot, disk, kept)
      /\ DOMAIN downloaders' = DOMAIN env.boot
      /\ config' = env.boot /\ stopped' = FALSE /\ reconf' = Nobody /\ env' = env
      /\ work' = BootWork /\ ready' = BootReady(disk)
  BY Zenon DEF Dies, BootStatus
<1> HIDE DEF kept
<1>3. /\ DOMAIN status' = DOMAIN env.boot /\ status' = [n \in DOMAIN status' |-> status'[n]]
      /\ \A n \in DOMAIN status' : status'[n] = Loaded(env.boot, disk, n)
  BY Zenon, <1>2
<1>4. ready' \in BOOLEAN /\ (ready' => \A n \in DOMAIN status' : status'[n].activated)
  BY <1>2, <1>3, Zenon DEF BootReady, AllActivated, BootStatus
<1>5. \A n \in DOMAIN status' :
        /\ status'[n] = [rev |-> status'[n].rev, activated |-> status'[n].activated,
                         err |-> status'[n].err]
        /\ status'[n].activated \in BOOLEAN
        /\ status'[n].activated => store'[n].rev # None
  BY Zenon, <1>1, <1>2, <1>3, LoadedStores
<1>6. Shapes'
  <2>1. store' = [n \in Names |-> store'[n]]
    BY Zenon, <1>2 DEF FromDisk
  <2> QED BY <1>1, <1>2, <1>3, <1>4, <1>5, <2>1, Zenon DEF Shapes, Nobody
<1>7. Books'
  BY Zenon, <1>1, <1>2, <1>3 DEF Books, Nobody
<1>8. Delivered'
  BY Zenon, <1>2, BootWorkSound DEF Delivered, Sound
<1>9. ActiveStored'
  BY Zenon, <1>4, <1>5 DEF ActiveStored
<1> QED BY Zenon, <1>6, <1>7, <1>8, <1>9 DEF IInv

\* Every step of the plugin keeps the invariant.
THEOREM Inductive == Spec => []IInv
<1>1. Init => IInv
  BY Zenon, InitEstablishes
<1>2. IInv /\ [Next]_vars => IInv'
  <2> SUFFICES ASSUME IInv, [Next]_vars PROVE IInv'
    BY Zenon
  <2>1. CASE Next
    BY Zenon, <2>1, TriggerKeeps, DownloadKeeps, ProcessKeeps, StoppingKeeps, ReconfigureCalledKeeps,
       ReconfigureAppliesKeeps, DiesKeeps DEF Next, Crash, CrashUnsaved
  <2>2. CASE UNCHANGED vars
    <3>1. Delivered'
      BY Zenon, <2>2 DEF vars, loaderVars, IInv, Delivered, Sound
    <3> QED BY Zenon, <2>2, <3>1, LoadersKeep DEF vars, pluginVars
  <2> QED BY Zenon, <2>1, <2>2
<1> QED BY <1>1, <1>2, PTL DEF Spec

\* While the plugin reports itself ready and has not been stopped, each of its bundles is
\* in the store (checkPluginReadiness, readyNow and Reconfigure).
THEOREM ReadyPluginsAreActive == Spec => []ReadyMeansActive
<1>1. IInv => ReadyMeansActive
  BY Zenon DEF IInv, ActiveStored, ReadyMeansActive
<1> QED BY <1>1, Inductive, PTL

-----------------------------------------------------------------------------

Configs(e) == {e.boot} \cup e.configs

\* Bundle n is downloaded by the loops of its loaders and by nobody else: it is not
\* triggered, and no configuration reads it from a file.
OnlyPolled(n) ==
    /\ n \notin Triggered
    /\ \A e \in Deployments : \A c \in Configs(e) : n \in DOMAIN c => c[n].mode # "file"

LoadersOf(n) == {i \in Ids : i[1] = n}

\* ETag b is none that a service has yet to offer; service s offers it no more.
NotAhead(b) == \A s \in Services : \A v \in Nat : v > latest[s] => b # [svc |-> s, v |-> v]
Passed(b, s) == \A v \in Nat : v >= latest[s] => b # [svc |-> s, v |-> v]

\* More shapes, and what the two halves of Reconfigure agree on.
LoaderShapes ==
    /\ loaders = [i \in Ids |-> loaders[i]]
    /\ \A i \in Ids : loaders[i] = [src |-> loaders[i].src, etag |-> loaders[i].etag,
                                    run |-> loaders[i].run]

Surroundings ==
    /\ latest \in [Services -> Nat]
    /\ config \in Configs(env)
    /\ ~stopped => reconf.new \cap DOMAIN status = {}
    /\ stopped => DOMAIN downloaders = {}
    /\ stopper = [pc |-> stopper.pc, wait |-> stopper.wait, at |-> stopper.at, new |-> stopper.new,
                  updated |-> stopper.updated, deleted |-> stopper.deleted]
    /\ stopper.pc # "idle" => stopped
    /\ stopper.pc = "returned" => stopper.wait = {} /\ stopper.at = NoLoader

\* Loader i only works in its loop, and a loader that is stopped does not work.
Works(i) ==
    /\ loaders[i].src.mode # "file"
    /\ loaders[i].run # "stopped" =>
          loaders[i].src.svc \in Services /\ NotAhead(loaders[i].etag)
    /\ loaders[i].run = "stopped" => work[i]["loop"].pc = "idle"
    /\ work[i]["loop"].pc \in {"idle", "sent", "got"}
    /\ work[i]["loop"].pc = "got" => NotAhead(work[i]["loop"].ans.etag)
    /\ \A k \in Kinds \ {"loop"} : work[i][k].pc = "idle"

\* The loader is the current one of its bundle, or Stop has yet to stop it.
Active(i) ==
    \/ i[1] \in DOMAIN downloaders /\ i = Current(i[1])
    \/ stopped /\ i \in stopper.wait
    \/ stopped /\ i = stopper.at

\* Of the loaders that bundle n has had, all others are stopped.
OneLoop(n) ==
    \A i \in LoadersOf(n) : Works(i) /\ (loaders[i].run = "stopped" \/ Active(i))

\* Reconfigure has a number for the loader that replaces the current one, and waits
\* until the current one is stopped.
Replaced(n) ==
    /\ created[n] \in Nat
    /\ n \in DOMAIN downloaders => downloaders[n] \in 1..created[n] /\ created[n] <= MaxLoaders
    /\ n \in reconf.new \cup reconf.updated => created[n] < MaxLoaders
    /\ n \in DOMAIN downloaders /\ n \in reconf.updated \cup reconf.deleted =>
         \/ Current(n) \in reconf.wait
         \/ Current(n) = reconf.at
         \/ loaders[Current(n)].run = "stopped"

\* Loader and goroutine L and w of bundle n agree with the plugin's books: an answer 304
\* confirms the bundle in the store, and where the books and the store differ the status
\* shows an error and the service no longer offers what the books say.
Agree(n, L, w) ==
    /\ L.src.svc \in Services
    /\ n \in DOMAIN etags
    /\ NotAhead(etags[n])
    /\ w.pc # "got" => L.etag = etags[n]
    /\ w.pc = "sent" => w.sent = etags[n]
    /\ w.pc = "got" =>
         /\ L.etag = w.ans.etag
         /\ w.ans.type = "same" => w.ans.etag = etags[n] /\ store[n].etag = etags[n]
         /\ w.ans.type \in Updates => Passed(etags[n], L.src.svc)
    /\ \/ store[n].etag = etags[n]
       \/ status[n].err # "none" /\ Passed(etags[n], L.src.svc)

Matches(n) ==
    /\ NotAhead(store[n].etag)
    /\ n \in DOMAIN downloaders => Agree(n, loaders[Current(n)], work[Current(n)]["loop"])

EInv(n) == LoaderShapes /\ Surroundings /\ OneLoop(n) /\ Replaced(n) /\ Matches(n)

-----------------------------------------------------------------------------
\* A step that sets one loader leaves the others alone.
LEMMA SetLoader ==
  ASSUME LoaderShapes, NEW i \in Ids, NEW L, L = [src |-> L.src, etag |-> L.etag, run |-> L.run],
         loaders' = [loaders EXCEPT ![i] = L]
  PROVE  /\ LoaderShapes'
         /\ loaders'[i] = L
         /\ \A j \in Ids : j # i => loaders'[j] = loaders[j]
  BY Zenon DEF LoaderShapes

\* What the loader of another bundle does is no concern of bundle n.
LEMMA OtherBundle ==
  ASSUME NEW n \in Names, EInv(n), LoaderShapes', Surroundings',
         \A i \in LoadersOf(n) : loaders'[i] = loaders[i] /\ work'[i] = work[i],
         UNCHANGED <<latest, downloaders, stopped, stopper, reconf, created>>,
         store'[n] = store[n], n \in DOMAIN downloaders => status'[n] = status[n],
         n \in DOMAIN etags => n \in DOMAIN etags' /\ etags'[n] = etags[n],
         n \in DOMAIN downloaders => Current(n) \in Ids
  PROVE  EInv(n)'
<1>1. OneLoop(n)'
  BY DEF EInv, OneLoop, LoadersOf, Works, Active, Current, NotAhead
<1>2. n \in DOMAIN downloaders => Current(n) \in LoadersOf(n)
  BY Zenon DEF LoadersOf, Current
<1>3. Replaced(n)'
  BY Zenon, <1>2 DEF EInv, Replaced, Current
<1>4. Matches(n)'
  BY <1>2 DEF EInv, Matches, Current, Agree, NotAhead, Passed
<1> QED BY Zenon, <1>1, <1>3, <1>4 DEF EInv

\* Nothing changes for a loader when neither it nor the services change.
LEMMA SameWorks ==
  ASSUME UNCHANGED <<latest, loaders, work>>, NEW i, Works(i)
  PROVE  Works(i)'
  BY Zenon DEF Works, NotAhead

\* The current loader is one of those that the bundle can have.
LEMMA CurrentLoader ==
  ASSUME NEW n \in Names, EInv(n), n \in DOMAIN downloaders
  PROVE  Current(n) \in LoadersOf(n)
<1>1. downloaders[n] \in 1..MaxLoaders
  BY LoadersValid DEF EInv, Replaced
<1> QED BY Zenon, <1>1 DEF Current, LoadersOf, Ids

\* While the plugin has a loader for n no other loader of n works or runs.
LEMMA OnlyCurrentWorks ==
  ASSUME NEW n \in Names, EInv(n), n \in DOMAIN downloaders, NEW i \in LoadersOf(n),
         loaders[i].run # "stopped" \/ work[i]["loop"].pc # "idle"
  PROVE  i = Current(n)
  BY Zenon DEF EInv, OneLoop, Works, Active, LoadersOf, Surroundings

\* A step of a goroutine of loader i changes no other.
LEMMA SetsWork ==
  ASSUME Delivered, NEW i \in Ids, NEW k \in Kinds, NEW w, work' = [work EXCEPT ![i][k] = w]
  PROVE  /\ work'[i][k] = w
         /\ \A l \in Kinds : l # k => work'[i][l] = work[i][l]
         /\ \A j \in Ids : j # i => work'[j] = work[j]
<1>1. work' = [j \in Ids |-> [l \in Kinds |-> IF j = i /\ l = k THEN w ELSE work[j][l]]]
  BY Zenon DEF Delivered
<1>2. \A j \in Ids : work[j] = [l \in Kinds |-> work[j][l]]
  BY Zenon DEF Delivered
<1>3. ASSUME NEW j \in Ids, j # i
      PROVE  work'[j] = work[j]
  BY Zenon, <1>1, <1>2, <1>3
<1> QED BY <1>1, <1>3

\* An answer has arrived: the goroutine has it, and the loader its ETag.
LEMMA FetchedSets ==
  ASSUME Delivered, LoaderShapes, NEW i \in Ids, NEW k \in Kinds, NEW ans, Fetched(i, k, ans)
  PROVE  /\ work'[i][k] = [pc |-> "got", sent |-> work[i][k].sent, ans |-> ans]
         /\ \A l \in Kinds : l # k => work'[i][l] = work[i][l]
         /\ \A j \in Ids : j # i => work'[j] = work[j]
         /\ LoaderShapes'
         /\ loaders'[i] = [src |-> loaders[i].src, etag |-> ans.etag, run |-> loaders[i].run]
         /\ \A j \in Ids : j # i => loaders'[j] = loaders[j]
<1> DEFINE w == [pc |-> "got", sent |-> work[i][k].sent, ans |-> ans]
           first == [work EXCEPT ![i][k].pc = "got"]
           once == [pc |-> "got", sent |-> work[i][k].sent, ans |-> work[i][k].ans]
<1>0. work[i][k] = [pc |-> work[i][k].pc, sent |-> work[i][k].sent, ans |-> work[i][k].ans]
  BY Zenon DEF Delivered, Sound
<1>1. first = [work EXCEPT ![i][k] = once]
  <2>1. [work[i][k] EXCEPT !.pc = "got"] = once
    BY <1>0
  <2> QED BY <2>1, Zenon DEF Delivered
<1>2. work' = [work EXCEPT ![i][k] = w]
  <2>1. work' = [first EXCEPT ![i][k].ans = ans]
    BY Zenon DEF Fetched
  <2> HIDE DEF first
  <2>2. first[i][k] = once
    BY Zenon, <1>1 DEF Delivered
  <2>3. [first[i][k] EXCEPT !.ans = ans] = w
    BY <2>2
  <2>4. first = [j \in Ids |-> first[j]] /\ first[i] = [l \in Kinds |-> first[i][l]]
    BY <1>1, Zenon DEF Delivered
  <2>5. work' = [first EXCEPT ![i][k] = w]
    BY <2>1, <2>3, <2>4, Zenon
  <2> HIDE DEF w, once
  <2> QED BY <1>1, <2>5, Zenon DEF Delivered
<1> DEFINE L == [src |-> loaders[i].src, etag |-> ans.etag, run |-> loaders[i].run]
<1>3. L = [src |-> L.src, etag |-> L.etag, run |-> L.run] /\ loaders' = [loaders EXCEPT ![i] = L]
  <2>1. [loaders[i] EXCEPT !.etag = ans.etag] = L
    BY DEF LoaderShapes
  <2>2. L = [src |-> L.src, etag |-> L.etag, run |-> L.run]
    BY Zenon
  <2> HIDE DEF L
  <2> QED BY <2>1, <2>2, Zenon DEF Fetched, LoaderShapes
<1>4. /\ LoaderShapes' /\ loaders'[i] = L
      /\ \A j \in Ids : j # i => loaders'[j] = loaders[j]
  <2> HIDE DEF L
  <2> QED BY <1>3, SetLoader, Zenon
<1> HIDE DEF w
<1>5. /\ work'[i][k] = w
      /\ \A l \in Kinds : l # k => work'[i][l] = work[i][l]
      /\ \A j \in Ids : j # i => work'[j] = work[j]
  BY <1>2, SetsWork, Zenon
<1> QED BY Zenon, <1>4, <1>5 DEF w

\* The loop of loader i takes a step, and the books are kept if it is the current loader.
LEMMA LoopStep ==
  ASSUME NEW n \in Names, EInv(n), LoaderShapes', Surroundings', NEW i \in LoadersOf(n),
         \A j \in LoadersOf(n) : j # i => loaders'[j] = loaders[j] /\ work'[j] = work[j],
         loaders'[i].src = loaders[i].src, loaders'[i].run = loaders[i].run,
         Works(i)', Matches(n)',
         UNCHANGED <<latest, downloaders, stopped, stopper, reconf, created>>
  PROVE  EInv(n)'
<1>1. OneLoop(n)'
  BY DEF EInv, OneLoop, LoadersOf, Works, Active, Current, NotAhead
<1>2. n \in DOMAIN downloaders => Current(n) \in LoadersOf(n)
  BY Zenon, CurrentLoader
<1>3. Replaced(n)'
  BY Zenon, <1>2 DEF EInv, Replaced, Current
<1> QED BY Zenon, <1>1, <1>3 DEF EInv

\* The steps of goroutines leave what surrounds the loaders alone.
LEMMA SameSurroundings ==
  ASSUME Surroundings,
         UNCHANGED <<latest, config, env, stopped, stopper, reconf, downloaders>>,
         DOMAIN status' = DOMAIN status
  PROVE  Surroundings'
  BY Zenon DEF Surroundings

\* What a service offers is not ahead of it; and what it does not offer now but is not
\* ahead of it, it never will again.
LEMMA OfferedNow ==
  ASSUME Surroundings, NEW s \in Services, Latest(s) # None
  PROVE  /\ Latest(s) = [svc |-> s, v |-> latest[s]]
         /\ NotAhead(Latest(s)) /\ NotAhead(None)
         /\ ~Passed(Latest(s), s)
         /\ \A b : NotAhead(b) /\ b # Latest(s) => Passed(b, s)
<1>1. Latest(s) = [svc |-> s, v |-> latest[s]] /\ latest[s] \in Nat
  BY Zenon DEF Latest, Surroundings
<1>2. NotAhead(Latest(s))
  BY <1>1 DEF NotAhead, Surroundings
<1>3. NotAhead(None)
  BY DEF NotAhead, None, Surroundings
<1>4. ~Passed(Latest(s), s)
  BY <1>1 DEF Passed
<1>5. ASSUME NEW b, NotAhead(b), b # Latest(s)
      PROVE  Passed(b, s)
  <2> SUFFICES ASSUME NEW v \in Nat, v >= latest[s] PROVE b # [svc |-> s, v |-> v]
    BY Zenon DEF Passed
  <2>1. CASE v = latest[s]
    BY Zenon, <1>1, <1>5, <2>1
  <2>2. CASE v > latest[s]
    BY Zenon, <1>5, <2>2 DEF NotAhead
  <2> QED BY <1>1, <2>1, <2>2
<1> QED BY Zenon, <1>1, <1>2, <1>3, <1>4, <1>5

\* An answer reaches the loop of loader i of bundle n.
LEMMA AnswerKeeps ==
  ASSUME NEW n \in Names, IInv, EInv(n), NEW i \in LoadersOf(n), NEW ans,
         work[i]["loop"].pc = "sent", Fetched(i, "loop", ans), NotAhead(ans.etag),
         n \in DOMAIN downloaders =>
            /\ ans.type = "same" => ans.etag = etags[n] /\ store[n].etag = etags[n]
            /\ ans.type \in Updates => Passed(etags[n], loaders[i].src.svc)
  PROVE  EInv(n)'
<1>0. i \in Ids /\ "loop" \in Kinds
  BY Zenon DEF LoadersOf, Kinds
<1>1. UNCHANGED <<latest, env, config, status, etags, downloaders, stopped, created, reconf, stopper,
                  store>>
  BY Zenon DEF Fetched, pluginVars
<1>2. /\ work'[i]["loop"] = [pc |-> "got", sent |-> work[i]["loop"].sent, ans |-> ans]
      /\ \A l \in Kinds : l # "loop" => work'[i][l] = work[i][l]
      /\ \A j \in Ids : j # i => work'[j] = work[j]
      /\ LoaderShapes'
      /\ loaders'[i] = [src |-> loaders[i].src, etag |-> ans.etag, run |-> loaders[i].run]
      /\ \A j \in Ids : j # i => loaders'[j] = loaders[j]
  BY Zenon, <1>0, FetchedSets DEF IInv, EInv
<1>3. Works(i)'
  BY SMTT(60), <1>1, <1>2 DEF EInv, OneLoop, Works, NotAhead
<1>4. Surroundings'
  BY Zenon, <1>1, SameSurroundings DEF EInv
<1>5. Matches(n)'
  <2>1. n \in DOMAIN downloaders => i = Current(n)
    BY Zenon, OnlyCurrentWorks
  <2>2. NotAhead(store[n].etag)'
    BY Zenon, <1>1 DEF EInv, Matches, NotAhead
  <2>3. ASSUME n \in DOMAIN downloaders
        PROVE  Agree(n, loaders[Current(n)], work[Current(n)]["loop"])'
    <3>1. Agree(n, loaders[i], work[i]["loop"]) /\ Current(n)' = i
      BY Zenon, <1>1, <2>1, <2>3 DEF EInv, Matches, Current
    <3>2. loaders'[i].src = loaders[i].src /\ loaders'[i].etag = ans.etag
      BY <1>2
    <3>3. work'[i]["loop"].pc = "got" /\ work'[i]["loop"].ans = ans
      BY <1>2
    <3> QED BY Zenon, <1>1, <2>3, <3>1, <3>2, <3>3 DEF Agree, NotAhead, Passed
  <2> QED BY Zenon, <1>1, <2>2, <2>3 DEF Matches
<1> QED BY <1>1, <1>2, <1>3, <1>4, <1>5, LoopStep DEF LoadersOf

\* A loader asks, and is answered or not.
LEMMA DownloadMatches ==
  ASSUME NEW n \in Names, IInv, EInv(n), NEW i \in Ids, NEW k \in Kinds,
         Request(i, k) \/ FetchFails(i, k) \/ Fetch(i, k)
  PROVE  EInv(n)'
<1>0. UNCHANGED <<latest, env, config, status, etags, downloaders, stopped, created, reconf, stopper,
                  store>>
  BY Zenon DEF Request, FetchFails, Fetch, Fetched, pluginVars
<1>1. Surroundings'
  BY Zenon, <1>0, SameSurroundings DEF EInv
<1>2. CASE Request(i, k)
  <2> DEFINE w == [pc |-> "sent", sent |-> loaders[i].etag, ans |-> None]
  <2>1. loaders' = loaders /\ work' = [work EXCEPT ![i][k] = w]
    BY Zenon, <1>2 DEF Request
  <2> HIDE DEF w
  <2>2. /\ work'[i][k] = w
        /\ \A l \in Kinds : l # k => work'[i][l] = work[i][l]
        /\ \A j \in Ids : j # i => work'[j] = work[j]
    BY <2>1, SetsWork, Zenon DEF IInv
  <2>3. LoaderShapes'
    BY Zenon, <2>1 DEF EInv, LoaderShapes
  <2>4. CASE i[1] # n
    BY Zenon, <1>0, <1>1, <2>1, <2>2, <2>3, <2>4, OtherBundle, CurrentLoader DEF LoadersOf
  <2>5. CASE i[1] = n
    <3>0. i \in LoadersOf(n)
      BY Zenon, <2>5 DEF LoadersOf
    <3>1. k = "loop" /\ loaders[i].run = "running" /\ work[i]["loop"].pc = "idle"
      BY Zenon, <1>2, <3>0 DEF Request, EInv, OneLoop, Works
    <3>2. work'[i]["loop"].pc = "sent" /\ work'[i]["loop"].sent = loaders[i].etag
      BY <2>2, <3>1 DEF w
    <3>3. Works(i)'
      <4>1. NotAhead(loaders[i].etag)'
        BY Zenon, <1>0, <2>1, <3>0, <3>1 DEF EInv, OneLoop, Works, NotAhead
      <4> QED BY SMTT(60), <1>0, <2>1, <2>2, <3>0, <3>1, <3>2, <4>1 DEF EInv, OneLoop, Works
    <3>4. Matches(n)'
      <4>1. NotAhead(store[n].etag)'
        BY Zenon, <1>0 DEF EInv, Matches, NotAhead
      <4>2. ASSUME n \in DOMAIN downloaders
            PROVE  Agree(n, loaders[Current(n)], work[Current(n)]["loop"])'
        <5>1. Agree(n, loaders[i], work[i]["loop"]) /\ Current(n)' = i
          BY Zenon, <1>0, <3>0, <3>1, <4>2, OnlyCurrentWorks DEF EInv, Matches, Current
        <5> QED BY Zenon, <1>0, <2>1, <3>1, <3>2, <5>1 DEF Agree, NotAhead, Passed
      <4> QED BY Zenon, <1>0, <4>1, <4>2 DEF Matches
    <3> QED BY Zenon, <1>0, <1>1, <2>1, <2>2, <2>3, <3>0, <3>3, <3>4, LoopStep DEF LoadersOf
  <2> QED BY Zenon, <2>4, <2>5
<1>3. ASSUME NEW ans, Fetched(i, k, ans), work[i][k].pc = "sent",
             i[1] = n => NotAhead(ans.etag),
             i[1] = n /\ n \in DOMAIN downloaders =>
                /\ ans.type = "same" => ans.etag = etags[n] /\ store[n].etag = etags[n]
                /\ ans.type \in Updates => Passed(etags[n], loaders[i].src.svc)
      PROVE  EInv(n)'
  <2>1. CASE i[1] # n
    <3>1. /\ \A j \in Ids : j # i => work'[j] = work[j]
          /\ LoaderShapes'
          /\ \A j \in Ids : j # i => loaders'[j] = loaders[j]
      BY <1>3, FetchedSets, ZenonT(60) DEF IInv, EInv
    <3> QED BY Zenon, <1>0, <1>1, <2>1, <3>1, OtherBundle, CurrentLoader DEF LoadersOf
  <2>2. CASE i[1] = n
    <3>1. i \in LoadersOf(n)
      BY Zenon, <2>2 DEF LoadersOf
    <3>2. k = "loop"
      BY Zenon, <1>3, <3>1 DEF EInv, OneLoop, Works
    <3> QED BY Zenon, <1>3, <2>2, <3>1, <3>2, AnswerKeeps
  <2> QED BY Zenon, <2>1, <2>2
<1>4. CASE FetchFails(i, k)
  <2> DEFINE ans == [type |-> "error", b |-> None, base |-> None, etag |-> None]
  <2>1. NotAhead(None)
    BY DEF NotAhead, None, EInv, Surroundings
  <2>2. Fetched(i, k, ans) /\ work[i][k].pc = "sent"
    BY Zenon, <1>4 DEF FetchFails
  <2>3. ans.etag = None /\ ans.type = "error"
    BY Zenon
  <2> HIDE DEF ans
  <2> QED BY Zenon, <1>3, <2>1, <2>2, <2>3 DEF Updates
<1>5. CASE Fetch(i, k)
  <2> DEFINE b == Latest(loaders[i].src.svc)
             e == IF loaders[i].src.mode = "file" THEN None ELSE b
  <2>1. work[i][k].pc = "sent" /\ b # None
    BY Zenon, <1>5 DEF Fetch
  <2>2. ASSUME i[1] = n
        PROVE  /\ NotAhead(e) /\ e = b /\ NotAhead(loaders[i].etag)
               /\ n \in DOMAIN downloaders => loaders[i].etag = etags[n]
               /\ n \in DOMAIN downloaders => work[i][k].sent = etags[n]
               /\ n \in DOMAIN downloaders /\ work[i][k].sent # b
                    => Passed(etags[n], loaders[i].src.svc)
               /\ n \in DOMAIN downloaders /\ work[i][k].sent = b => store[n].etag = etags[n]
    <3>1. i \in LoadersOf(n)
      BY Zenon, <2>2 DEF LoadersOf
    <3>2. k = "loop" /\ Works(i)
      BY Zenon, <2>1, <3>1 DEF EInv, OneLoop, Works
    <3>3. e = b /\ loaders[i].src.svc \in Services
      BY Zenon, <2>1, <3>2 DEF Works
    <3>4. /\ NotAhead(b) /\ ~Passed(b, loaders[i].src.svc)
          /\ \A x : NotAhead(x) /\ x # b => Passed(x, loaders[i].src.svc)
      BY Zenon, <2>1, <3>3, OfferedNow DEF EInv
    <3>5. n \in DOMAIN downloaders => Agree(n, loaders[i], work[i]["loop"])
      BY Zenon, <2>1, <3>1, <3>2, OnlyCurrentWorks DEF EInv, Matches
    <3> HIDE DEF b, e
    <3>6. NotAhead(loaders[i].etag)
      BY Zenon, <2>1, <3>2 DEF Works
    <3> QED BY Zenon, <2>1, <3>2, <3>3, <3>4, <3>5, <3>6 DEF Agree
  <2>3. ASSUME loaders[i].src.mode # "file", work[i][k].sent = [b EXCEPT !.v = @ - 1], i[1] = n
        PROVE  work[i][k].sent # b
    <3>1. loaders[i].src.svc \in Services
      BY Zenon, <2>1, <2>3 DEF EInv, OneLoop, Works, LoadersOf
    <3>2. b = [svc |-> loaders[i].src.svc, v |-> latest[loaders[i].src.svc]]
          /\ latest[loaders[i].src.svc] \in Nat
      BY Zenon, <2>1, <3>1, OfferedNow DEF EInv, Surroundings
    <3> QED BY <2>3, <3>2
  <2> HIDE DEF b, e
  <2>4. CASE /\ work[i][k].sent # b
             /\ Fetched(i, k, [type |-> "snapshot", b |-> b, base |-> None, etag |-> e])
    BY Zenon, <1>3, <2>1, <2>2, <2>4
  <2>5. CASE /\ loaders[i].src.mode # "file"
             /\ work[i][k].sent = [b EXCEPT !.v = @ - 1]
             /\ Fetched(i, k, [type |-> "delta", b |-> b, base |-> work[i][k].sent, etag |-> e])
    BY Zenon, <1>3, <2>1, <2>2, <2>3, <2>5
  <2>6. ASSUME NEW x \in {e, loaders[i].etag}, work[i][k].sent = b,
               Fetched(i, k, [type |-> "same", b |-> None, base |-> None, etag |-> x])
        PROVE  EInv(n)'
    BY Zenon, <1>3, <2>1, <2>2, <2>6 DEF Updates
  <2> QED BY Zenon, <1>5, <2>4, <2>5, <2>6 DEF Fetch, b, e
<1> QED BY Zenon, <1>2, <1>4, <1>5

\* Nobody triggers n.
LEMMA TriggerMatches ==
  ASSUME NEW n \in Names, OnlyPolled(n), IInv, EInv(n), NEW m \in Names, NEW c \in env.callers,
         Trigger(m, c)
  PROVE  EInv(n)'
<1>1. m # n /\ m \in DOMAIN downloaders
  BY Zenon DEF Trigger, OnlyPolled
<1>2. work' = [work EXCEPT ![Current(m)][c].pc = "called"]
  BY Zenon DEF Trigger
<1>3. UNCHANGED <<latest, env, config, status, etags, downloaders, stopped, created, reconf, stopper,
                  store, loaders>>
  BY Zenon DEF Trigger, pluginVars
<1>4. \A i \in LoadersOf(n) : i # Current(m) /\ i \in Ids
  BY <1>1 DEF LoadersOf, Current
<1>5. \A i \in LoadersOf(n) : work'[i] = work[i]
  BY Zenon, <1>2, <1>4 DEF IInv, Delivered
<1>6. LoaderShapes' /\ Surroundings'
  BY Zenon, <1>3, SameSurroundings DEF EInv, LoaderShapes
<1> QED BY Zenon, <1>3, <1>5, <1>6, OtherBundle, CurrentLoader DEF LoadersOf

-----------------------------------------------------------------------------
\* The error is set, and the current loader gets back the ETag of the books.
LEMMA FailSets ==
  ASSUME IInv, LoaderShapes, NEW i \in Ids, NEW k \in Kinds, NEW err, i[1] \in DOMAIN status,
         Fail(i, k, err)
  PROVE  /\ LoaderShapes'
         /\ \A j \in Ids : j # Current(i[1]) => loaders'[j] = loaders[j]
         /\ \A j \in Ids : loaders'[j].src = loaders[j].src /\ loaders'[j].run = loaders[j].run
         /\ ~stopped /\ i = Current(i[1]) /\ loaders[i].src.mode # "file"
              => loaders'[i].etag = etags[i[1]]
         /\ stopped => loaders' = loaders
         /\ DOMAIN status' = DOMAIN status
         /\ status'[i[1]].err = err
         /\ \A m \in DOMAIN status : m # i[1] => status'[m] = status[m]
<1> DEFINE c == Current(i[1])
           new == [src |-> loaders[c].src, etag |-> etags[i[1]], run |-> loaders[c].run]
<1>1. /\ DOMAIN status' = DOMAIN status
      /\ status'[i[1]].err = err
      /\ \A m \in DOMAIN status : m # i[1] => status'[m] = status[m]
  <2>1. status' = [status EXCEPT ![i[1]].err = err]
    BY Zenon DEF Fail
  <2>2. status'[i[1]] = [status[i[1]] EXCEPT !.err = err]
    BY Zenon, <2>1 DEF IInv, Shapes
  <2>3. status[i[1]] = [rev |-> status[i[1]].rev, activated |-> status[i[1]].activated,
                        err |-> status[i[1]].err]
    BY Zenon DEF IInv, Shapes
  <2>4. status'[i[1]].err = err
    BY Zenon, <2>2, <2>3
  <2> QED BY Zenon, <2>1, <2>4 DEF IInv, Shapes
<1>2. CASE loaders' = loaders /\ (stopped \/ loaders[c].src.mode = "file")
  BY Zenon, <1>1, <1>2 DEF LoaderShapes
<1>3. CASE ~stopped /\ loaders' = [loaders EXCEPT ![c].etag = etags[i[1]]]
  <2>1. CASE c \in Ids
    <3>1. loaders' = [loaders EXCEPT ![c] = new]
      <4>1. [loaders[c] EXCEPT !.etag = etags[i[1]]] = new
        BY <2>1 DEF LoaderShapes
      <4> HIDE DEF new, c
      <4> QED BY <1>3, <2>1, <4>1, Zenon DEF LoaderShapes
    <3>2. /\ LoaderShapes' /\ loaders'[c] = new
          /\ \A j \in Ids : j # c => loaders'[j] = loaders[j]
      <4>1. new = [src |-> new.src, etag |-> new.etag, run |-> new.run]
        BY Zenon
      <4> HIDE DEF c, new
      <4> QED BY <2>1, <3>1, <4>1, SetLoader, ZenonT(60)
    <3> HIDE DEF c
    <3>3. loaders'[c].src = loaders[c].src /\ loaders'[c].run = loaders[c].run
          /\ loaders'[c].etag = etags[i[1]]
      BY <3>2
    <3>4. \A j \in Ids : loaders'[j].src = loaders[j].src /\ loaders'[j].run = loaders[j].run
      BY <3>2, <3>3, Zenon
    <3> HIDE DEF new
    <3> QED BY Zenon, <1>1, <1>3, <3>2, <3>3, <3>4 DEF c
  <2>2. CASE c \notin Ids
    <3>1. loaders' = loaders
      BY Zenon, <1>3, <2>2 DEF LoaderShapes
    <3> QED BY Zenon, <1>1, <1>3, <2>2, <3>1 DEF LoaderShapes
  <2> QED BY Zenon, <2>1, <2>2
<1> QED BY Zenon, <1>2, <1>3 DEF Fail

\* A goroutine of a loader that reads no file is free again after its callback.
LEMMA DoneSets ==
  ASSUME IInv, NEW i \in Ids, NEW k \in Kinds, Done(i, k)
  PROVE  /\ loaders[i].src.mode # "file" => work'[i][k] = Unborn
         /\ \A l \in Kinds : l # k => work'[i][l] = work[i][l]
         /\ \A j \in Ids : j # i => work'[j] = work[j]
<1>1. PICK w : /\ work' = [work EXCEPT ![i][k] = w]
               /\ loaders[i].src.mode # "file" => w = Unborn
  BY Zenon DEF Done
<1>2. /\ work'[i][k] = w
      /\ \A l \in Kinds : l # k => work'[i][l] = work[i][l]
      /\ \A j \in Ids : j # i => work'[j] = work[j]
  BY <1>1, SetsWork, ZenonT(60) DEF IInv
<1> QED BY <1>1, <1>2, Zenon

\* The callback of the loop of loader i of bundle n ends.
LEMMA CallbackEnds ==
  ASSUME NEW n \in Names, IInv, EInv(n), NEW i \in LoadersOf(n), work[i]["loop"].pc = "got",
         Done(i, "loop"), LoaderShapes', Surroundings',
         \A j \in LoadersOf(n) : j # i => loaders'[j] = loaders[j],
         loaders'[i].src = loaders[i].src, loaders'[i].run = loaders[i].run,
         UNCHANGED <<latest, downloaders, stopped, stopper, reconf, created>>,
         NotAhead(store'[n].etag), NotAhead(loaders'[i].etag),
         n \in DOMAIN downloaders =>
            /\ n \in DOMAIN etags' /\ NotAhead(etags'[n])
            /\ loaders'[i].etag = etags'[n]
            /\ \/ store'[n].etag = etags'[n]
               \/ status'[n].err # "none" /\ Passed(etags'[n], loaders[i].src.svc)
  PROVE  EInv(n)'
<1>0. i \in Ids /\ "loop" \in Kinds
  BY Zenon DEF LoadersOf, Kinds
<1>1. loaders[i].src.mode # "file"
  BY Zenon DEF EInv, OneLoop, Works
<1>2. /\ work'[i]["loop"] = Unborn
      /\ \A l \in Kinds : l # "loop" => work'[i][l] = work[i][l]
      /\ \A j \in Ids : j # i => work'[j] = work[j]
  BY Zenon, <1>0, <1>1, DoneSets
<1>3. work'[i]["loop"].pc = "idle"
  BY SMTT(60), <1>2 DEF Unborn
<1>4. Works(i)'
  <2>1. NotAhead(loaders[i].etag)'
    BY Zenon DEF NotAhead
  <2> QED BY SMTT(60), <1>2, <1>3, <2>1 DEF EInv, OneLoop, Works
<1>5. Matches(n)'
  <2>1. NotAhead(store[n].etag)'
    BY Zenon DEF NotAhead
  <2>2. ASSUME n \in DOMAIN downloaders
        PROVE  Agree(n, loaders[Current(n)], work[Current(n)]["loop"])'
    <3>1. Current(n)' = i /\ loaders[i].src.svc \in Services
      BY Zenon, <2>2, OnlyCurrentWorks DEF Current, EInv, Matches, Agree
    <3>2. NotAhead(etags[n])'
      BY Zenon, <2>2 DEF NotAhead
    <3> QED BY Zenon, <1>3, <2>2, <3>1, <3>2 DEF Agree, Passed
  <2> QED BY Zenon, <2>1, <2>2 DEF Matches
<1> QED BY Zenon, <1>0, <1>2, <1>4, <1>5, LoopStep DEF LoadersOf

\* An activation stores the ETag of the answer.
LEMMA ActivatedEtag ==
  ASSUME IInv, NEW i \in Ids, NEW k \in Kinds
  PROVE  /\ Activated(i, k)[i[1]].etag = work[i][k].ans.etag
         /\ \A m \in Names : m # i[1] => Activated(i, k)[m] = store[m]
<1> DEFINE ans == work[i][k].ans
           rev == IF ans.type = "delta" /\ store[i[1]].rev # ans.base THEN Mixed ELSE ans.b
<1>1. /\ Activated(i, k) = [store EXCEPT ![i[1]] = [rev |-> rev, etag |-> ans.etag]]
      /\ i[1] \in Names
  BY Zenon DEF Activated, Ids
<1> HIDE DEF rev, ans
<1>2. Activated(i, k)[i[1]].etag = ans.etag
  BY <1>1 DEF IInv, Shapes
<1> QED BY Zenon, <1>1, <1>2 DEF IInv, Shapes, ans

\* A callback for another bundle.
LEMMA OtherCallback ==
  ASSUME NEW n \in Names, IInv, EInv(n), NEW i \in Ids, NEW k \in Kinds, i[1] # n, Process(i, k)
  PROVE  EInv(n)'
<1>0. Done(i, k) /\ UNCHANGED <<latest, env, config, downloaders, stopped, created, reconf, stopper>>
  BY Zenon DEF Process, ProcessPanics, ProcessError, ActivationFails, PersistFails, ProcessActivated,
              ProcessNotModified, Fail, pluginVars
<1>1. \A j \in LoadersOf(n) : work'[j] = work[j]
  BY Zenon, <1>0, DoneSets DEF LoadersOf
<1>2. n \in DOMAIN downloaders => n \in DOMAIN status
  BY Zenon DEF IInv, Books, EInv, Surroundings
<1>3. ASSUME LoaderShapes', \A j \in LoadersOf(n) : loaders'[j] = loaders[j],
             DOMAIN status' = DOMAIN status, n \in DOMAIN status => status'[n] = status[n],
             store'[n] = store[n], n \in DOMAIN etags => n \in DOMAIN etags' /\ etags'[n] = etags[n]
      PROVE  EInv(n)'
  <2>1. Surroundings'
    BY Zenon, <1>0, <1>3, SameSurroundings DEF EInv
  <2> QED BY Zenon, <1>0, <1>1, <1>2, <1>3, <2>1, OtherBundle, CurrentLoader DEF LoadersOf
<1>4. loaders' = loaders => LoaderShapes' /\ \A j \in LoadersOf(n) : loaders'[j] = loaders[j]
  BY Zenon DEF EInv, LoaderShapes
<1>5. CASE ProcessPanics(i, k)
  BY ZenonT(60), <1>3, <1>4, <1>5 DEF ProcessPanics, pluginVars
<1>6. CASE ProcessActivated(i, k)
  <2>1. /\ DOMAIN status' = DOMAIN status /\ (n \in DOMAIN status => status'[n] = status[n])
        /\ n \in DOMAIN etags => n \in DOMAIN etags' /\ etags'[n] = etags[n]
        /\ loaders' = loaders
    BY Zenon, <1>6 DEF ProcessActivated, IInv, Shapes
  <2>2. store'[n] = store[n]
    BY Zenon, <1>6, ActivatedEtag DEF ProcessActivated
  <2> QED BY Zenon, <1>3, <1>4, <2>1, <2>2
<1>7. CASE ProcessNotModified(i, k)
  <2>1. /\ DOMAIN status' = DOMAIN status /\ (n \in DOMAIN status => status'[n] = status[n])
        /\ UNCHANGED <<etags, store, loaders>>
    BY Zenon, <1>7 DEF ProcessNotModified, IInv, Shapes
  <2> QED BY Zenon, <1>3, <1>4, <2>1
<1>8. ASSUME NEW err, Fail(i, k, err), i[1] \in DOMAIN status, store'[n] = store[n]
      PROVE  EInv(n)'
  <2>1. etags' = etags
    BY Zenon, <1>8 DEF Fail
  <2>2. Current(i[1]) \notin LoadersOf(n)
    BY Zenon DEF LoadersOf, Current
  <2>3. /\ LoaderShapes'
        /\ \A j \in Ids : j # Current(i[1]) => loaders'[j] = loaders[j]
        /\ DOMAIN status' = DOMAIN status
        /\ \A m \in DOMAIN status : m # i[1] => status'[m] = status[m]
    BY <1>8, FailSets, Zenon DEF EInv
  <2>4. \A j \in LoadersOf(n) : loaders'[j] = loaders[j]
    BY Zenon, <2>2, <2>3 DEF LoadersOf
  <2> QED BY Zenon, <1>3, <1>8, <2>1, <2>3, <2>4
<1>9. CASE ProcessError(i, k) \/ ActivationFails(i, k)
  BY <1>8, <1>9, Zenon DEF ProcessError, ActivationFails, Called
<1>10. CASE PersistFails(i, k)
  BY <1>8, <1>10, ActivatedEtag, Zenon DEF PersistFails, Activates, Called
<1> QED BY Zenon, <1>5, <1>6, <1>7, <1>9, <1>10 DEF Process

\* A callback for bundle n: whatever its outcome, the loader goes back to the ETag of the
\* books, and these say what is stored or the status shows an error.
LEMMA OwnCallback ==
  ASSUME NEW n \in Names, IInv, EInv(n), NEW i \in Ids, NEW k \in Kinds, i[1] = n, Process(i, k)
  PROVE  EInv(n)'
<1> DEFINE ans == work[i][k].ans
<1>0. Done(i, k) /\ UNCHANGED <<latest, env, config, downloaders, stopped, created, reconf, stopper>>
  BY Zenon DEF Process, ProcessPanics, ProcessError, ActivationFails, PersistFails, ProcessActivated,
              ProcessNotModified, Fail, pluginVars
<1>1. i \in LoadersOf(n) /\ work[i][k].pc = "got"
  BY ZenonT(60) DEF LoadersOf, Process, ProcessPanics, ProcessError, ActivationFails, PersistFails,
              ProcessActivated, ProcessNotModified, Activates, Called
<1>2. /\ k = "loop" /\ loaders[i].src.mode # "file"
      /\ NotAhead(ans.etag) /\ NotAhead(store[n].etag) /\ NotAhead(loaders[i].etag)
  BY Zenon, <1>1 DEF EInv, OneLoop, Works, Matches
<1>3. n \in DOMAIN downloaders =>
        /\ n \in DOMAIN status /\ ~stopped /\ i = Current(n)
        /\ n \in DOMAIN etags /\ NotAhead(etags[n]) /\ loaders[i].etag = ans.etag
        /\ ans.type = "same" => ans.etag = etags[n] /\ store[n].etag = etags[n]
        /\ ans.type \in Updates => Passed(etags[n], loaders[i].src.svc)
        /\ store[n].etag = etags[n] \/ Passed(etags[n], loaders[i].src.svc)
  <2>1. n \in DOMAIN downloaders => i = Current(n)
    BY Zenon, <1>1, <1>2, OnlyCurrentWorks
  <2>2. n \in DOMAIN downloaders => n \in DOMAIN status /\ ~stopped
    BY Zenon DEF IInv, Books, EInv, Surroundings
  <2> QED BY Zenon, <1>1, <1>2, <2>1, <2>2 DEF EInv, Matches, Agree
<1> HIDE DEF ans
<1>4. ASSUME LoaderShapes', DOMAIN status' = DOMAIN status,
             \A j \in LoadersOf(n) : j # i => loaders'[j] = loaders[j],
             loaders'[i].src = loaders[i].src, loaders'[i].run = loaders[i].run,
             NotAhead(store'[n].etag), NotAhead(loaders'[i].etag),
             n \in DOMAIN downloaders =>
                /\ n \in DOMAIN etags' /\ NotAhead(etags'[n])
                /\ loaders'[i].etag = etags'[n]
                /\ \/ store'[n].etag = etags'[n]
                   \/ status'[n].err # "none" /\ Passed(etags'[n], loaders[i].src.svc)
      PROVE  EInv(n)'
  <2>1. Surroundings'
    BY Zenon, <1>0, <1>4, SameSurroundings DEF EInv
  <2> QED BY Zenon, <1>0, <1>1, <1>2, <1>4, <2>1, CallbackEnds
<1>5. ASSUME loaders' = loaders
      PROVE  /\ LoaderShapes' /\ \A j \in LoadersOf(n) : loaders'[j] = loaders[j]
             /\ loaders'[i].src = loaders[i].src /\ loaders'[i].run = loaders[i].run
  BY Zenon, <1>5 DEF EInv, LoaderShapes
<1>6. CASE ProcessPanics(i, k)
  <2>1. n \notin DOMAIN status /\ UNCHANGED <<status, etags, loaders, store>>
    BY Zenon, <1>6 DEF ProcessPanics, pluginVars
  <2> QED BY Zenon, <1>2, <1>3, <1>4, <1>5, <2>1
<1>7. CASE ProcessActivated(i, k)
  <2>1. /\ DOMAIN status' = DOMAIN status /\ loaders' = loaders
        /\ n \in DOMAIN etags' /\ etags'[n] = ans.etag
    BY Zenon, <1>7 DEF ProcessActivated, IInv, Shapes, ans
  <2>2. store'[n].etag = ans.etag
    BY Zenon, <1>7, ActivatedEtag DEF ProcessActivated, ans
  <2> QED BY Zenon, <1>2, <1>3, <1>4, <1>5, <2>1, <2>2
<1>8. CASE ProcessNotModified(i, k)
  <2>1. DOMAIN status' = DOMAIN status /\ UNCHANGED <<etags, store, loaders>> /\ ans.type = "same"
    BY Zenon, <1>8 DEF ProcessNotModified, IInv, Shapes, ans
  <2> QED BY Zenon, <1>2, <1>3, <1>4, <1>5, <2>1
<1>9. ASSUME NEW err, err # "none", Fail(i, k, err), n \in DOMAIN status, NotAhead(store'[n].etag),
             n \in DOMAIN downloaders =>
                store'[n].etag = etags[n] \/ Passed(etags[n], loaders[i].src.svc)
      PROVE  EInv(n)'
  <2>1. etags' = etags
    BY Zenon, <1>9 DEF Fail
  <2>2. n \in DOMAIN downloaders \/ stopped
    BY Zenon, <1>9 DEF IInv, Books
  <2>3. /\ LoaderShapes'
        /\ \A j \in Ids : j # Current(n) => loaders'[j] = loaders[j]
        /\ \A j \in Ids : loaders'[j].src = loaders[j].src /\ loaders'[j].run = loaders[j].run
        /\ ~stopped /\ i = Current(n) /\ loaders[i].src.mode # "file" => loaders'[i].etag = etags[n]
        /\ stopped => loaders' = loaders
        /\ DOMAIN status' = DOMAIN status
        /\ status'[n].err = err
    BY <1>9, FailSets, ZenonT(60) DEF EInv
  <2>4. \A j \in LoadersOf(n) : j # i => loaders'[j] = loaders[j]
    BY Zenon, <1>3, <2>2, <2>3 DEF LoadersOf
  <2>5. n \in DOMAIN downloaders => loaders'[i].etag = etags[n]
    BY Zenon, <1>2, <1>3, <2>3
  <2>6. NotAhead(loaders'[i].etag)
    BY Zenon, <1>2, <1>3, <2>2, <2>3, <2>5
  <2> QED BY Zenon, <1>3, <1>4, <1>9, <2>1, <2>3, <2>4, <2>5, <2>6
<1>10. CASE ProcessError(i, k) \/ ActivationFails(i, k)
  <2>1. UNCHANGED store /\ n \in DOMAIN status
        /\ (Fail(i, k, "other") \/ Fail(i, k, "ast"))
    BY Zenon, <1>10 DEF ProcessError, ActivationFails, Called
  <2> QED BY Zenon, <1>2, <1>3, <1>9, <2>1
<1>11. CASE PersistFails(i, k)
  <2>1. /\ n \in DOMAIN status /\ Fail(i, k, "other") /\ ans.type \in Updates
        /\ store' = Activated(i, k)
    BY Zenon, <1>11 DEF PersistFails, Activates, Called, Updates, ans
  <2>2. store'[n].etag = ans.etag
    BY Zenon, <2>1, ActivatedEtag DEF ans
  <2> QED BY Zenon, <1>2, <1>3, <1>9, <2>1, <2>2
<1> QED BY Zenon, <1>6, <1>7, <1>8, <1>10, <1>11 DEF Process

-----------------------------------------------------------------------------
\* Loaders are told to stop, or return; whoever waits for them goes on waiting or finds
\* them stopped.
LEMMA StopStep ==
  ASSUME NEW n \in Names, EInv(n), LoaderShapes', Surroundings',
         \A j \in LoadersOf(n) :
            /\ loaders'[j].src = loaders[j].src /\ loaders'[j].etag = loaders[j].etag
            /\ loaders[j].run = "stopped" => loaders'[j].run = "stopped"
            /\ loaders'[j].run = "stopped" =>
                  loaders[j].run = "stopped" \/ work[j]["loop"].pc = "idle"
            /\ j \in stopper.wait \/ j = stopper.at =>
                  j \in stopper'.wait \/ j = stopper'.at \/ loaders'[j].run = "stopped"
            /\ j \in reconf.wait \/ j = reconf.at =>
                  j \in reconf'.wait \/ j = reconf'.at \/ loaders'[j].run = "stopped",
         UNCHANGED <<latest, status, etags, downloaders, stopped, work, created, store>>,
         reconf'.new = reconf.new, reconf'.updated = reconf.updated, reconf'.deleted = reconf.deleted
  PROVE  EInv(n)'
<1>1. OneLoop(n)'
  BY SMTT(60) DEF EInv, OneLoop, LoadersOf, Works, Active, Current, NotAhead
<1>2. n \in DOMAIN downloaders => Current(n) \in LoadersOf(n)
  BY Zenon, CurrentLoader
<1>3. Replaced(n)'
  BY Zenon, <1>2 DEF EInv, Replaced, Current
<1>4. Matches(n)'
  <2>1. NotAhead(store[n].etag)'
    BY Zenon DEF EInv, Matches, NotAhead
  <2>2. ASSUME n \in DOMAIN downloaders
        PROVE  Agree(n, loaders[Current(n)], work[Current(n)]["loop"])'
    <3>1. Agree(n, loaders[Current(n)], work[Current(n)]["loop"]) /\ Current(n)' = Current(n)
      BY Zenon, <2>2 DEF EInv, Matches, Current
    <3> QED BY SMTT(60), <1>2, <2>2, <3>1 DEF Agree, NotAhead, Passed
  <2> QED BY Zenon, <2>1, <2>2 DEF Matches
<1> QED BY Zenon, <1>1, <1>3, <1>4 DEF EInv

\* Stop and Reconfigure wait for loaders that exist.
LEMMA NoLoaderIsNone == \A n : NoLoader \notin LoadersOf(n)
<1>1. NoLoader \notin Ids
  BY LoadersValid DEF NoLoader, Ids
<1> QED BY Zenon, <1>1 DEF LoadersOf

\* A loader's run changes and nothing else does in it.
LEMMA SetRun ==
  ASSUME LoaderShapes, NEW i \in Ids, NEW run, loaders' = [loaders EXCEPT ![i].run = run]
  PROVE  /\ LoaderShapes'
         /\ \A j \in Ids : loaders'[j].src = loaders[j].src /\ loaders'[j].etag = loaders[j].etag
         /\ loaders'[i].run = run
         /\ \A j \in Ids : j # i => loaders'[j].run = loaders[j].run
<1> DEFINE L == [src |-> loaders[i].src, etag |-> loaders[i].etag, run |-> run]
<1>1. [loaders[i] EXCEPT !.run = run] = L
  BY DEF LoaderShapes
<1>2. L = [src |-> L.src, etag |-> L.etag, run |-> L.run] /\ L.src = loaders[i].src
      /\ L.etag = loaders[i].etag /\ L.run = run
  BY Zenon
<1> HIDE DEF L
<1>3. loaders' = [loaders EXCEPT ![i] = L]
  BY <1>1, Zenon DEF LoaderShapes
<1>4. /\ LoaderShapes' /\ loaders'[i] = L
      /\ \A j \in Ids : j # i => loaders'[j] = loaders[j]
  BY <1>2, <1>3, SetLoader, ZenonT(60)
<1> QED BY Zenon, <1>2, <1>4

\* Loops return, Stop and Reconfigure go from one loader to the next.
LEMMA StoppingMatches ==
  ASSUME NEW n \in Names, IInv, EInv(n),
         \/ StopperGoesOn
         \/ ReconfigureGoesOn
         \/ \E i \in Ids : LoopReturns(i) \/ StopperStops(i) \/ ReconfigureStops(i)
  PROVE  EInv(n)'
<1>0. UNCHANGED <<latest, env, config, status, etags, downloaders, stopped, work, created, store>>
  BY Zenon DEF StopperGoesOn, ReconfigureGoesOn, LoopReturns, StopperStops, ReconfigureStops,
              pluginVars, loaderVars
<1>1. NoLoader \notin LoadersOf(n)
  BY Zenon, NoLoaderIsNone
<1>2. CASE StopperGoesOn
  <2>1. UNCHANGED <<loaders, reconf>>
    BY Zenon, <1>2 DEF StopperGoesOn, loaderVars
  <2>2. LoaderShapes'
    BY Zenon, <2>1 DEF EInv, LoaderShapes
  <2>3. CASE Stopped(stopper) /\ stopper' = [stopper EXCEPT !.at = NoLoader]
    <3>1. stopper' = [pc |-> stopper.pc, wait |-> stopper.wait, at |-> NoLoader, new |-> stopper.new,
                      updated |-> stopper.updated, deleted |-> stopper.deleted]
      BY <2>3, Zenon DEF EInv, Surroundings
    <3>2. Surroundings'
      BY Zenon, <1>0, <2>1, <3>1 DEF EInv, Surroundings
    <3>3. stopper'.wait = stopper.wait /\ loaders[stopper.at].run = "stopped"
      BY Zenon, <2>3, <3>1 DEF Stopped
    <3> QED BY Zenon, <1>0, <2>1, <2>2, <3>2, <3>3, StopStep
  <2>4. CASE AllStopped(stopper) /\ stopper' = [Nobody EXCEPT !.pc = "returned"]
    <3>1. Surroundings'
      <4>1. stopper' = [pc |-> "returned", wait |-> {}, at |-> NoLoader, new |-> {}, updated |-> {},
                        deleted |-> {}]
        BY Zenon, <2>4 DEF Nobody
      <4>2. stopped
        BY Zenon, <2>4 DEF AllStopped, EInv, Surroundings
      <4> QED BY Zenon, <1>0, <2>1, <4>1, <4>2 DEF EInv, Surroundings
    <3>2. stopper.wait = {} /\ stopper.at = NoLoader
      BY Zenon, <2>4 DEF AllStopped
    <3> QED BY Zenon, <1>0, <1>1, <2>1, <2>2, <3>1, <3>2, StopStep
  <2> QED BY Zenon, <1>2, <2>3, <2>4 DEF StopperGoesOn
<1>3. ASSUME NEW at, NEW wait, reconf' = [reconf EXCEPT !.at = at, !.wait = wait],
             stopper' = stopper
      PROVE  /\ Surroundings' /\ reconf'.at = at /\ reconf'.wait = wait
             /\ reconf'.new = reconf.new /\ reconf'.updated = reconf.updated
             /\ reconf'.deleted = reconf.deleted
  <2>1. reconf' = [pc |-> reconf.pc, wait |-> wait, at |-> at, new |-> reconf.new,
                   updated |-> reconf.updated, deleted |-> reconf.deleted]
    BY <1>3, Zenon DEF IInv, Shapes
  <2> QED BY Zenon, <1>0, <1>3, <2>1 DEF EInv, Surroundings
<1>4. CASE ReconfigureGoesOn
  <2>1. UNCHANGED <<loaders, stopper>> /\ loaders[reconf.at].run = "stopped"
        /\ reconf' = [reconf EXCEPT !.at = NoLoader]
    BY Zenon, <1>4 DEF ReconfigureGoesOn, loaderVars, Stopped
  <2>2. reconf' = [reconf EXCEPT !.at = NoLoader, !.wait = reconf.wait]
    BY <2>1, Zenon DEF IInv, Shapes
  <2>3. /\ Surroundings' /\ reconf'.at = NoLoader /\ reconf'.wait = reconf.wait
        /\ reconf'.new = reconf.new /\ reconf'.updated = reconf.updated
        /\ reconf'.deleted = reconf.deleted
    BY <1>3, <2>1, <2>2, Zenon
  <2>4. LoaderShapes'
    BY Zenon, <2>1 DEF EInv, LoaderShapes
  <2> QED BY Zenon, <1>0, <2>1, <2>3, <2>4, StopStep
<1>5. ASSUME NEW i \in Ids, LoopReturns(i)
      PROVE  EInv(n)'
  <2>1. /\ UNCHANGED <<reconf, stopper>> /\ work[i]["loop"].pc = "idle"
        /\ loaders' = [loaders EXCEPT ![i].run = "stopped"]
    BY Zenon, <1>5 DEF LoopReturns
  <2>2. Surroundings'
    BY Zenon, <1>0, <2>1, SameSurroundings DEF EInv
  <2>3. /\ LoaderShapes'
        /\ \A j \in Ids : loaders'[j].src = loaders[j].src /\ loaders'[j].etag = loaders[j].etag
        /\ loaders'[i].run = "stopped"
        /\ \A j \in Ids : j # i => loaders'[j].run = loaders[j].run
    BY <2>1, SetRun, Zenon DEF EInv
  <2> QED BY Zenon, <1>0, <2>1, <2>2, <2>3, StopStep DEF LoadersOf
<1>6. ASSUME NEW i \in Ids, NEW g, StopNext(g, i)
      PROVE  /\ LoaderShapes' /\ g.at = NoLoader
             /\ \A j \in Ids : loaders'[j].src = loaders[j].src /\ loaders'[j].etag = loaders[j].etag
             /\ \A j \in Ids : loaders'[j].run = "stopped" <=> loaders[j].run = "stopped"
  <2> DEFINE run == IF loaders[i].run = "running" THEN "stopping" ELSE loaders[i].run
  <2>1. loaders' = [loaders EXCEPT ![i].run = run] /\ g.at = NoLoader
    BY <1>6, Zenon DEF StopNext, EInv, LoaderShapes
  <2>2. run = "stopped" <=> loaders[i].run = "stopped"
    BY Zenon
  <2> HIDE DEF run
  <2>3. /\ LoaderShapes'
        /\ \A j \in Ids : loaders'[j].src = loaders[j].src /\ loaders'[j].etag = loaders[j].etag
        /\ loaders'[i].run = run
        /\ \A j \in Ids : j # i => loaders'[j].run = loaders[j].run
    BY <2>1, SetRun, ZenonT(60) DEF EInv
  <2> QED BY Zenon, <2>1, <2>2, <2>3
<1>7. ASSUME NEW i \in Ids, StopperStops(i)
      PROVE  EInv(n)'
  <2>1. StopNext(stopper, i) /\ UNCHANGED reconf
    BY <1>7, Zenon DEF StopperStops
  <2>2. stopper' = [pc |-> stopper.pc, wait |-> stopper.wait \ {i}, at |-> i, new |-> stopper.new,
                    updated |-> stopper.updated, deleted |-> stopper.deleted]
    BY <1>7, Zenon DEF StopperStops, EInv, Surroundings
  <2>3. Surroundings'
    BY Zenon, <1>0, <2>1, <2>2 DEF StopNext, EInv, Surroundings
  <2>4. stopper'.wait = stopper.wait \ {i} /\ stopper'.at = i
    BY Zenon, <2>2
  <2> QED BY <1>0, <1>1, <1>6, <2>1, <2>3, <2>4, StopStep DEF LoadersOf
<1>8. ASSUME NEW i \in Ids, ReconfigureStops(i)
      PROVE  EInv(n)'
  <2>1. /\ StopNext(reconf, i) /\ UNCHANGED stopper
        /\ reconf' = [reconf EXCEPT !.at = i, !.wait = reconf.wait \ {i}]
    BY <1>8, Zenon DEF ReconfigureStops
  <2>2. /\ Surroundings' /\ reconf'.at = i /\ reconf'.wait = reconf.wait \ {i}
        /\ reconf'.new = reconf.new /\ reconf'.updated = reconf.updated
        /\ reconf'.deleted = reconf.deleted
    BY <1>3, <2>1, Zenon
  <2> QED BY <1>0, <1>1, <1>6, <2>1, <2>2, StopStep DEF LoadersOf
<1> QED BY Zenon, <1>2, <1>4, <1>5, <1>7, <1>8

\* Stop takes the loaders out of the plugin's map to stop them.
LEMMA StopCalledMatches ==
  ASSUME NEW n \in Names, IInv, EInv(n), StopCalled
  PROVE  EInv(n)'
<1> DEFINE wait == {Current(m) : m \in DOMAIN downloaders}
<1>1. /\ ~stopped /\ stopped' = TRUE /\ DOMAIN downloaders' = {}
      /\ UNCHANGED <<latest, env, config, status, etags, loaders, work, created, reconf, store>>
  BY DEF StopCalled, loaderVars
<1>2. stopper' = [pc |-> "stopping", wait |-> wait, at |-> stopper.at, new |-> stopper.new,
                  updated |-> stopper.updated, deleted |-> stopper.deleted]
  BY Zenon DEF StopCalled, EInv, Surroundings
<1>3. n \in DOMAIN downloaders => Current(n) \in wait
  BY Zenon
<1> HIDE DEF wait
<1>4. Surroundings'
  BY Zenon, <1>1, <1>2 DEF EInv, Surroundings
<1>5. stopper'.wait = wait
  BY Zenon, <1>2
<1>6. OneLoop(n)'
  BY Zenon, <1>1, <1>3, <1>5, SameWorks DEF EInv, OneLoop, LoadersOf, Active
<1>7. Replaced(n)'
  BY Zenon, <1>1 DEF EInv, Replaced
<1>8. Matches(n)'
  BY Zenon, <1>1 DEF EInv, Matches, NotAhead
<1>9. LoaderShapes'
  BY Zenon, <1>1 DEF EInv, LoaderShapes
<1> QED BY Zenon, <1>4, <1>6, <1>7, <1>8, <1>9 DEF EInv

-----------------------------------------------------------------------------
(* Services, configurations and restarts, and the statuses.                *)

\* A service moves on: what was not ahead of it still is not, what it no longer offered
\* it still does not offer.
LEMMA PublishMatches ==
  ASSUME NEW n \in Names, IInv, EInv(n), NEW t \in Services, Publish(t)
  PROVE  EInv(n)'
<1>1. UNCHANGED <<env, config, status, etags, downloaders, stopped, loaders, work, created, reconf,
                  stopper, store>>
  BY Zenon DEF Publish, pluginVars, loaderVars
<1>2. /\ latest' \in [Services -> Nat] /\ latest \in [Services -> Nat]
      /\ \A s \in Services : latest'[s] >= latest[s]
  BY DEF Publish, EInv, Surroundings
<1>3. \A b : NotAhead(b) => \A s \in Services : \A v \in Nat :
                               v > latest'[s] => b # [svc |-> s, v |-> v]
  BY <1>2 DEF NotAhead
<1>4. \A b : \A s \in Services : Passed(b, s) => \A v \in Nat :
                               v >= latest'[s] => b # [svc |-> s, v |-> v]
  BY <1>2 DEF Passed
<1>5. LoaderShapes' /\ Surroundings'
  BY Zenon, <1>1, <1>2 DEF EInv, LoaderShapes, Surroundings
<1>6. OneLoop(n)'
  <2> SUFFICES ASSUME NEW i \in LoadersOf(n)
               PROVE  (Works(i) /\ (loaders[i].run = "stopped" \/ Active(i)))'
    BY Zenon DEF OneLoop, LoadersOf
  <2>1. Works(i) /\ (loaders[i].run = "stopped" \/ Active(i))
    BY Zenon DEF EInv, OneLoop
  <2>2. Active(i) => Active(i)'
    BY Zenon, <1>1 DEF Active, Current
  <2>3. work[i]["loop"].pc = "got" => NotAhead(work[i]["loop"].ans.etag)'
    BY Zenon, <1>1, <1>3, <2>1 DEF Works, NotAhead
  <2>4. loaders[i].run # "stopped" => NotAhead(loaders[i].etag)'
    BY Zenon, <1>1, <1>3, <2>1 DEF Works, NotAhead
  <2> QED BY Zenon, <1>1, <2>1, <2>2, <2>3, <2>4 DEF Works
<1>7. Replaced(n)'
  BY Zenon, <1>1 DEF EInv, Replaced, Current
<1>8. Matches(n)'
  <2>1. NotAhead(store[n].etag)'
    BY Zenon, <1>1, <1>3 DEF EInv, Matches, NotAhead
  <2>2. ASSUME n \in DOMAIN downloaders
        PROVE  Agree(n, loaders[Current(n)], work[Current(n)]["loop"])'
    <3> DEFINE L == loaders[Current(n)]
               w == work[Current(n)]["loop"]
    <3>1. Agree(n, L, w) /\ L' = L /\ w' = w
      BY Zenon, <1>1, <2>2 DEF EInv, Matches, Current
    <3> HIDE DEF L, w
    <3>2. NotAhead(etags[n])'
      BY Zenon, <1>1, <1>3, <3>1 DEF Agree, NotAhead
    <3>3. Passed(etags[n], L.src.svc) => Passed(etags[n], L.src.svc)'
      BY Zenon, <1>1, <1>4, <3>1 DEF Agree, Passed
    <3>4. Agree(n, L, w)'
      BY Zenon, <1>1, <3>1, <3>2, <3>3 DEF Agree
    <3> QED BY Zenon, <3>4 DEF L, w
  <2> QED BY Zenon, <1>1, <2>1, <2>2 DEF Matches
<1> QED BY Zenon, <1>5, <1>6, <1>7, <1>8 DEF EInv

\* Reconfigure finds out which loaders to replace.
LEMMA ReconfigureCalledMatches ==
  ASSUME NEW n \in Names, IInv, EInv(n), NEW conf \in env.configs, ReconfigureCalled(conf)
  PROVE  EInv(n)'
<1> DEFINE new == DOMAIN conf \ DOMAIN config
           updated == {m \in DOMAIN conf \cap DOMAIN config : conf[m] # config[m]}
           deleted == DOMAIN config \ DOMAIN conf
           wait == {Current(m) : m \in DOMAIN downloaders \cap (updated \cup deleted)}
<1>1. /\ reconf.pc = "idle" /\ config' = conf
      /\ reconf' = [pc |-> "stopping", at |-> NoLoader, wait |-> wait, new |-> new,
                    updated |-> updated, deleted |-> deleted]
      /\ \A m \in new \cup updated : created[m] < MaxLoaders
      /\ UNCHANGED <<latest, env, status, etags, downloaders, stopped, loaders, work, created, stopper,
                     store>>
  BY Zenon DEF ReconfigureCalled, loaderVars
<1>2. /\ reconf'.new = new /\ reconf'.updated = updated /\ reconf'.deleted = deleted
      /\ reconf'.wait = wait
  BY Zenon, <1>1
<1>3. n \in DOMAIN downloaders /\ n \in updated \cup deleted => Current(n) \in wait
  BY Zenon
<1>4. ~stopped => new \cap DOMAIN status = {}
  BY Zenon, <1>1 DEF IInv, Books
<1> HIDE DEF new, updated, deleted, wait
<1>5. config' \in Configs(env)'
  BY Zenon, <1>1 DEF Configs
<1>6. Surroundings'
  BY Zenon, <1>1, <1>2, <1>4, <1>5 DEF EInv, Surroundings
<1>7. Replaced(n)'
  BY Zenon, <1>1, <1>2, <1>3 DEF EInv, Replaced, Current
<1>8. OneLoop(n)'
  BY Zenon, <1>1, SameWorks DEF EInv, OneLoop, LoadersOf, Active, Current
<1>9. LoaderShapes' /\ Matches(n)'
  BY Zenon, <1>1 DEF EInv, LoaderShapes, Matches, Current, Agree, NotAhead, Passed
<1> QED BY Zenon, <1>6, <1>7, <1>8, <1>9 DEF EInv

\* The source that a configuration has for n, and a loader made for it.
LEMMA NewLoaderSets ==
  ASSUME NEW n \in Names, OnlyPolled(n), env \in Deployments, NEW conf \in Configs(env),
         n \in DOMAIN conf, NEW etag
  PROVE  /\ NewLoader(conf[n], etag).src = conf[n] /\ NewLoader(conf[n], etag).etag = etag
         /\ conf[n].mode # "file" /\ conf[n].svc \in Services
         /\ NewWork(conf[n]) = [k \in Kinds |-> Unborn]
<1>1. conf[n].mode # "file"
  BY Zenon DEF OnlyPolled
<1>2. conf \in Partial(Names, Sources)
  BY Zenon, DeploymentsValid DEF Configs, Deployment
<1>3. conf[n].svc \in Services
  BY Zenon, <1>2 DEF Partial, Sources
<1>4. NewWork(conf[n]) = [k \in Kinds |-> Unborn]
  BY Zenon, <1>1 DEF NewWork
<1>5. NewLoader(conf[n], etag).src = conf[n] /\ NewLoader(conf[n], etag).etag = etag
  BY Zenon, <1>1 DEF NewLoader
<1> QED BY Zenon, <1>1, <1>3, <1>4, <1>5

\* A loader always has its three parts.
LEMMA NewLoaderShape ==
  ASSUME NEW src, NEW etag
  PROVE  NewLoader(src, etag) = [src |-> NewLoader(src, etag).src, etag |-> NewLoader(src, etag).etag,
                                 run |-> NewLoader(src, etag).run]
  BY Zenon DEF NewLoader

\* The second half of Reconfigure: the loader that a new one replaces is stopped, and the
\* new one starts with the ETag that the store has.
LEMMA ReconfigureAppliesMatches ==
  ASSUME NEW n \in Names, OnlyPolled(n), IInv, EInv(n), ReconfigureApplies
  PROVE  EInv(n)'
<1> DEFINE start == reconf.new \cup reconf.updated
           gone == reconf.deleted \cap DOMAIN downloaders
<1>0. /\ reconf.wait = {} /\ reconf.at = NoLoader /\ reconf' = Nobody
      /\ store'[n] = IF n \in reconf.deleted THEN Empty ELSE store[n]
      /\ UNCHANGED <<latest, env, config, stopped, stopper>>
  BY Zenon DEF ReconfigureApplies, AllStopped, Deactivated
<1>1. /\ reconf'.new = {} /\ reconf'.updated = {} /\ reconf'.deleted = {}
  BY Zenon, <1>0 DEF Nobody
<1>2. NotAhead(store'[n].etag)
  <2>1. NotAhead(None) /\ Empty.etag = None
    BY DEF NotAhead, None, Empty, EInv, Surroundings
  <2> QED BY Zenon, <1>0, <2>1 DEF EInv, Matches
<1>3. n \in DOMAIN downloaders /\ n \in reconf.updated \cup reconf.deleted
        => loaders[Current(n)].run = "stopped"
  <2>1. n \in DOMAIN downloaders => Current(n) # NoLoader
    BY Zenon, CurrentLoader, NoLoaderIsNone
  <2> QED BY Zenon, <1>0, <2>1 DEF EInv, Replaced
<1>4. CASE stopped /\ start # {}
  <2>1. /\ UNCHANGED <<status, etags, downloaders, loaders, work, created>>
        /\ n \notin DOMAIN downloaders
    BY Zenon, <1>4 DEF ReconfigureApplies, loaderVars, EInv, Surroundings
  <2>2. LoaderShapes' /\ Surroundings'
    BY Zenon, <1>0, <1>1, <1>4, <2>1 DEF EInv, LoaderShapes, Surroundings
  <2>3. OneLoop(n)'
    BY SMTT(60), <1>0, <2>1 DEF EInv, OneLoop, LoadersOf, Works, Active, Current, NotAhead
  <2>4. Replaced(n)'
    BY Zenon, <1>1, <2>1 DEF EInv, Replaced
  <2>5. Matches(n)'
    BY Zenon, <1>0, <1>2, <2>1 DEF Matches, NotAhead
  <2> QED BY Zenon, <2>2, <2>3, <2>4, <2>5 DEF EInv
<1>5. CASE ~(stopped /\ start # {})
  <2>1. /\ status' = [m \in (DOMAIN status \ gone) \cup reconf.new |->
                        IF m \in reconf.new THEN NewStatus ELSE status[m]]
        /\ etags' = [m \in (DOMAIN etags \ gone) \cup start |->
                        IF m \in start THEN store[m].etag ELSE etags[m]]
        /\ downloaders' = [m \in (DOMAIN downloaders \ gone) \cup start |->
                        IF m \in start THEN created[m] + 1 ELSE downloaders[m]]
        /\ created' = [m \in Names |-> IF m \in start THEN created[m] + 1 ELSE created[m]]
        /\ loaders' = [i \in Ids |-> IF i[1] \in start /\ i[2] = created[i[1]] + 1
                                     THEN NewLoader(config[i[1]], store[i[1]].etag) ELSE loaders[i]]
        /\ work' = [i \in Ids |-> IF i[1] \in start /\ i[2] = created[i[1]] + 1
                                  THEN NewWork(config[i[1]]) ELSE work[i]]
    BY Zenon, <1>5 DEF ReconfigureApplies
  <2>2. LoaderShapes'
    <3>1. loaders' = [i \in Ids |-> loaders'[i]]
      BY <2>1, ZenonT(60)
    <3>2. \A i \in Ids : \/ loaders'[i] = NewLoader(config[i[1]], store[i[1]].etag)
                         \/ loaders'[i] = loaders[i]
      BY Zenon, <2>1
    <3> QED BY <3>1, <3>2, NewLoaderShape DEF EInv, LoaderShapes
  <2>3. Surroundings'
    BY Zenon, <1>0, <1>1, <1>5, <2>1 DEF EInv, Surroundings
  <2>4. CASE n \notin start
    <3>1. /\ \A i \in LoadersOf(n) : loaders'[i] = loaders[i] /\ work'[i] = work[i]
          /\ created'[n] = created[n]
          /\ n \in DOMAIN downloaders' <=> n \in DOMAIN downloaders /\ n \notin reconf.deleted
      BY Zenon, <2>1, <2>4 DEF LoadersOf
    <3>2. ASSUME n \in DOMAIN downloaders'
          PROVE  /\ n \in DOMAIN downloaders /\ Current(n)' = Current(n)
                 /\ store'[n] = store[n] /\ status'[n] = status[n]
                 /\ n \in DOMAIN etags => n \in DOMAIN etags' /\ etags'[n] = etags[n]
      <4>1. n \in DOMAIN downloaders /\ n \notin gone /\ n \notin reconf.deleted
        BY Zenon, <3>1, <3>2
      <4>2. n \in DOMAIN status
        BY Zenon, <4>1 DEF IInv, Books, EInv, Surroundings
      <4> QED BY Zenon, <1>0, <2>1, <2>4, <4>1, <4>2 DEF Current
    <3>3. OneLoop(n)'
      <4> SUFFICES ASSUME NEW i \in LoadersOf(n)
                   PROVE  (Works(i) /\ (loaders[i].run = "stopped" \/ Active(i)))'
        BY Zenon DEF OneLoop, LoadersOf
      <4>1. Works(i) /\ (loaders[i].run = "stopped" \/ Active(i))
        BY Zenon DEF EInv, OneLoop
      <4>2. Works(i)'
        BY <1>0, <3>1, <4>1 DEF Works, NotAhead
      <4>3. CASE loaders[i].run = "stopped"
        BY Zenon, <3>1, <4>2, <4>3
      <4>4. CASE loaders[i].run # "stopped"
        <5>1. Active(i) /\ i[1] = n
          BY Zenon, <4>1, <4>4 DEF LoadersOf
        <5>2. CASE n \in DOMAIN downloaders /\ i = Current(n)
          <6>1. n \in DOMAIN downloaders'
            BY Zenon, <1>3, <3>1, <4>4, <5>2
          <6> QED BY Zenon, <3>2, <4>2, <5>1, <5>2, <6>1 DEF Active
        <5>3. CASE stopped /\ (i \in stopper.wait \/ i = stopper.at)
          BY Zenon, <1>0, <4>2, <5>3 DEF Active
        <5> QED BY Zenon, <5>1, <5>2, <5>3 DEF Active
      <4> QED BY Zenon, <4>3, <4>4
    <3>4. Replaced(n)'
      BY Zenon, <1>1, <3>1, <3>2 DEF EInv, Replaced, Current
    <3>5. Matches(n)'
      <4>1. NotAhead(store[n].etag)'
        BY Zenon, <1>0, <1>2 DEF NotAhead
      <4>2. ASSUME n \in DOMAIN downloaders'
            PROVE  Agree(n, loaders[Current(n)], work[Current(n)]["loop"])'
        <5>1. /\ Agree(n, loaders[Current(n)], work[Current(n)]["loop"])
              /\ Current(n) \in LoadersOf(n)
          BY Zenon, <3>2, <4>2, CurrentLoader DEF EInv, Matches
        <5>2. /\ loaders'[Current(n)'] = loaders[Current(n)]
              /\ work'[Current(n)'] = work[Current(n)]
          BY Zenon, <3>1, <3>2, <4>2, <5>1
        <5> HIDE DEF Current
        <5> QED BY Zenon, <1>0, <3>2, <4>2, <5>1, <5>2 DEF Agree, NotAhead, Passed
      <4> QED BY Zenon, <4>1, <4>2 DEF Matches
    <3> QED BY Zenon, <2>2, <2>3, <3>3, <3>4, <3>5 DEF EInv
  <2>5. CASE n \in start
    <3>0. PICK number : number = created[n] + 1
      BY Zenon
    <3> DEFINE i == <<n, number>>
    <3>1. /\ ~stopped /\ n \notin reconf.deleted /\ n \in DOMAIN config
          /\ n \in DOMAIN downloaders => n \in reconf.updated
      BY Zenon, <1>5, <2>5 DEF IInv, Books, EInv, Surroundings
    <3>2. number \in 1..MaxLoaders /\ created[n] \in Nat
      BY <2>5, <3>0, LoadersValid DEF EInv, Replaced
    <3>3. i \in LoadersOf(n) /\ i \in Ids /\ i[1] = n /\ i[2] = number
      BY Zenon, <3>2 DEF LoadersOf, Ids
    <3>4. /\ loaders'[i] = NewLoader(config[n], store[n].etag)
          /\ work'[i] = NewWork(config[n])
          /\ \A j \in LoadersOf(n) : j # i => loaders'[j] = loaders[j] /\ work'[j] = work[j]
      <4>1. \A j \in LoadersOf(n) : j # i => j[2] # number
        BY DEF LoadersOf, Ids
      <4> QED BY Zenon, <2>1, <2>5, <3>0, <3>3, <4>1 DEF LoadersOf
    <3>5. /\ loaders'[i].src = config[n] /\ loaders'[i].etag = store[n].etag
          /\ config[n].mode # "file" /\ config[n].svc \in Services
          /\ work'[i] = [k \in Kinds |-> Unborn]
      BY SMTT(60), <3>1, <3>4, NewLoaderSets DEF EInv, Surroundings, IInv, Shapes
    <3>6. \A k \in Kinds : work'[i][k].pc = "idle"
      BY SMTT(60), <3>5 DEF Unborn
    <3>7. /\ n \in DOMAIN downloaders' /\ downloaders'[n] = number /\ created'[n] = number
          /\ n \in DOMAIN etags' /\ etags'[n] = store[n].etag /\ store'[n] = store[n]
      BY Zenon, <1>0, <2>1, <2>5, <3>0, <3>1
    <3>8. Current(n)' = i
      BY Zenon, <3>7 DEF Current
    <3>9. OneLoop(n)'
      <4> SUFFICES ASSUME NEW j \in LoadersOf(n)
                   PROVE  (Works(j) /\ (loaders[j].run = "stopped" \/ Active(j)))'
        BY Zenon DEF OneLoop, LoadersOf
      <4>1. CASE j = i
        <5>1. Works(i)'
          <6>1. NotAhead(loaders[i].etag)'
            BY Zenon, <1>0, <1>2, <3>5, <3>7 DEF NotAhead
          <6> QED BY Zenon, <3>5, <3>6, <6>1 DEF Works, Kinds
        <5>2. Active(i)'
          BY Zenon, <3>3, <3>7, <3>8 DEF Active
        <5> QED BY Zenon, <4>1, <5>1, <5>2
      <4>2. CASE j # i
        <5>1. Works(j) /\ loaders[j].run = "stopped"
          BY Zenon, <1>3, <3>1 DEF EInv, OneLoop, Active, LoadersOf
        <5>2. loaders'[j] = loaders[j] /\ work'[j] = work[j]
          BY Zenon, <3>4, <4>2
        <5> QED BY Zenon, <1>0, <5>1, <5>2 DEF Works, NotAhead
      <4> QED BY Zenon, <4>1, <4>2
    <3>10. Replaced(n)'
      BY <1>1, <3>2, <3>7 DEF Replaced
    <3>11. Matches(n)'
      <4>1. NotAhead(store[n].etag)'
        BY Zenon, <1>0, <1>2 DEF NotAhead
      <4>2. "loop" \in Kinds
        BY Zenon DEF Kinds
      <4>3. Agree(n, loaders[Current(n)], work[Current(n)]["loop"])'
        BY Zenon, <3>5, <3>6, <3>7, <3>8, <4>1, <4>2 DEF Agree
      <4> QED BY Zenon, <4>1, <4>3 DEF Matches
    <3> QED BY Zenon, <2>2, <2>3, <3>9, <3>10, <3>11 DEF EInv
  <2> QED BY Zenon, <2>4, <2>5
<1> QED BY Zenon, <1>4, <1>5

-----------------------------------------------------------------------------
\* A process starts with one loader for each bundle of its configuration, none of them at
\* work for n.
LEMMA BootLoadersSet ==
  ASSUME NEW n \in Names, OnlyPolled(n), env \in Deployments, NEW found
  PROVE  /\ BootLoaders(found) = [i \in Ids |-> BootLoaders(found)[i]]
         /\ \A i \in Ids : BootLoaders(found)[i] =
              [src |-> BootLoaders(found)[i].src, etag |-> BootLoaders(found)[i].etag,
               run |-> BootLoaders(found)[i].run]
         /\ \A i \in LoadersOf(n) :
              /\ BootLoaders(found)[i].src.mode # "file"
              /\ BootLoaders(found)[i].run # "stopped" =>
                    n \in DOMAIN env.boot /\ i = <<n, 1>>
              /\ \A k \in Kinds : BootWork[i][k].pc = "idle"
         /\ n \in DOMAIN env.boot =>
              /\ <<n, 1>> \in LoadersOf(n)
              /\ BootLoaders(found)[<<n, 1>>].src.svc \in Services
              /\ BootLoaders(found)[<<n, 1>>].etag = found[n].etag
<1> DEFINE B == BootLoaders(found)
<1>0. env.boot \in Configs(env)
  BY Zenon DEF Configs
<1>1. B = [i \in Ids |-> B[i]]
  BY ZenonT(60) DEF BootLoaders
<1>2. \A i \in Ids : IF Booted(i[1]) /\ i[2] = 1
                     THEN B[i] = NewLoader(env.boot[i[1]], found[i[1]].etag) ELSE B[i] = Unused
  BY Zenon DEF BootLoaders
<1>3. \A i \in Ids : IF Booted(i[1]) /\ i[2] = 1
                     THEN BootWork[i] = NewWork(env.boot[i[1]]) ELSE BootWork[i] = [k \in Kinds |-> Unborn]
  BY Zenon DEF BootWork
<1> HIDE DEF B
<1>4. /\ Unused = [src |-> Unused.src, etag |-> Unused.etag, run |-> Unused.run]
      /\ Unused.src.mode = "manual" /\ Unused.run = "stopped" /\ Unborn.pc = "idle"
  BY Zenon DEF Unused, Unborn
<1>5. \A i \in Ids : B[i] = [src |-> B[i].src, etag |-> B[i].etag, run |-> B[i].run]
  <2> TAKE i \in Ids
  <2>1. CASE B[i] = NewLoader(env.boot[i[1]], found[i[1]].etag)
    BY <2>1, NewLoaderShape
  <2>2. CASE B[i] = Unused
    BY Zenon, <1>4, <2>2
  <2> QED BY Zenon, <1>2, <2>1, <2>2
<1>6. \A i \in LoadersOf(n) : i \in Ids /\ i[1] = n /\ (i[2] = 1 => i = <<n, 1>>)
  BY DEF LoadersOf, Ids
<1>7. n \in DOMAIN env.boot =>
        /\ NewLoader(env.boot[n], found[n].etag).src = env.boot[n]
        /\ NewLoader(env.boot[n], found[n].etag).etag = found[n].etag
        /\ env.boot[n].mode # "file" /\ env.boot[n].svc \in Services
        /\ NewWork(env.boot[n]) = [k \in Kinds |-> Unborn]
  BY <1>0, NewLoaderSets
<1>8. ASSUME NEW i \in LoadersOf(n)
      PROVE  /\ B[i].src.mode # "file"
             /\ B[i].run # "stopped" => n \in DOMAIN env.boot /\ i = <<n, 1>>
             /\ \A k \in Kinds : BootWork[i][k].pc = "idle"
  <2>1. CASE n \in DOMAIN env.boot /\ i[2] = 1
    <3>1. B[i].src = env.boot[n] /\ i = <<n, 1>>
      BY Zenon, <1>2, <1>6, <1>7, <2>1 DEF Booted
    <3>2. BootWork[i] = [k \in Kinds |-> Unborn]
      BY Zenon, <1>3, <1>6, <1>7, <2>1 DEF Booted
    <3> QED BY Zenon, <1>4, <1>7, <2>1, <3>1, <3>2
  <2>2. CASE ~(n \in DOMAIN env.boot /\ i[2] = 1)
    <3>1. B[i] = Unused /\ BootWork[i] = [k \in Kinds |-> Unborn]
      BY Zenon, <1>2, <1>3, <1>6, <2>2 DEF Booted
    <3> QED BY Zenon, <1>4, <3>1
  <2> QED BY Zenon, <2>1, <2>2
<1>9. ASSUME n \in DOMAIN env.boot
      PROVE  /\ <<n, 1>> \in LoadersOf(n)
             /\ B[<<n, 1>>].src.svc \in Services /\ B[<<n, 1>>].etag = found[n].etag
  <2>1. <<n, 1>> \in LoadersOf(n)
    BY LoadersValid DEF LoadersOf, Ids
  <2> QED BY Zenon, <1>2, <1>6, <1>7, <1>9, <2>1 DEF Booted
<1> QED BY Zenon, <1>1, <1>5, <1>8, <1>9 DEF B

\* The invariant holds when a process starts for the first time.
LEMMA InitMatches ==
  ASSUME NEW n \in Names, OnlyPolled(n), Init
  PROVE  EInv(n)
<1>1. /\ env \in Deployments /\ loaders = BootLoaders(store) /\ work = BootWork
      /\ latest = [s \in Services |-> 0] /\ config = env.boot /\ ~stopped
      /\ reconf = Nobody /\ stopper = Nobody /\ store[n] = Empty
      /\ downloaders = [m \in DOMAIN env.boot |-> 1] /\ etags = [m \in DOMAIN env.boot |-> None]
      /\ created[n] = IF n \in DOMAIN env.boot THEN 1 ELSE 0
  BY Zenon DEF Init, Booted
<1>2. /\ LoaderShapes
      /\ \A i \in LoadersOf(n) :
            /\ loaders[i].src.mode # "file"
            /\ loaders[i].run # "stopped" => n \in DOMAIN env.boot /\ i = <<n, 1>>
            /\ \A k \in Kinds : work[i][k].pc = "idle"
      /\ n \in DOMAIN env.boot =>
            /\ <<n, 1>> \in LoadersOf(n)
            /\ loaders[<<n, 1>>].src.svc \in Services
            /\ loaders[<<n, 1>>].etag = store[n].etag
  BY SMTT(60), <1>1, BootLoadersSet DEF LoaderShapes
<1>3. Surroundings
  BY Zenon, <1>1 DEF Surroundings, Nobody, Configs
<1>4. /\ NotAhead(store[n].etag) /\ store[n].etag = None
  BY SMTT(60), <1>1 DEF NotAhead, None, Empty
<1>5. /\ n \in DOMAIN downloaders <=> n \in DOMAIN env.boot
      /\ n \in DOMAIN downloaders => Current(n) = <<n, 1>> /\ n \in DOMAIN etags /\ etags[n] = None
  BY Zenon, <1>1 DEF Current
<1>6. "loop" \in Kinds
  BY Zenon DEF Kinds
<1>7. OneLoop(n)
  BY Zenon, <1>2, <1>4, <1>5, <1>6 DEF OneLoop, Works, Active, LoadersOf
<1>8. Replaced(n)
  BY SMTT(60), <1>1, LoadersValid DEF Replaced, Nobody
<1>9. Matches(n)
  BY Zenon, <1>2, <1>4, <1>5, <1>6 DEF Matches, Agree
<1> QED BY Zenon, <1>2, <1>3, <1>7, <1>8, <1>9 DEF EInv

\* The invariant holds when a process starts again, with what the crash has left of the
\* store s.
LEMMA DiesMatches ==
  ASSUME NEW n \in Names, OnlyPolled(n), IInv, EInv(n), NEW s, NotAhead(s[n].etag), Dies(s)
  PROVE  EInv(n)'
<1>1. /\ env \in Deployments /\ env' = env /\ latest' = latest
      /\ loaders' = BootLoaders(store') /\ work' = BootWork
      /\ config' = env.boot /\ ~stopped'
      /\ reconf' = Nobody /\ stopper' = Nobody
      /\ downloaders' = [m \in DOMAIN env.boot |-> 1]
      /\ etags' = [m \in DOMAIN env.boot |-> store'[m].etag]
      /\ created'[n] = IF n \in DOMAIN env.boot THEN 1 ELSE 0
  BY Zenon DEF Dies, Booted, IInv, Shapes
<1>2. /\ LoaderShapes'
      /\ \A i \in LoadersOf(n) :
            /\ loaders'[i].src.mode # "file"
            /\ loaders'[i].run # "stopped" => n \in DOMAIN env.boot /\ i = <<n, 1>>
            /\ \A k \in Kinds : work'[i][k].pc = "idle"
      /\ n \in DOMAIN env.boot =>
            /\ <<n, 1>> \in LoadersOf(n)
            /\ loaders'[<<n, 1>>].src.svc \in Services
            /\ loaders'[<<n, 1>>].etag = store'[n].etag
  BY <1>1, BootLoadersSet DEF LoaderShapes
<1>3. Surroundings'
  BY Zenon, <1>1 DEF EInv, Surroundings, Nobody, Configs
<1>4. NotAhead(store'[n].etag)
  <2>1. store'[n].etag = None \/ store'[n].etag = s[n].etag
    BY Zenon DEF Dies, FromDisk, Empty
  <2>2. NotAhead(None)
    BY SMTT(60) DEF NotAhead, None, EInv, Surroundings
  <2> QED BY Zenon, <2>1, <2>2
<1>5. /\ n \in DOMAIN downloaders' <=> n \in DOMAIN env.boot
      /\ n \in DOMAIN downloaders' =>
            Current(n)' = <<n, 1>> /\ n \in DOMAIN etags' /\ etags'[n] = store'[n].etag
  BY Zenon, <1>1 DEF Current
<1>6. "loop" \in Kinds
  BY Zenon DEF Kinds
<1>7. OneLoop(n)'
  BY ZenonT(30), <1>1, <1>2, <1>4, <1>5, <1>6 DEF NotAhead, OneLoop, Works, Active, LoadersOf
<1>8. Replaced(n)'
  BY SMTT(60), <1>1, LoadersValid DEF Replaced, Nobody
<1>9. Matches(n)'
  BY Zenon, <1>1, <1>2, <1>4, <1>5, <1>6 DEF Matches, Agree, NotAhead
<1> QED BY Zenon, <1>2, <1>3, <1>7, <1>8, <1>9 DEF EInv

\* A crash leaves the store as it is, or as it is between an activation and the save.
LEMMA CrashMatches ==
  ASSUME NEW n \in Names, OnlyPolled(n), IInv, EInv(n),
         Crash \/ \E i \in Ids, k \in Kinds : CrashUnsaved(i, k)
  PROVE  EInv(n)'
<1>1. NotAhead(store[n].etag)
  BY Zenon DEF EInv, Matches
<1>2. CASE Crash
  BY Zenon, <1>1, <1>2, DiesMatches DEF Crash
<1>3. ASSUME NEW i \in Ids, NEW k \in Kinds, CrashUnsaved(i, k)
      PROVE  EInv(n)'
  <2>1. Dies(Activated(i, k)) /\ work[i][k].pc = "got"
    BY Zenon, <1>3 DEF CrashUnsaved, Activates, Called
  <2>2. i[1] = n => NotAhead(work[i][k].ans.etag)
    BY Zenon, <2>1 DEF EInv, OneLoop, Works, LoadersOf
  <2>3. NotAhead(Activated(i, k)[n].etag)
    BY ZenonT(30), <1>1, <2>2, ActivatedEtag
  <2> QED BY Zenon, <2>1, <2>3, DiesMatches
<1> QED BY Zenon, <1>2, <1>3

-----------------------------------------------------------------------------
\* The invariant of the bundles that are only polled.
PolledInv == \A n \in Names : OnlyPolled(n) => EInv(n)

\* Every step keeps it.
THEOREM PolledInductive == Spec => [](IInv /\ PolledInv)
<1>1. Init => PolledInv
  BY Zenon, InitMatches DEF PolledInv
<1>2. IInv /\ PolledInv /\ [Next]_vars => PolledInv'
  <2> SUFFICES ASSUME IInv, [Next]_vars, NEW n \in Names, OnlyPolled(n), EInv(n)
               PROVE  EInv(n)'
    BY Zenon DEF PolledInv
  <2>1. CASE Next
    <3>1. CASE \E i \in Ids, k \in Kinds :
                  Request(i, k) \/ FetchFails(i, k) \/ Fetch(i, k) \/ Process(i, k)
      BY <3>1, DownloadMatches, OwnCallback, OtherCallback, ZenonT(60)
    <3>2. CASE \/ \E m \in Names, c \in env.callers : Trigger(m, c)
               \/ \E conf \in env.configs : ReconfigureCalled(conf)
               \/ \E s \in Services : Publish(s)
      BY Zenon, <3>2, TriggerMatches, ReconfigureCalledMatches, PublishMatches
    <3>3. CASE \/ StopCalled \/ StopperGoesOn \/ ReconfigureGoesOn \/ ReconfigureApplies \/ Crash
               \/ \E i \in Ids, k \in Kinds : CrashUnsaved(i, k)
               \/ \E i \in Ids : LoopReturns(i) \/ StopperStops(i) \/ ReconfigureStops(i)
      BY Zenon, <3>3, StopCalledMatches, StoppingMatches, ReconfigureAppliesMatches, CrashMatches
    <3> QED BY <2>1, <3>1, <3>2, <3>3, Zenon DEF Next
  <2>2. CASE UNCHANGED vars
    <3>1. UNCHANGED <<latest, env, config, status, etags, downloaders, stopped, loaders, work, created,
                      reconf, stopper, store>>
      BY Zenon, <2>2 DEF vars, pluginVars, loaderVars
    <3>2. LoaderShapes' /\ Surroundings'
      BY Zenon, <3>1, SameSurroundings DEF EInv, LoaderShapes
    <3> QED BY Zenon, <3>1, <3>2, OtherBundle, CurrentLoader DEF LoadersOf
  <2> QED BY Zenon, <2>1, <2>2
<1> QED BY <1>1, <1>2, Inductive, PTL DEF Spec

\* A loader that polls sends the ETag that the plugin has in its books, and that names the
\* bundle in the store unless the status shows an error (oneShot, process, SetCache).
THEOREM PolledEtagsName == Spec => [](\A n \in Names : OnlyPolled(n) => EtagNamed(n))
<1>1. PolledInv => \A n \in Names : OnlyPolled(n) => EtagNamed(n)
  <2> SUFFICES ASSUME NEW n \in Names, EInv(n), Resting(n)
               PROVE  /\ loaders[Current(n)].etag = etags[n]
                      /\ status[n].err = "none" => store[n].etag = etags[n]
    BY Zenon DEF PolledInv, EtagNamed
  <2> QED BY Zenon DEF EInv, Matches, Agree, Resting
<1> QED BY <1>1, PolledInductive, PTL

\* Where every bundle is only polled, EtagNamesBundle holds.
THEOREM EtagsNameBundles == (\A n \in Names : OnlyPolled(n)) /\ Spec => []EtagNamesBundle
<1> DEFINE All == \A n \in Names : OnlyPolled(n)
<1>1. All /\ (\A n \in Names : OnlyPolled(n) => EtagNamed(n)) => EtagNamesBundle
  BY Zenon DEF EtagNamesBundle
<1>2. All => All'
  BY Zenon DEF OnlyPolled, Configs
<1> QED BY <1>1, <1>2, PolledEtagsName, PTL

\* Once Stop has returned no loader of a polled bundle is at work, and nobody else stores.
LEMMA PolledQuiet ==
  ASSUME NEW n \in Names, IInv, EInv(n), Next
  PROVE  Quiet(n)
<1> SUFFICES ASSUME stopper.pc = "returned", stopper'.pc = "returned", reconf.pc = "idle"
             PROVE  store'[n] = store[n]
  BY Zenon DEF Quiet
<1>1. \A i \in LoadersOf(n) : \A k \in Kinds : work[i][k].pc = "idle"
  BY Zenon, NoLoaderIsNone DEF EInv, Surroundings, OneLoop, Works, Active, LoadersOf
<1>2. ASSUME NEW i \in Ids, NEW k \in Kinds, Process(i, k)
      PROVE  store'[n] = store[n]
  <2>1. work[i][k].pc = "got"
    BY <1>2, ZenonT(60) DEF Process, ProcessPanics, ProcessError, ActivationFails, PersistFails,
                   ProcessActivated, ProcessNotModified, Activates, Called
  <2>2. i[1] # n
    BY Zenon, <1>1, <2>1 DEF LoadersOf
  <2>3. store'[n] = store[n] \/ store'[n] = Activated(i, k)[n]
    BY <1>2, ZenonT(60) DEF Process, ProcessPanics, ProcessError, ActivationFails, PersistFails,
                   ProcessActivated, ProcessNotModified
  <2> QED BY Zenon, <2>2, <2>3, ActivatedEtag
<1>3. /\ ~Crash /\ ~ReconfigureApplies
      /\ \A i \in Ids, k \in Kinds : ~CrashUnsaved(i, k)
  <2>1. ~ReconfigureApplies
    BY DEF ReconfigureApplies, AllStopped
  <2>2. \A s : Dies(s) => stopper'.pc # "returned"
    BY DEF Dies, Nobody
  <2> QED BY Zenon, <2>1, <2>2 DEF Crash, CrashUnsaved
<1>4. CASE \E i \in Ids, k \in Kinds : Request(i, k) \/ FetchFails(i, k) \/ Fetch(i, k)
  <2>1. PICK i \in Ids, k \in Kinds : Request(i, k) \/ \E ans : Fetched(i, k, ans)
    BY <1>4, ZenonT(60) DEF FetchFails, Fetch
  <2> QED BY <2>1, Zenon DEF Request, Fetched
<1>5. CASE \/ \E m \in Names, c \in env.callers : Trigger(m, c)
           \/ \E i \in Ids : LoopReturns(i) \/ StopperStops(i) \/ ReconfigureStops(i)
           \/ StopCalled \/ StopperGoesOn \/ ReconfigureGoesOn
           \/ \E conf \in env.configs : ReconfigureCalled(conf)
           \/ \E s \in Services : Publish(s)
  BY <1>5, Zenon DEF Trigger, LoopReturns, StopperStops, ReconfigureStops, StopCalled, StopperGoesOn,
                 ReconfigureGoesOn, ReconfigureCalled, Publish
<1> QED BY <1>2, <1>3, <1>4, <1>5, Zenon DEF Next

\* Where every bundle is only polled nothing reaches the store after Plugin.Stop.
THEOREM StoppedPluginIsQuiet == (\A n \in Names : OnlyPolled(n)) /\ Spec => QuietAfterStop
<1> DEFINE All == \A n \in Names : OnlyPolled(n)
<1>1. All /\ IInv /\ PolledInv /\ [Next]_vars => [AllQuiet]_vars
  BY PolledQuiet, Zenon DEF PolledInv, AllQuiet
<1>2. All => All'
  BY Zenon DEF OnlyPolled, Configs
<1> QED BY <1>1, <1>2, PolledInductive, PTL DEF Spec, QuietAfterStop

-----------------------------------------------------------------------------

\* No configuration persists bundle n.
NotPersisted(n) ==
    \A e \in Deployments : \A c \in Configs(e) : n \in DOMAIN c => ~c[n].persist

\* No service sends deltas, or no store outlives the process: a delta that a plugin in
\* the course of stopping applies to another base is not found by the next process.
BasesKnown == Deltas = {} \/ \A e \in Deployments : ~e.durable

\* The answer that the goroutine w has brings a bundle under its own ETag.
Named(w) ==
    w.pc = "got" /\ w.ans.type \in Updates =>
        w.ans.b = w.ans.etag /\ (Deltas = {} => w.ans.type # "delta")

\* Bundle n in the store is the one its ETag names, the books and the status agree, and a
\* delta under way is one to the bundle in the store.
TrueToStore(n) ==
    /\ store[n].etag = etags[n]
    /\ status[n].activated => status[n].rev = store[n].rev
    /\ work[Current(n)]["loop"].pc = "got" /\ work[Current(n)]["loop"].ans.type = "delta"
          => work[Current(n)]["loop"].ans.base = etags[n]

SInv(n) ==
    /\ ~stopped \/ Deltas = {} => store[n].rev = store[n].etag
    /\ \A i \in LoadersOf(n) : Named(work[i]["loop"])
    /\ n \in DOMAIN downloaders => TrueToStore(n)

\* A step that brings bundle n no answer and leaves store, books and status alone.
LEMMA NoAnswer ==
  ASSUME NEW n \in Names, EInv(n), SInv(n),
         \A i \in LoadersOf(n) : \/ work'[i]["loop"] = work[i]["loop"]
                                 \/ work'[i]["loop"].pc # "got",
         ~stopped' => ~stopped, store'[n] = store[n],
         n \in DOMAIN downloaders' =>
            /\ n \in DOMAIN downloaders /\ downloaders'[n] = downloaders[n]
            /\ etags'[n] = etags[n]
            /\ status'[n].activated = status[n].activated /\ status'[n].rev = status[n].rev
  PROVE  SInv(n)'
<1>1. \A i \in LoadersOf(n) : Named(work[i]["loop"])'
  BY Zenon DEF SInv, Named
<1>2. ASSUME n \in DOMAIN downloaders'
      PROVE  TrueToStore(n)'
  <2>1. TrueToStore(n) /\ Current(n) \in LoadersOf(n) /\ Current(n)' = Current(n)
    BY Zenon, <1>2, CurrentLoader DEF SInv, Current
  <2> HIDE DEF Current
  <2> QED BY Zenon, <1>2, <2>1 DEF TrueToStore
<1> QED BY Zenon, <1>1, <1>2 DEF SInv, LoadersOf

\* The error of a status is set, and nothing else in it.
LEMMA ErrorOnly ==
  ASSUME IInv, NEW n \in DOMAIN status, NEW m \in DOMAIN status, NEW err,
         status' = [status EXCEPT ![m].err = err]
  PROVE  status'[n].activated = status[n].activated /\ status'[n].rev = status[n].rev
<1>1. CASE n # m
  BY Zenon, <1>1 DEF IInv, Shapes
<1>2. CASE n = m
  <2>1. status'[n] = [status[n] EXCEPT !.err = err]
    BY Zenon, <1>2 DEF IInv, Shapes
  <2>2. status[n] = [rev |-> status[n].rev, activated |-> status[n].activated,
                     err |-> status[n].err]
    BY Zenon DEF IInv, Shapes
  <2> QED BY Zenon, <2>1, <2>2
<1> QED BY Zenon, <1>1, <1>2

\* An answer reaches the loop of loader i.
LEMMA AnswerNamed ==
  ASSUME NEW n \in Names, IInv, EInv(n), SInv(n), NEW i \in LoadersOf(n), NEW ans,
         work[i]["loop"].pc = "sent", Fetched(i, "loop", ans),
         ans.type \in Updates => ans.b = ans.etag /\ (Deltas = {} => ans.type # "delta"),
         ans.type = "delta" => ans.base = work[i]["loop"].sent
  PROVE  SInv(n)'
<1>0. i \in Ids /\ "loop" \in Kinds
  BY Zenon DEF LoadersOf, Kinds
<1>1. UNCHANGED <<status, etags, downloaders, stopped, store>>
  BY Zenon DEF Fetched, pluginVars
<1>2. /\ work'[i]["loop"] = [pc |-> "got", sent |-> work[i]["loop"].sent, ans |-> ans]
      /\ \A l \in Kinds : l # "loop" => work'[i][l] = work[i][l]
      /\ \A j \in Ids : j # i => work'[j] = work[j]
      /\ LoaderShapes'
      /\ loaders'[i] = [src |-> loaders[i].src, etag |-> ans.etag, run |-> loaders[i].run]
      /\ \A j \in Ids : j # i => loaders'[j] = loaders[j]
  BY Zenon, <1>0, FetchedSets DEF IInv, EInv
<1>3. work'[i]["loop"].pc = "got" /\ work'[i]["loop"].ans = ans
  BY <1>2
<1>4. \A j \in LoadersOf(n) : Named(work[j]["loop"])'
  BY <1>2, <1>3 DEF SInv, Named, LoadersOf
<1>5. ASSUME n \in DOMAIN downloaders
      PROVE  TrueToStore(n)'
  <2>1. i = Current(n) /\ Current(n)' = i
    BY Zenon, <1>1, <1>5, OnlyCurrentWorks DEF Current
  <2>2. TrueToStore(n) /\ work[i]["loop"].sent = etags[n]
    BY Zenon, <1>5, <2>1 DEF SInv, EInv, Matches, Agree
  <2> HIDE DEF Current
  <2> QED BY Zenon, <1>1, <1>3, <2>1, <2>2 DEF TrueToStore
<1> QED BY Zenon, <1>1, <1>4, <1>5 DEF SInv, LoadersOf

\* A loader asks, and is answered or not.
LEMMA DownloadTrue ==
  ASSUME NEW n \in Names, IInv, EInv(n), SInv(n), NEW i \in Ids, NEW k \in Kinds,
         Request(i, k) \/ FetchFails(i, k) \/ Fetch(i, k)
  PROVE  SInv(n)'
<1>0. UNCHANGED <<status, etags, downloaders, stopped, store>>
  BY Zenon DEF Request, FetchFails, Fetch, Fetched, pluginVars
<1>1. CASE Request(i, k)
  <2> DEFINE w == [pc |-> "sent", sent |-> loaders[i].etag, ans |-> None]
  <2>1. w.pc = "sent" /\ work' = [work EXCEPT ![i][k] = w]
    BY Zenon, <1>1 DEF Request
  <2> HIDE DEF w
  <2>2. /\ work'[i][k] = w
        /\ \A l \in Kinds : l # k => work'[i][l] = work[i][l]
        /\ \A j \in Ids : j # i => work'[j] = work[j]
    BY <2>1, SetsWork, Zenon DEF IInv
  <2>3. \A j \in LoadersOf(n) : \/ work'[j]["loop"] = work[j]["loop"]
                                \/ work'[j]["loop"].pc # "got"
    BY Zenon, <2>1, <2>2 DEF LoadersOf, Kinds
  <2> QED BY Zenon, <1>0, <2>3, NoAnswer
<1>2. ASSUME NEW ans, Fetched(i, k, ans), work[i][k].pc = "sent",
             i[1] = n /\ ans.type \in Updates =>
                ans.b = ans.etag /\ (Deltas = {} => ans.type # "delta"),
             ans.type = "delta" => ans.base = work[i][k].sent
      PROVE  SInv(n)'
  <2>1. CASE i[1] # n
    <3>1. \A j \in Ids : j # i => work'[j] = work[j]
      BY <1>2, FetchedSets, Zenon DEF IInv, EInv
    <3>2. \A j \in LoadersOf(n) : work'[j]["loop"] = work[j]["loop"]
      BY Zenon, <2>1, <3>1 DEF LoadersOf
    <3> QED BY Zenon, <1>0, <3>2, NoAnswer
  <2>2. CASE i[1] = n
    <3>1. i \in LoadersOf(n)
      BY Zenon, <2>2 DEF LoadersOf
    <3>2. k = "loop"
      BY Zenon, <1>2, <3>1 DEF EInv, OneLoop, Works
    <3> QED BY Zenon, <1>2, <2>2, <3>1, <3>2, AnswerNamed
  <2> QED BY Zenon, <2>1, <2>2
<1>3. CASE FetchFails(i, k)
  <2> DEFINE ans == [type |-> "error", b |-> None, base |-> None, etag |-> None]
  <2>1. Fetched(i, k, ans) /\ work[i][k].pc = "sent" /\ ans.type = "error"
    BY Zenon, <1>3 DEF FetchFails
  <2> HIDE DEF ans
  <2> QED BY Zenon, <1>2, <2>1 DEF Updates
<1>4. CASE Fetch(i, k)
  <2> DEFINE b == Latest(loaders[i].src.svc)
             e == IF loaders[i].src.mode = "file" THEN None ELSE b
  <2>1. work[i][k].pc = "sent" /\ (i[1] = n => e = b)
    BY Zenon, <1>4 DEF Fetch, EInv, OneLoop, Works, LoadersOf
  <2> HIDE DEF b, e
  <2>2. CASE Fetched(i, k, [type |-> "snapshot", b |-> b, base |-> None, etag |-> e])
    BY Zenon, <1>2, <2>1, <2>2
  <2>3. CASE /\ b \in Deltas
             /\ Fetched(i, k, [type |-> "delta", b |-> b, base |-> work[i][k].sent, etag |-> e])
    BY Zenon, <1>2, <2>1, <2>3
  <2>4. ASSUME NEW x, Fetched(i, k, [type |-> "same", b |-> None, base |-> None, etag |-> x])
        PROVE  SInv(n)'
    BY Zenon, <1>2, <2>1, <2>4 DEF Updates
  <2> QED BY <1>4, <2>2, <2>3, <2>4, ZenonT(60) DEF Fetch, b, e
<1> QED BY Zenon, <1>1, <1>3, <1>4

\* What an activation of a bundle under its own ETag leaves in the store, unless it is a
\* delta to something else.
LEMMA ActivatedRev ==
  ASSUME IInv, NEW i \in Ids, NEW k \in Kinds, store' = Activated(i, k),
         work[i][k].ans.type = "delta" => store[i[1]].rev = work[i][k].ans.base
  PROVE  store'[i[1]].rev = work[i][k].ans.b
<1> DEFINE ans == work[i][k].ans
           rev == IF ans.type = "delta" /\ store[i[1]].rev # ans.base THEN Mixed ELSE ans.b
<1>1. store' = [store EXCEPT ![i[1]] = [rev |-> rev, etag |-> ans.etag]] /\ i[1] \in Names
  BY Zenon DEF Activated, Ids
<1>2. rev = ans.b
  BY Zenon
<1> HIDE DEF rev, ans
<1> QED BY <1>1, <1>2 DEF IInv, Shapes, ans

\* A callback, for n or for another bundle.
LEMMA CallbackTrue ==
  ASSUME NEW n \in Names, NotPersisted(n), IInv, EInv(n), SInv(n), NEW i \in Ids, NEW k \in Kinds,
         Process(i, k)
  PROVE  SInv(n)'
<1> DEFINE ans == work[i][k].ans
<1>0. Done(i, k) /\ UNCHANGED <<downloaders, stopped>> /\ work[i][k].pc = "got"
  BY Zenon DEF Process, ProcessPanics, ProcessError, ActivationFails, PersistFails, ProcessActivated,
              ProcessNotModified, Activates, Called, Fail, pluginVars
<1>1. n \in DOMAIN downloaders => n \in DOMAIN status
  BY Zenon DEF IInv, Books, EInv, Surroundings
<1>2. \A j \in LoadersOf(n) : \/ work'[j]["loop"] = work[j]["loop"]
                              \/ work'[j]["loop"].pc # "got"
  <2>1. PICK w : /\ work' = [work EXCEPT ![i][k] = w]
                 /\ w \in {Unborn, [Unborn EXCEPT !.pc = "over"]}
    BY <1>0, Zenon DEF Done
  <2>2. w.pc # "got"
    BY <2>1 DEF Unborn
  <2>3. /\ work'[i][k] = w
        /\ \A l \in Kinds : l # k => work'[i][l] = work[i][l]
        /\ \A j \in Ids : j # i => work'[j] = work[j]
    BY <2>1, SetsWork, Zenon DEF IInv
  <2> QED BY Zenon, <2>2, <2>3 DEF LoadersOf, Kinds
<1>3. ASSUME store'[n] = store[n],
             n \in DOMAIN downloaders =>
                /\ etags'[n] = etags[n]
                /\ status'[n].activated = status[n].activated /\ status'[n].rev = status[n].rev
      PROVE  SInv(n)'
  BY Zenon, <1>0, <1>2, <1>3, NoAnswer
<1>4. ASSUME NEW err, status' = [status EXCEPT ![i[1]].err = err], i[1] \in DOMAIN status,
             etags' = etags, store'[n] = store[n]
      PROVE  SInv(n)'
  BY Zenon, <1>1, <1>3, <1>4, ErrorOnly
<1>5. CASE ProcessPanics(i, k)
  BY Zenon, <1>3, <1>5 DEF ProcessPanics, pluginVars
<1>6. CASE ProcessError(i, k) \/ ActivationFails(i, k)
  BY <1>4, <1>6, Zenon DEF ProcessError, ActivationFails, Called, Fail
<1>7. CASE ProcessNotModified(i, k)
  <2>1. UNCHANGED <<etags, store>> /\ i[1] \in DOMAIN status
    BY Zenon, <1>7 DEF ProcessNotModified, Called
  <2> QED BY <1>3, <1>4, <1>7, <2>1, Zenon DEF ProcessNotModified
<1>8. CASE PersistFails(i, k)
  <2>1. i[1] # n
    BY Zenon, <1>8 DEF PersistFails, Persists, NotPersisted, EInv, Surroundings, IInv, Shapes
  <2>2. store'[n] = store[n]
    BY Zenon, <1>8, <2>1, ActivatedEtag DEF PersistFails
  <2> QED BY <1>4, <1>8, <2>2, Zenon DEF PersistFails, Fail, Activates, Called
<1>9. CASE ProcessActivated(i, k)
  <2>1. /\ store' = Activated(i, k) /\ i[1] \in DOMAIN status /\ ans.type \in Updates
        /\ status' = [status EXCEPT ![i[1]] = [rev |-> ans.b, activated |-> TRUE, err |-> "none"]]
        /\ etags' = [m \in DOMAIN etags \cup {i[1]} |-> IF m = i[1] THEN ans.etag ELSE etags[m]]
    BY <1>9, Zenon DEF ProcessActivated, Activates, Called, Updates
  <2>2. CASE i[1] # n
    <3>1. store'[n] = store[n]
      BY Zenon, <2>1, <2>2, ActivatedEtag
    <3>2. n \in DOMAIN downloaders => etags'[n] = etags[n] /\ status'[n] = status[n]
      BY Zenon, <1>1, <2>1, <2>2 DEF IInv, Shapes, EInv, Matches, Agree
    <3> QED BY Zenon, <1>3, <3>1, <3>2
  <2>3. CASE i[1] = n
    <3>1. i \in LoadersOf(n)
      BY Zenon, <2>3 DEF LoadersOf
    <3>2. k = "loop"
      BY Zenon, <1>0, <3>1 DEF EInv, OneLoop, Works
    <3>3. Named(work[i]["loop"])
      BY Zenon, <3>1 DEF SInv
    <3>4. ans.b = ans.etag /\ (Deltas = {} => ans.type # "delta")
      BY Zenon, <1>0, <2>1, <3>2, <3>3 DEF Named
    <3>5. n \in DOMAIN downloaders => i = Current(n) /\ TrueToStore(n)
      BY Zenon, <1>0, <3>1, <3>2, OnlyCurrentWorks DEF SInv
    <3>6. ~stopped => n \in DOMAIN downloaders
      BY Zenon, <2>1, <2>3 DEF IInv, Books
    <3>7. ~stopped \/ Deltas = {} => (ans.type = "delta" => store[n].rev = ans.base)
      BY Zenon, <1>0, <3>2, <3>4, <3>5, <3>6 DEF SInv, TrueToStore
    <3>8. store'[n].etag = ans.etag /\ (~stopped \/ Deltas = {} => store'[n].rev = ans.b)
      BY Zenon, <2>1, <2>3, <3>7, ActivatedEtag, ActivatedRev
    <3>9. etags'[n] = ans.etag /\ status'[n].rev = ans.b
      BY Zenon, <2>1, <2>3 DEF IInv, Shapes
    <3> HIDE DEF ans
    <3>10. \A j \in LoadersOf(n) : Named(work[j]["loop"])'
      BY Zenon, <1>2 DEF SInv, Named
    <3>11. ASSUME n \in DOMAIN downloaders
           PROVE  TrueToStore(n)'
      <4>1. Current(n)' = i /\ ~stopped
        BY Zenon, <1>0, <3>5, <3>11 DEF Current, EInv, Surroundings
      <4>2. work'[i]["loop"].pc = "idle"
        BY <1>0, <3>1, <3>2, DoneSets DEF EInv, OneLoop, Works, Unborn
      <4> QED BY Zenon, <3>8, <3>9, <4>1, <4>2 DEF TrueToStore
    <3> QED BY Zenon, <1>0, <3>4, <3>8, <3>10, <3>11 DEF SInv, LoadersOf
  <2> QED BY Zenon, <2>2, <2>3
<1> QED BY Zenon, <1>5, <1>6, <1>7, <1>8, <1>9 DEF Process

\* The second half of Reconfigure.
LEMMA ReconfigureAppliesTrue ==
  ASSUME NEW n \in Names, OnlyPolled(n), IInv, EInv(n), SInv(n), ReconfigureApplies
  PROVE  SInv(n)'
<1> DEFINE start == reconf.new \cup reconf.updated
           gone == reconf.deleted \cap DOMAIN downloaders
<1>0. /\ store'[n] = IF n \in reconf.deleted THEN Empty ELSE store[n]
      /\ UNCHANGED <<env, config, stopped>>
  BY Zenon DEF ReconfigureApplies, Deactivated
<1>1. ~stopped' \/ Deltas = {} => store'[n].rev = store'[n].etag
  BY <1>0 DEF SInv, Empty
<1>2. CASE stopped /\ start # {}
  <2>1. UNCHANGED <<work, downloaders>> /\ n \notin DOMAIN downloaders
    BY Zenon, <1>2 DEF ReconfigureApplies, loaderVars, EInv, Surroundings
  <2> QED BY Zenon, <1>1, <2>1 DEF SInv, LoadersOf, Named
<1>3. CASE ~(stopped /\ start # {})
  <2>1. /\ status' = [m \in (DOMAIN status \ gone) \cup reconf.new |->
                        IF m \in reconf.new THEN NewStatus ELSE status[m]]
        /\ etags' = [m \in (DOMAIN etags \ gone) \cup start |->
                        IF m \in start THEN store[m].etag ELSE etags[m]]
        /\ downloaders' = [m \in (DOMAIN downloaders \ gone) \cup start |->
                        IF m \in start THEN created[m] + 1 ELSE downloaders[m]]
        /\ work' = [i \in Ids |-> IF i[1] \in start /\ i[2] = created[i[1]] + 1
                                  THEN NewWork(config[i[1]]) ELSE work[i]]
    BY Zenon, <1>3 DEF ReconfigureApplies
  <2>2. ASSUME n \in start
        PROVE  ~stopped /\ NewWork(config[n]) = [k \in Kinds |-> Unborn]
    <3>1. ~stopped /\ n \in DOMAIN config
      BY Zenon, <1>3, <2>2 DEF IInv, Books
    <3>2. NewWork(config[n]) = [k \in Kinds |-> Unborn]
      BY <3>1, NewLoaderSets, Zenon DEF EInv, Surroundings, IInv, Shapes
    <3> QED BY Zenon, <3>1, <3>2
  <2>3. \A i \in LoadersOf(n) : \/ work'[i] = work[i]
                                \/ work'[i]["loop"].pc = "idle"
    BY <2>1, <2>2 DEF LoadersOf, Unborn, Kinds
  <2>4. \A i \in LoadersOf(n) : Named(work[i]["loop"])'
    BY Zenon, <2>3 DEF SInv, Named
  <2>5. ASSUME n \in DOMAIN downloaders'
        PROVE  TrueToStore(n)'
    <3>1. CASE n \in start
      <4>1. ~stopped /\ n \notin reconf.deleted
        BY Zenon, <2>2, <3>1 DEF IInv, Books
      <4>2. store'[n] = store[n] /\ etags'[n] = store[n].etag
        BY Zenon, <1>0, <2>1, <3>1, <4>1
      <4>3. status'[n].activated => status'[n].rev = store'[n].rev
        <5>1. CASE n \in reconf.new
          BY Zenon, <2>1, <5>1 DEF NewStatus
        <5>2. CASE n \notin reconf.new
          <6>1. n \in DOMAIN status /\ n \in DOMAIN downloaders
            BY Zenon, <3>1, <4>1, <5>2 DEF IInv, Books
          <6>2. status'[n] = status[n]
            BY Zenon, <2>1, <4>1, <5>2, <6>1
          <6> QED BY Zenon, <4>2, <6>1, <6>2 DEF SInv, TrueToStore
        <5> QED BY Zenon, <5>1, <5>2
      <4>4. work'[Current(n)']["loop"].pc = "idle"
        <5>1. Current(n)' = <<n, created[n] + 1>> /\ created[n] + 1 \in 1..MaxLoaders
          BY SMTT(60), <2>1, <2>5, <3>1, LoadersValid DEF Current, EInv, Replaced
        <5>2. work'[<<n, created[n] + 1>>] = NewWork(config[n])
          BY Zenon, <2>1, <3>1, <5>1 DEF Ids
        <5> QED BY SMTT(60), <2>2, <3>1, <5>1, <5>2 DEF Unborn, Kinds
      <4> QED BY Zenon, <4>2, <4>3, <4>4 DEF TrueToStore
    <3>2. CASE n \notin start
      <4>1. n \in DOMAIN downloaders /\ n \notin reconf.deleted /\ n \notin gone
        BY Zenon, <2>1, <2>5, <3>2
      <4>2. n \in DOMAIN status /\ n \in DOMAIN etags /\ TrueToStore(n) /\ Current(n) \in LoadersOf(n)
        BY Zenon, <4>1, CurrentLoader DEF IInv, Books, EInv, Surroundings, Matches, Agree, SInv
      <4>3. /\ store'[n] = store[n] /\ etags'[n] = etags[n] /\ status'[n] = status[n]
            /\ Current(n)' = Current(n)
        BY Zenon, <1>0, <2>1, <3>2, <4>1, <4>2 DEF Current
      <4>4. work'[Current(n)] = work[Current(n)]
        BY Zenon, <2>1, <3>2, <4>2 DEF LoadersOf
      <4> HIDE DEF Current
      <4> QED BY Zenon, <4>2, <4>3, <4>4 DEF TrueToStore
    <3> QED BY Zenon, <3>1, <3>2
  <2> QED BY Zenon, <1>1, <2>4, <2>5 DEF SInv, LoadersOf
<1> QED BY Zenon, <1>2, <1>3

\* A process starts with the bundle it finds in the store, and has not activated it.
LEMMA InitTrue ==
  ASSUME NEW n \in Names, OnlyPolled(n), NotPersisted(n), Init
  PROVE  SInv(n)
<1>1. env \in Deployments /\ store[n] = Empty /\ work = BootWork
      /\ downloaders = [m \in DOMAIN env.boot |-> 1] /\ etags = [m \in DOMAIN env.boot |-> None]
  BY Zenon DEF Init
<1>2. \A i \in LoadersOf(n) : work[i]["loop"].pc = "idle"
  BY Zenon, <1>1, BootLoadersSet DEF Kinds
<1>3. ASSUME n \in DOMAIN downloaders
      PROVE  TrueToStore(n)
  <2>1. ~env.boot[n].persist
    BY Zenon, <1>1, <1>3 DEF NotPersisted, Configs
  <2>2. status[n] = NewStatus
    BY <1>1, <1>3, <2>1, Zenon DEF Init, BootStatus, Loaded
  <2>3. Current(n) \in LoadersOf(n)
    BY SMTT(60), <1>1, <1>3, LoadersValid DEF Current, LoadersOf, Ids
  <2> QED BY <1>1, <1>2, <1>3, <2>2, <2>3 DEF TrueToStore, NewStatus, Empty
<1> QED BY <1>1, <1>2, <1>3 DEF SInv, Named, Empty

\* A restart reports nothing yet, and a durable store keeps the bundle it had.
LEMMA DiesTrue ==
  ASSUME NEW n \in Names, OnlyPolled(n), NotPersisted(n), BasesKnown, IInv, EInv(n), SInv(n),
         NEW s, s[n] = store[n], Dies(s)
  PROVE  SInv(n)'
<1>1. env \in Deployments /\ work' = BootWork
      /\ downloaders' = [m \in DOMAIN env.boot |-> 1]
      /\ etags' = [m \in DOMAIN env.boot |-> store'[m].etag]
      /\ status' = BootStatus(disk)
  BY Zenon DEF Dies, IInv, Shapes
<1>2. \A i \in LoadersOf(n) : work'[i]["loop"].pc = "idle"
  BY Zenon, <1>1, BootLoadersSet DEF Kinds
<1>3. n \in DOMAIN env.boot => ~env.boot[n].persist
  BY Zenon, <1>1 DEF NotPersisted, Configs
<1>4. store'[n] = IF env.durable THEN store[n] ELSE Empty
  BY Zenon, <1>3 DEF Dies, FromDisk
<1>5. store'[n].rev = store'[n].etag
  BY SMTT(60), <1>1, <1>4 DEF BasesKnown, SInv, Empty
<1>6. ASSUME n \in DOMAIN downloaders'
      PROVE  TrueToStore(n)'
  <2>1. status'[n] = NewStatus
    BY <1>1, <1>3, <1>6, Zenon DEF BootStatus, Loaded
  <2>2. Current(n)' \in LoadersOf(n)
    BY <1>1, <1>6, LoadersValid DEF Current, LoadersOf, Ids
  <2> QED BY <1>1, <1>2, <1>6, <2>1, <2>2 DEF TrueToStore, NewStatus
<1> QED BY Zenon, <1>2, <1>5, <1>6 DEF SInv, Named, LoadersOf

\* The crash before the save is one of a bundle that is persisted.
LEMMA CrashTrue ==
  ASSUME NEW n \in Names, OnlyPolled(n), NotPersisted(n), BasesKnown, IInv, EInv(n), SInv(n),
         Crash \/ \E i \in Ids, k \in Kinds : CrashUnsaved(i, k)
  PROVE  SInv(n)'
<1>1. CASE Crash
  BY Zenon, <1>1, DiesTrue DEF Crash
<1>2. ASSUME NEW i \in Ids, NEW k \in Kinds, CrashUnsaved(i, k)
      PROVE  SInv(n)'
  <2>1. Dies(Activated(i, k)) /\ Persists(i, k)
    BY Zenon, <1>2 DEF CrashUnsaved
  <2>2. i[1] # n
    BY Zenon, <2>1 DEF Persists, NotPersisted, EInv, Surroundings, IInv, Shapes
  <2>3. Activated(i, k)[n] = store[n]
    BY Zenon, <2>2, ActivatedEtag
  <2> QED BY Zenon, <2>1, <2>3, DiesTrue
<1> QED BY Zenon, <1>1, <1>2

-----------------------------------------------------------------------------
\* The invariant of the bundles that are only polled and not persisted.
UnpersistedInv == \A n \in Names : OnlyPolled(n) /\ NotPersisted(n) => SInv(n)

\* Every step keeps it.
THEOREM UnpersistedInductive == BasesKnown /\ Spec => []UnpersistedInv
<1>1. Init => UnpersistedInv
  BY Zenon, InitTrue DEF UnpersistedInv
<1>2. BasesKnown /\ IInv /\ PolledInv /\ UnpersistedInv /\ [Next]_vars => UnpersistedInv'
  <2> SUFFICES ASSUME BasesKnown, IInv, [Next]_vars, NEW n \in Names, OnlyPolled(n), NotPersisted(n),
                      EInv(n), SInv(n)
               PROVE  SInv(n)'
    BY Zenon DEF UnpersistedInv, PolledInv
  <2>0. ASSUME UNCHANGED <<status, etags, downloaders, store>>, stopped' = stopped,
               \A i \in LoadersOf(n) : \/ work'[i]["loop"] = work[i]["loop"]
                                       \/ work'[i]["loop"].pc # "got"
        PROVE  SInv(n)'
    BY Zenon, <2>0, NoAnswer
  <2>1. CASE \E i \in Ids, k \in Kinds :
                Request(i, k) \/ FetchFails(i, k) \/ Fetch(i, k) \/ Process(i, k)
    BY <2>1, DownloadTrue, CallbackTrue, Zenon
  <2>2. CASE ReconfigureApplies \/ Crash \/ \E i \in Ids, k \in Kinds : CrashUnsaved(i, k)
    BY Zenon, <2>2, ReconfigureAppliesTrue, CrashTrue
  <2>3. CASE \E m \in Names, c \in env.callers : Trigger(m, c)
    <3>1. PICK m \in Names, c \in env.callers : Trigger(m, c)
      BY Zenon, <2>3
    <3>2. \A i \in LoadersOf(n) : i # Current(m) /\ i \in Ids
      BY <3>1 DEF Trigger, OnlyPolled, LoadersOf, Current
    <3>3. \A i \in LoadersOf(n) : work'[i] = work[i]
      BY Zenon, <3>1, <3>2 DEF Trigger, IInv, Delivered
    <3> QED BY Zenon, <2>0, <3>1, <3>3 DEF Trigger, pluginVars
  <2>4. CASE StopCalled
    <3>1. /\ stopped' /\ DOMAIN downloaders' = {} /\ UNCHANGED <<work, store>>
      BY <2>4 DEF StopCalled, loaderVars
    <3> QED BY Zenon, <3>1, NoAnswer
  <2>5. CASE \/ \E i \in Ids : LoopReturns(i) \/ StopperStops(i) \/ ReconfigureStops(i)
             \/ StopperGoesOn \/ ReconfigureGoesOn
             \/ \E conf \in env.configs : ReconfigureCalled(conf)
             \/ \E s \in Services : Publish(s)
             \/ UNCHANGED vars
    <3>1. UNCHANGED <<status, etags, downloaders, stopped, work, store>>
      BY <2>5, Zenon DEF LoopReturns, StopperStops, ReconfigureStops, StopperGoesOn, ReconfigureGoesOn,
                     ReconfigureCalled, Publish, vars, pluginVars, loaderVars
    <3> QED BY Zenon, <2>0, <3>1
  <2> QED BY <2>1, <2>2, <2>3, <2>4, <2>5, Zenon DEF Next
<1>3. BasesKnown => BasesKnown'
  BY Zenon DEF BasesKnown
<1> QED BY <1>1, <1>2, <1>3, PolledInductive, PTL DEF Spec

\* Where every bundle is only polled and none is persisted, the revision in a status is
\* the one in the store, whatever fails to download or to compile (process, activate).
THEOREM StatusesAreTrue ==
  BasesKnown /\ (\A n \in Names : OnlyPolled(n) /\ NotPersisted(n)) /\ Spec => []StatusIsTrue
<1> DEFINE All == \A n \in Names : OnlyPolled(n) /\ NotPersisted(n)
<1>1. All /\ IInv /\ UnpersistedInv => StatusIsTrue
  <2> SUFFICES ASSUME IInv, NEW n \in Names, SInv(n), ~stopped, n \in DOMAIN status,
                      status[n].activated
               PROVE  store[n].rev = status[n].rev
    BY Zenon DEF UnpersistedInv, StatusIsTrue, StatusTrue
  <2> QED BY Zenon DEF IInv, Books, SInv, TrueToStore
<1>2. All => All'
  BY Zenon DEF OnlyPolled, NotPersisted, Configs
<1> QED BY <1>1, <1>2, UnpersistedInductive, Inductive, PTL
=============================================================================

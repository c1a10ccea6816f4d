----------------------------- MODULE InmemStore -----------------------------
(***************************************************************************)
(* The in-memory store, storage/inmem: its two locks, the life of a        *)
(* transaction, policy modules, top-level documents and commit triggers.   *)
(*                                                                         *)
(* A client is a goroutine that runs one transaction after another.  A     *)
(* document path has one segment here; module InmemTxn has the update      *)
(* list for paths of any length.  A policy's text is an opaque value.      *)
(***************************************************************************)
EXTENDS Naturals, FiniteSets

CONSTANTS Clients,
          Paths,      \* one-segment paths of base documents
          Policies,   \* policy module ids
          Values,     \* documents and policy texts
          Handles,    \* trigger handles
          None,       \* no lock holder, no value, no snapshot
          Untouched,  \* the transaction has no pending update of an entry
          Removed     \* the pending update removes the entry

ASSUME ConstantsDistinct ==
    /\ None \notin Values \cup Clients
    /\ Untouched \notin Values \cup {None, Removed}
    /\ Removed \notin Values \cup {None}
    /\ Paths \cap Policies = {}

VARIABLES pc,         \* where each client is in a store call
          updates,    \* transaction.updates: at most one update per path
          polUpdates, \* transaction.policies
          wmu,        \* store.wmu: its holder
          readers,    \* store.rmu: the clients that hold it shared
          rwriter,    \* store.rmu: the client that holds it, or waits for it, exclusively
          data,       \* store.data
          policies,   \* store.policies
          triggers,   \* store.triggers
          todo,       \* the triggers runOnCommitTriggers has yet to call
          seen        \* the store's contents each trigger saw when last called

txnVars == <<updates, polUpdates>>
lockVars == <<wmu, readers, rwriter>>
dbVars == <<data, policies>>
triggerVars == <<triggers, todo, seen>>
vars == <<pc, txnVars, lockVars, dbVars, triggerVars>>

\* "wwait", "rwait": blocked in NewTransaction.  "writing", "reading": a
\* transaction is open, with transaction.write set or not.  "commit": blocked
\* in rmu.Lock.  "notify": running the triggers with both locks held.
\* "release": between rmu.Unlock and wmu.Unlock.
Locations ==
    {"idle", "wwait", "rwait", "writing", "reading", "commit", "notify", "release"}

Pending == Values \cup {Untouched, Removed}
Entries == Values \cup {None}
PatchOps == {"add", "remove", "replace"}

NoUpdates == [p \in Paths |-> Untouched]
NoPolUpdates == [id \in Policies |-> Untouched]

-----------------------------------------------------------------------------
\* The entry that results from a pending update on a stored one.
Overlay(pending, stored) ==
    IF pending = Untouched THEN stored
    ELSE IF pending = Removed THEN None ELSE pending

\* Client c has a transaction open that it may use.
Open(c) == pc[c] \in {"reading", "writing"}

\* What transaction.Read and transaction.GetPolicy return to client c.
Read(c) == [p \in Paths |-> Overlay(updates[c][p], data[p])]
GetPolicy(c) == [id \in Policies |-> Overlay(polUpdates[c][id], policies[id])]
View(c) == <<Read(c), GetPolicy(c)>>

-----------------------------------------------------------------------------
Init ==
    /\ pc = [c \in Clients |-> "idle"]
    /\ updates = [c \in Clients |-> NoUpdates]
    /\ polUpdates = [c \in Clients |-> NoPolUpdates]
    /\ wmu = None
    /\ readers = {}
    /\ rwriter = None
    /\ data = [p \in Paths |-> None]
    /\ policies = [id \in Policies |-> None]
    /\ triggers = {}
    /\ todo = {}
    /\ seen = [h \in Handles |-> None]

\* newTransaction: a transaction with no pending updates.  The one that Commit or
\* Abort ends keeps its updates in the code, but is marked stale and refused from
\* then on, and the next one is new; the model forgets those updates at once, so
\* that a client without a transaction always has none.
FreshTxn(c) ==
    /\ updates' = [updates EXCEPT ![c] = NoUpdates]
    /\ polUpdates' = [polUpdates EXCEPT ![c] = NoPolUpdates]

\* NewTransaction with Write set: wmu.Lock.
NewWriteTransaction(c) ==
    /\ pc[c] = "idle"
    /\ FreshTxn(c)
    /\ \/ /\ wmu = None
          /\ wmu' = c
          /\ pc' = [pc EXCEPT ![c] = "writing"]
       \/ /\ wmu # None
          /\ pc' = [pc EXCEPT ![c] = "wwait"]
          /\ UNCHANGED wmu
    /\ UNCHANGED <<readers, rwriter, dbVars, triggerVars>>

\* A blocked wmu.Lock returns.
AcquireWmu(c) ==
    /\ pc[c] = "wwait"
    /\ wmu = None
    /\ wmu' = c
    /\ pc' = [pc EXCEPT ![c] = "writing"]
    /\ UNCHANGED <<txnVars, readers, rwriter, dbVars, triggerVars>>

\* Mutant: readers wait for a writer that holds rmu, not for one that waits.
NewReadTransactionBarges(c) ==
    /\ pc[c] = "idle"
    /\ FreshTxn(c)
    /\ \/ /\ \A d \in Clients : pc[d] # "notify"
          /\ readers' = readers \cup {c}
          /\ pc' = [pc EXCEPT ![c] = "reading"]
       \/ /\ \E d \in Clients : pc[d] = "notify"
          /\ pc' = [pc EXCEPT ![c] = "rwait"]
          /\ UNCHANGED readers
    /\ UNCHANGED <<wmu, rwriter, dbVars, triggerVars>>

\* NewTransaction without Write: rmu.RLock, which blocks behind a writer that
\* holds rmu and also behind one that waits for it.
NewReadTransaction(c) ==
    /\ pc[c] = "idle"
    /\ FreshTxn(c)
    /\ \/ /\ rwriter = None
          /\ readers' = readers \cup {c}
          /\ pc' = [pc EXCEPT ![c] = "reading"]
       \/ /\ rwriter # None
          /\ pc' = [pc EXCEPT ![c] = "rwait"]
          /\ UNCHANGED readers
    /\ UNCHANGED <<wmu, rwriter, dbVars, triggerVars>>

-----------------------------------------------------------------------------
\* Operations of an open write transaction.  In a read transaction each of
\* them returns an error and changes nothing.
Writing(c) == pc[c] = "writing"

\* Write drops the pending update of the path before it looks for the path in
\* the committed data, and leaves it dropped when that lookup fails.
Write(c, op, p, v) ==
    /\ Writing(c)
    /\ ~(updates[c][p] = Removed /\ op # "add")
    /\ updates' = [updates EXCEPT ![c][p] =
          IF op # "add" /\ data[p] = None THEN Untouched
          ELSE IF op = "remove" THEN Removed ELSE v]
    /\ UNCHANGED <<pc, polUpdates, lockVars, dbVars, triggerVars>>

\* Mutant: the policy is stored without waiting for the commit.
UpsertPolicyAtOnce(c, id, v) ==
    /\ Writing(c)
    /\ policies' = [policies EXCEPT ![id] = v]
    /\ UNCHANGED <<pc, updates, polUpdates, lockVars, data, triggerVars>>

UpsertPolicy(c, id, v) ==
    /\ Writing(c)
    /\ polUpdates' = [polUpdates EXCEPT ![c][id] = v]
    /\ UNCHANGED <<pc, updates, lockVars, dbVars, triggerVars>>

DeletePolicy(c, id) ==
    /\ Writing(c)
    /\ GetPolicy(c)[id] # None
    /\ polUpdates' = [polUpdates EXCEPT ![c][id] = Removed]
    /\ UNCHANGED <<pc, updates, lockVars, dbVars, triggerVars>>

\* Registration takes effect at once, also when the transaction aborts.
Register(c, h) ==
    /\ Writing(c)
    /\ h \notin triggers
    /\ triggers' = triggers \cup {h}
    /\ seen' = [seen EXCEPT ![h] = None]
    /\ UNCHANGED <<pc, txnVars, lockVars, dbVars, todo>>

Unregister(c, h) ==
    /\ Writing(c)
    /\ triggers' = triggers \ {h}
    /\ UNCHANGED <<pc, txnVars, lockVars, dbVars, todo, seen>>

-----------------------------------------------------------------------------
\* Commit of a write transaction calls rmu.Lock; from here on new readers wait.
CommitLock(c) ==
    /\ Writing(c)
    /\ rwriter' = c
    /\ pc' = [pc EXCEPT ![c] = "commit"]
    /\ UNCHANGED <<txnVars, wmu, readers, dbVars, triggerVars>>

\* Mutant: the updates are applied without waiting for the readers.
CommitApplyEarly(c) ==
    /\ pc[c] = "commit"
    /\ data' = Read(c)
    /\ policies' = GetPolicy(c)
    /\ todo' = triggers
    /\ pc' = [pc EXCEPT ![c] = "notify"]
    /\ UNCHANGED <<txnVars, lockVars, triggers, seen>>

\* Mutant: a transaction without updates of data has nothing to commit.
CommitApplyIfData(c) ==
    /\ pc[c] = "commit"
    /\ readers = {}
    /\ data' = Read(c)
    /\ policies' = IF updates[c] = NoUpdates THEN policies ELSE GetPolicy(c)
    /\ todo' = triggers
    /\ pc' = [pc EXCEPT ![c] = "notify"]
    /\ UNCHANGED <<txnVars, lockVars, triggers, seen>>

\* rmu.Lock returns when the last reader has left; transaction.Commit then
\* moves the pending updates into the store.
CommitApply(c) ==
    /\ pc[c] = "commit"
    /\ readers = {}
    /\ data' = Read(c)
    /\ policies' = GetPolicy(c)
    /\ todo' = triggers
    /\ pc' = [pc EXCEPT ![c] = "notify"]
    /\ UNCHANGED <<txnVars, lockVars, triggers, seen>>

\* runOnCommitTriggers: one OnCommit callback, which reads with the
\* transaction that is committing.
RunOnCommitTrigger(c, h) ==
    /\ pc[c] = "notify"
    /\ h \in todo
    /\ todo' = todo \ {h}
    /\ seen' = [seen EXCEPT ![h] = View(c)]
    /\ UNCHANGED <<pc, txnVars, lockVars, dbVars, triggers>>

\* Mutant: rmu is unlocked before the triggers have run.
CommitUnlockEarly(c) ==
    /\ pc[c] = "notify"
    /\ rwriter' = None
    /\ readers' = {d \in Clients : pc[d] = "rwait"}
    /\ pc' = [d \in Clients |-> IF d = c THEN "release"
                                ELSE IF pc[d] = "rwait" THEN "reading" ELSE pc[d]]
    /\ UNCHANGED <<txnVars, wmu, dbVars, triggerVars>>

\* rmu.Unlock admits every reader that waits.
CommitUnlock(c) ==
    /\ pc[c] = "notify"
    /\ todo = {}
    /\ rwriter' = None
    /\ readers' = {d \in Clients : pc[d] = "rwait"}
    /\ pc' = [d \in Clients |-> IF d = c THEN "release"
                                ELSE IF pc[d] = "rwait" THEN "reading" ELSE pc[d]]
    /\ UNCHANGED <<txnVars, wmu, dbVars, triggerVars>>

\* The wmu.Unlock that ends Commit.
CommitRelease(c) ==
    /\ pc[c] = "release"
    /\ wmu' = None
    /\ pc' = [pc EXCEPT ![c] = "idle"]
    /\ FreshTxn(c)
    /\ UNCHANGED <<readers, rwriter, dbVars, triggerVars>>

\* Commit or Abort of a read transaction.
EndRead(c) ==
    /\ pc[c] = "reading"
    /\ readers' = readers \ {c}
    /\ pc' = [pc EXCEPT ![c] = "idle"]
    /\ FreshTxn(c)
    /\ UNCHANGED <<wmu, rwriter, dbVars, triggerVars>>

\* Abort of a write transaction.
Abort(c) ==
    /\ Writing(c)
    /\ wmu' = None
    /\ pc' = [pc EXCEPT ![c] = "idle"]
    /\ FreshTxn(c)
    /\ UNCHANGED <<readers, rwriter, dbVars, triggerVars>>

-----------------------------------------------------------------------------
Next ==
    \E c \in Clients :
        \/ NewWriteTransaction(c)
        \/ AcquireWmu(c)
        \/ NewReadTransaction(c)
        \/ \E op \in PatchOps, p \in Paths, v \in Values : Write(c, op, p, v)
        \/ \E id \in Policies, v \in Values : UpsertPolicy(c, id, v)
        \/ \E id \in Policies : DeletePolicy(c, id)
        \/ \E h \in Handles : Register(c, h)
        \/ \E h \in triggers : Unregister(c, h)
        \/ CommitLock(c)
        \/ CommitApply(c)
        \/ \E h \in Handles : RunOnCommitTrigger(c, h)
        \/ CommitUnlock(c)
        \/ CommitRelease(c)
        \/ EndRead(c)
        \/ Abort(c)

Spec == Init /\ [][Next]_vars

\* A transaction ends sooner or later (the clients' own queries and requests
\* terminate), callbacks return, and sync.Mutex does not starve a waiter.
Fairness ==
    \A c \in Clients :
        /\ WF_vars(EndRead(c))
        /\ WF_vars(CommitLock(c) \/ Abort(c))
        /\ WF_vars(CommitApply(c))
        /\ WF_vars(\E h \in Handles : RunOnCommitTrigger(c, h))
        /\ WF_vars(CommitUnlock(c))
        /\ WF_vars(CommitRelease(c))
        /\ SF_vars(AcquireWmu(c))

FairSpec == Spec /\ Fairness

-----------------------------------------------------------------------------
\* The variables hold values of their Go types.
TypeOK ==
    /\ pc \in [Clients -> Locations]
    /\ updates \in [Clients -> [Paths -> Pending]]
    /\ polUpdates \in [Clients -> [Policies -> Pending]]
    /\ wmu \in Clients \cup {None}
    /\ readers \in SUBSET Clients
    /\ rwriter \in Clients \cup {None}
    /\ data \in [Paths -> Entries]
    /\ policies \in [Policies -> Entries]
    /\ triggers \in SUBSET Handles
    /\ todo \in SUBSET Handles
    /\ seen \in [Handles -> {None} \cup ([Paths -> Entries] \X [Policies -> Entries])]

\* The locks say who may do what: wmu is held by exactly the write transaction
\* from NewTransaction to the end of Commit or Abort, rmu is held shared by
\* exactly the open read transactions, its exclusive side is asked for only by
\* the holder of wmu, and nobody reads while a commit is applied or notified.
LocksHeld ==
    /\ \A c \in Clients : wmu = c <=> pc[c] \in {"writing", "commit", "notify", "release"}
    /\ readers = {c \in Clients : pc[c] = "reading"}
    /\ \A c \in Clients : rwriter = c <=> pc[c] \in {"commit", "notify"}
    /\ (\E c \in Clients : pc[c] = "notify") => readers = {}

\* Pending updates belong to a write transaction; others have none.
OnlyWritersUpdate ==
    \A c \in Clients :
        wmu # c => updates[c] = NoUpdates /\ polUpdates[c] = NoPolUpdates

\* While anyone has a transaction open, every registered trigger has been
\* called for the contents that transaction sees: what the triggers derive
\* from the store (the compiler the manager keeps, for one) is never behind
\* the snapshot a query is evaluated on.  A trigger that has not been called
\* since it was registered has derived nothing yet.
TriggersBeforeClients ==
    (\E c \in Clients : Open(c)) =>
        \A h \in triggers : seen[h] \in {None, <<data, policies>>}

\* TriggersBeforeClients made inductive: outside a notification every trigger
\* is up to date or fresh; during one, those already called are up to date and
\* the committing transaction, with which the callbacks read, sees exactly the
\* committed contents.
TriggersCurrent ==
    /\ (\A c \in Clients : pc[c] # "notify") =>
          \A h \in triggers : seen[h] \in {None, <<data, policies>>}
    /\ \A c \in Clients : pc[c] = "notify" =>
          /\ \A h \in triggers \ todo : seen[h] = <<data, policies>>
          /\ View(c) = <<data, policies>>

\* The inductive invariant: the lock discipline, who has pending updates and
\* how far the notification of a commit has come determine each other.  The
\* triggers of a commit run before store.Commit unlocks anything, and read what
\* it has stored, data and policies alike (transaction.Commit).
IInv == LocksHeld /\ OnlyWritersUpdate /\ TriggersCurrent

ViewChangedByOwner ==
    \A c \in Clients : Open(c) /\ Open(c)' =>
        /\ \A p \in Paths :
              Read(c)'[p] # Read(c)[p] => Writing(c) /\ updates'[c][p] # updates[c][p]
        /\ \A id \in Policies :
              GetPolicy(c)'[id] # GetPolicy(c)[id]
                  => Writing(c) /\ polUpdates'[c][id] # polUpdates[c][id]

\* A transaction that stays open sees only its own changes: the view of a
\* reader never moves, and an entry of a writer's view moves only when the
\* writer itself updates that entry.
SnapshotStable == [][ViewChangedByOwner]_vars

\* A commit that waits for the readers is not overtaken by new ones for ever, and
\* whoever asks for a transaction gets one (wmu, rmu).
EveryoneServed ==
    \A c \in Clients :
        /\ pc[c] = "commit" ~> pc[c] = "idle"
        /\ pc[c] \in {"rwait", "wwait"} ~> Open(c)

-----------------------------------------------------------------------------
\* The store implements the abstract one: a transaction's view is the
\* committed contents with its pending updates laid over them.
Contents(d, p) == [k \in Paths \cup Policies |-> IF k \in Paths THEN d[k] ELSE p[k]]

Mode(c) ==
    IF pc[c] = "commit" \/ Writing(c) THEN "writing"
    ELSE IF pc[c] = "reading" THEN "reading"
    ELSE IF pc[c] = "notify" THEN "notifying" ELSE "none"

AbstractCommitted == Contents(data, policies)
AbstractMode == [c \in Clients |-> Mode(c)]
AbstractView ==
    [c \in Clients |-> IF Mode(c) = "none" THEN None ELSE Contents(Read(c), GetPolicy(c))]

Abstract == INSTANCE Store WITH
    Keys <- Paths \cup Policies,
    Absent <- None,
    NoView <- None,
    committed <- AbstractCommitted,
    mode <- AbstractMode,
    view <- AbstractView

\* Snapshots, atomic commits, rollback and triggers before visibility, as
\* storage.Store promises them.
ImplementsStore == Abstract!Spec

=============================================================================

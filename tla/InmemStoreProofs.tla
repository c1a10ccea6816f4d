-------------------------- MODULE InmemStoreProofs --------------------------
(***************************************************************************)
(* The inductive invariant of InmemStore, what follows from it, and that   *)
(* InmemStore implements Store, for any sets of clients, paths, policies,  *)
(* values and triggers.                                                    *)
(***************************************************************************)
EXTENDS InmemStore, TLAPS

\* Applying a pending update a second time changes nothing, which is why the
\* committing transaction still reads the committed contents in its triggers.
LEMMA OverlayIdempotent ==
    ASSUME NEW u \in Pending, NEW s \in Entries
    PROVE  /\ Overlay(u, s) \in Entries
           /\ Overlay(u, Overlay(u, s)) = Overlay(u, s)
  BY Zenon, ConstantsDistinct DEF Overlay, Pending, Entries

\* The view of any transaction is well typed, and laying the pending updates
\* over their own result gives that result again.
LEMMA ViewType ==
    ASSUME TypeOK, NEW c \in Clients
    PROVE  /\ Read(c) \in [Paths -> Entries]
           /\ GetPolicy(c) \in [Policies -> Entries]
  BY OverlayIdempotent DEF TypeOK, Read, GetPolicy

-----------------------------------------------------------------------------
\* A new store, NewWithOpts, satisfies the inductive invariant.
LEMMA InitInv == Init => TypeOK /\ IInv
  <1> SUFFICES ASSUME Init PROVE TypeOK /\ IInv
    OBVIOUS
  <1> USE ConstantsDistinct DEF Init
  <1>1. TypeOK
    BY Zenon DEF TypeOK, Locations, NoUpdates, NoPolUpdates, Pending, Entries
  <1>2. LocksHeld
    BY Zenon DEF LocksHeld, Writing
  <1>3. OnlyWritersUpdate
    BY Zenon DEF OnlyWritersUpdate
  <1>4. TriggersCurrent
    BY Zenon DEF TriggersCurrent
  <1> QED
    BY Zenon, <1>1, <1>2, <1>3, <1>4 DEF IInv

\* Every operation of the store keeps its variables well typed.
LEMMA TypeStep == TypeOK /\ [Next]_vars => TypeOK'
  <1> SUFFICES ASSUME TypeOK, [Next]_vars PROVE TypeOK'
    OBVIOUS
  <1> USE DEF txnVars, lockVars, dbVars, triggerVars
  <1>1. ASSUME NEW c \in Clients, NewWriteTransaction(c) PROVE TypeOK'
    BY <1>1, Zenon DEF TypeOK, NewWriteTransaction, FreshTxn, Locations, NoUpdates, NoPolUpdates, Pending
  <1>2. ASSUME NEW c \in Clients, AcquireWmu(c) PROVE TypeOK'
    BY Zenon, <1>2 DEF TypeOK, AcquireWmu, Locations
  <1>3. ASSUME NEW c \in Clients, NewReadTransaction(c) PROVE TypeOK'
    BY <1>3, Zenon
    DEF TypeOK, NewReadTransaction, FreshTxn, Locations, NoUpdates, NoPolUpdates, Pending
  <1>4. ASSUME NEW c \in Clients, NEW op \in PatchOps, NEW p \in Paths,
               NEW v \in Values, Write(c, op, p, v)
        PROVE  TypeOK'
    BY Zenon, <1>4 DEF TypeOK, Write, Pending
  <1>5. ASSUME NEW c \in Clients, NEW id \in Policies, NEW v \in Values,
               UpsertPolicy(c, id, v)
        PROVE  TypeOK'
    BY Zenon, <1>5 DEF TypeOK, UpsertPolicy, Pending
  <1>6. ASSUME NEW c \in Clients, NEW id \in Policies, DeletePolicy(c, id)
        PROVE  TypeOK'
    BY Zenon, <1>6 DEF TypeOK, DeletePolicy, Pending
  <1>7. ASSUME NEW c \in Clients, NEW h \in Handles, Register(c, h) PROVE TypeOK'
    BY Zenon, <1>7 DEF TypeOK, Register
  <1>8. ASSUME NEW c \in Clients, NEW h \in triggers, Unregister(c, h) PROVE TypeOK'
    BY Zenon, <1>8 DEF TypeOK, Unregister
  <1>9. ASSUME NEW c \in Clients, CommitLock(c) PROVE TypeOK'
    BY Zenon, <1>9 DEF TypeOK, CommitLock, Locations
  <1>10. ASSUME NEW c \in Clients, CommitApply(c) PROVE TypeOK'
    BY Zenon, <1>10, ViewType DEF TypeOK, CommitApply, Locations
  <1>11. ASSUME NEW c \in Clients, NEW h \in Handles, RunOnCommitTrigger(c, h)
         PROVE  TypeOK'
    BY Zenon, <1>11, ViewType DEF TypeOK, RunOnCommitTrigger, View
  <1>12. ASSUME NEW c \in Clients, CommitUnlock(c) PROVE TypeOK'
    BY Zenon, <1>12 DEF TypeOK, CommitUnlock, Locations
  <1>13. ASSUME NEW c \in Clients, CommitRelease(c) PROVE TypeOK'
    BY Zenon, <1>13 DEF TypeOK, CommitRelease, FreshTxn, Locations, NoUpdates, NoPolUpdates, Pending
  <1>14. ASSUME NEW c \in Clients, EndRead(c) PROVE TypeOK'
    BY Zenon, <1>14 DEF TypeOK, EndRead, FreshTxn, Locations, NoUpdates, NoPolUpdates, Pending
  <1>15. ASSUME NEW c \in Clients, Abort(c) PROVE TypeOK'
    BY Zenon, <1>15 DEF TypeOK, Abort, FreshTxn, Locations, NoUpdates, NoPolUpdates, Pending
  <1>16. CASE UNCHANGED vars
    BY Zenon, <1>16 DEF TypeOK, vars
  <1> QED
    BY Zenon, <1>1, <1>2, <1>3, <1>4, <1>5, <1>6, <1>7, <1>8, <1>9, <1>10, <1>11, <1>12,
       <1>13, <1>14, <1>15, <1>16 DEF Next

\* The locks stay with those who hold them.
LEMMA LocksStep == TypeOK /\ LocksHeld /\ [Next]_vars => LocksHeld'
  <1> SUFFICES ASSUME TypeOK, LocksHeld, [Next]_vars PROVE LocksHeld'
    OBVIOUS
  <1>1. /\ pc \in [Clients -> Locations]
        /\ wmu \in Clients \cup {None} /\ rwriter \in Clients \cup {None}
        /\ readers \subseteq Clients
        /\ None \notin Clients
    BY Zenon, ConstantsDistinct DEF TypeOK
  <1> USE <1>1 DEF LocksHeld
  \* The operations inside a transaction and the triggers touch no lock.
  <1>2. ASSUME UNCHANGED <<pc, lockVars>> PROVE LocksHeld'
    BY Zenon, <1>2 DEF lockVars
  <1>3. ASSUME NEW c \in Clients, NewWriteTransaction(c) PROVE LocksHeld'
    BY <1>3 DEF NewWriteTransaction
  <1>4. ASSUME NEW c \in Clients, AcquireWmu(c) PROVE LocksHeld'
    BY Zenon, <1>4 DEF AcquireWmu
  <1>5. ASSUME NEW c \in Clients, NewReadTransaction(c) PROVE LocksHeld'
    BY <1>5 DEF NewReadTransaction
  <1>6. ASSUME NEW c \in Clients, CommitLock(c) PROVE LocksHeld'
    BY Zenon, <1>6 DEF CommitLock, Writing
  <1>7. ASSUME NEW c \in Clients, CommitApply(c) PROVE LocksHeld'
    BY Zenon, <1>7 DEF CommitApply, lockVars
  <1>8. ASSUME NEW c \in Clients, CommitUnlock(c) PROVE LocksHeld'
    BY Zenon, <1>8 DEF CommitUnlock
  <1>9. ASSUME NEW c \in Clients, CommitRelease(c) PROVE LocksHeld'
    BY Zenon, <1>9 DEF CommitRelease
  <1>10. ASSUME NEW c \in Clients, EndRead(c) PROVE LocksHeld'
    BY Zenon, <1>10 DEF EndRead
  <1>11. ASSUME NEW c \in Clients, Abort(c) PROVE LocksHeld'
    BY Zenon, <1>11 DEF Abort, Writing
  <1> QED
    BY Zenon, <1>2, <1>3, <1>4, <1>5, <1>6, <1>7, <1>8, <1>9, <1>10, <1>11
    DEF Next, vars, Write, UpsertPolicy, DeletePolicy, Register, Unregister,
        RunOnCommitTrigger

\* Pending updates appear only in the transaction that holds wmu, and are
\* dropped with it.
LEMMA UpdatesStep ==
    TypeOK /\ LocksHeld /\ OnlyWritersUpdate /\ [Next]_vars => OnlyWritersUpdate'
  <1> SUFFICES ASSUME TypeOK, LocksHeld, OnlyWritersUpdate, [Next]_vars
               PROVE  OnlyWritersUpdate'
    OBVIOUS
  <1>1. /\ updates \in [Clients -> [Paths -> Pending]]
        /\ polUpdates \in [Clients -> [Policies -> Pending]]
        /\ None \notin Clients
    BY Zenon, ConstantsDistinct DEF TypeOK
  <1>2. \A c \in Clients : Writing(c) \/ pc[c] = "release" => wmu = c
    BY Zenon DEF LocksHeld, Writing
  <1> USE <1>1, <1>2 DEF OnlyWritersUpdate
  \* Starting and ending a transaction leaves the client without updates.
  <1>3. ASSUME NEW c \in Clients, FreshTxn(c),
               \A d \in Clients \ {c} : wmu' # d => wmu # d
        PROVE  OnlyWritersUpdate'
    BY Zenon, <1>3 DEF FreshTxn
  <1>4. ASSUME NEW c \in Clients,
               \/ NewWriteTransaction(c) \/ NewReadTransaction(c)
               \/ CommitRelease(c) \/ EndRead(c) \/ Abort(c)
        PROVE  OnlyWritersUpdate'
    <2>1. FreshTxn(c)
      BY Zenon, <1>4 DEF NewWriteTransaction, NewReadTransaction, CommitRelease, EndRead, Abort
    <2>2. \A d \in Clients \ {c} : wmu' # d => wmu # d
      BY Zenon, <1>4 DEF NewWriteTransaction, NewReadTransaction, CommitRelease, EndRead, Abort
    <2> QED
      BY Zenon, <1>3, <2>1, <2>2
  <1>5. ASSUME NEW c \in Clients,
               \/ \E op \in PatchOps, p \in Paths, v \in Values : Write(c, op, p, v)
               \/ \E id \in Policies, v \in Values : UpsertPolicy(c, id, v)
               \/ \E id \in Policies : DeletePolicy(c, id)
        PROVE  OnlyWritersUpdate'
    <2>1. wmu = c /\ wmu' = wmu
      BY Zenon, <1>5 DEF Write, UpsertPolicy, DeletePolicy, lockVars
    <2>2. \A d \in Clients \ {c} :
              updates'[d] = updates[d] /\ polUpdates'[d] = polUpdates[d]
      BY Zenon, <1>5 DEF Write, UpsertPolicy, DeletePolicy
    <2> QED
      BY Zenon, <2>1, <2>2
  <1>6. ASSUME UNCHANGED txnVars, wmu' = wmu \/ wmu = None PROVE OnlyWritersUpdate'
    BY <1>6 DEF txnVars
  <1> QED
    BY Zenon, <1>4, <1>5, <1>6
    DEF Next, vars, lockVars, AcquireWmu, Register, Unregister, CommitLock, CommitApply,
        RunOnCommitTrigger, CommitUnlock

\* A commit and an open transaction exclude each other: the committer holds
\* wmu, and waits for every reader before it applies its updates.
LEMMA CommitExcludesOpen ==
    ASSUME TypeOK, LocksHeld, NEW c \in Clients, NEW d \in Clients,
           \/ pc[c] = "notify"
           \/ pc[c] = "commit" /\ readers = {}
    PROVE  ~Open(d) /\ (d # c => pc[d] \notin {"commit", "notify", "release"})
  BY Zenon DEF TypeOK, LocksHeld, Open

\* The triggers stay in step with the committed contents.
LEMMA TriggersStep == TypeOK /\ IInv /\ [Next]_vars => TriggersCurrent'
  <1> SUFFICES ASSUME TypeOK, IInv, [Next]_vars PROVE TriggersCurrent'
    OBVIOUS
  <1> USE DEF IInv, txnVars, lockVars, dbVars, triggerVars
  \* Most operations leave alone everything the invariant speaks of.
  <1>1. ASSUME UNCHANGED <<triggerVars, dbVars>>,
               \A d \in Clients : pc[d] = "notify" <=> pc'[d] = "notify",
               \A d \in Clients : pc[d] = "notify" =>
                   updates'[d] = updates[d] /\ polUpdates'[d] = polUpdates[d]
        PROVE  TriggersCurrent'
    BY Zenon, <1>1 DEF TriggersCurrent, View, Read, GetPolicy
  <1>2. ASSUME NEW c \in Clients,
               \/ NewWriteTransaction(c) \/ AcquireWmu(c) \/ NewReadTransaction(c)
               \/ \E op \in PatchOps, p \in Paths, v \in Values : Write(c, op, p, v)
               \/ \E id \in Policies, v \in Values : UpsertPolicy(c, id, v)
               \/ \E id \in Policies : DeletePolicy(c, id)
               \/ CommitLock(c) \/ CommitRelease(c) \/ EndRead(c) \/ Abort(c)
        PROVE  TriggersCurrent'
    <2>1. UNCHANGED <<triggerVars, dbVars>> /\ pc[c] # "notify" /\ pc'[c] # "notify"
      BY Zenon, <1>2 DEF TypeOK, NewWriteTransaction, AcquireWmu, NewReadTransaction, Write,
         UpsertPolicy, DeletePolicy, CommitLock, CommitRelease, EndRead, Abort, Writing
    <2>2. \A d \in Clients \ {c} : pc'[d] = pc[d]
      BY Zenon, <1>2 DEF TypeOK, NewWriteTransaction, AcquireWmu, NewReadTransaction, Write,
         UpsertPolicy, DeletePolicy, CommitLock, CommitRelease, EndRead, Abort
    <2>3. \A d \in Clients \ {c} :
              updates'[d] = updates[d] /\ polUpdates'[d] = polUpdates[d]
      BY Zenon, <1>2 DEF TypeOK, NewWriteTransaction, AcquireWmu, NewReadTransaction, Write,
         UpsertPolicy, DeletePolicy, CommitLock, CommitRelease, EndRead, Abort, FreshTxn
    <2> QED
      BY Zenon, <1>1, <2>1, <2>2, <2>3
  <1>3. ASSUME NEW c \in Clients, NEW h \in Handles, Register(c, h)
        PROVE  TriggersCurrent'
    <2>1. \A d \in Clients : pc[d] # "notify"
      BY Zenon, <1>3, CommitExcludesOpen DEF Register, Writing, Open
    <2> QED
      BY Zenon, <1>3, <2>1 DEF Register, TriggersCurrent, TypeOK
  <1>4. ASSUME NEW c \in Clients, NEW h \in triggers, Unregister(c, h)
        PROVE  TriggersCurrent'
    <2>1. \A d \in Clients : pc[d] # "notify"
      BY Zenon, <1>4, CommitExcludesOpen DEF Unregister, Writing, Open
    <2> QED
      BY Zenon, <1>4, <2>1 DEF Unregister, TriggersCurrent, TypeOK
  <1>5. ASSUME NEW c \in Clients, CommitApply(c) PROVE TriggersCurrent'
    <2>1. pc'[c] = "notify" /\ \A d \in Clients : pc'[d] = "notify" => d = c
      BY Zenon, <1>5, CommitExcludesOpen DEF CommitApply, TypeOK
    <2>2. todo' = triggers' /\ data' = Read(c) /\ policies' = GetPolicy(c)
      BY Zenon, <1>5 DEF CommitApply
    <2>3. Read(c)' = Read(c)
      <3>1. \A p \in Paths : updates[c][p] \in Pending /\ data[p] \in Entries
        BY Zenon DEF TypeOK
      <3>2. \A p \in Paths : Read(c)[p] = Overlay(updates[c][p], data[p])
        BY Zenon DEF Read
      <3>3. \A p \in Paths : Overlay(updates[c][p], Read(c)[p]) = Read(c)[p]
        BY Zenon, <3>1, <3>2, OverlayIdempotent
      <3>4. Read(c)' = [p \in Paths |-> Overlay(updates[c][p], Read(c)[p])]
        BY Zenon, <1>5 DEF CommitApply, Read
      <3> QED
        BY Zenon, <3>3, <3>4 DEF Read
    <2>4. GetPolicy(c)' = GetPolicy(c)
      <3>1. \A id \in Policies : polUpdates[c][id] \in Pending /\ policies[id] \in Entries
        BY Zenon DEF TypeOK
      <3>2. \A id \in Policies : GetPolicy(c)[id] = Overlay(polUpdates[c][id], policies[id])
        BY Zenon DEF GetPolicy
      <3>3. \A id \in Policies : Overlay(polUpdates[c][id], GetPolicy(c)[id]) = GetPolicy(c)[id]
        BY Zenon, <3>1, <3>2, OverlayIdempotent
      <3>4. GetPolicy(c)' = [id \in Policies |-> Overlay(polUpdates[c][id], GetPolicy(c)[id])]
        BY Zenon, <1>5 DEF CommitApply, GetPolicy
      <3> QED
        BY Zenon, <3>3, <3>4 DEF GetPolicy
    <2> QED
      BY Zenon, <2>1, <2>2, <2>3, <2>4 DEF TriggersCurrent, View
  <1>6. ASSUME NEW c \in Clients, NEW h \in Handles, RunOnCommitTrigger(c, h)
        PROVE  TriggersCurrent'
    <2>1. \A d \in Clients : View(d)' = View(d)
      BY Zenon, <1>6 DEF RunOnCommitTrigger, View, Read, GetPolicy
    <2>2. View(c) = <<data, policies>>
      BY Zenon, <1>6 DEF RunOnCommitTrigger, TriggersCurrent
    <2> QED
      BY Zenon, <1>6, <2>1, <2>2 DEF RunOnCommitTrigger, TriggersCurrent, TypeOK
  <1>7. ASSUME NEW c \in Clients, CommitUnlock(c) PROVE TriggersCurrent'
    <2>1. \A d \in Clients : pc'[d] # "notify"
      BY Zenon, <1>7, CommitExcludesOpen DEF CommitUnlock, TypeOK
    <2>2. \A h \in triggers : seen[h] = <<data, policies>>
      BY Zenon, <1>7 DEF CommitUnlock, TriggersCurrent
    <2> QED
      BY Zenon, <1>7, <2>1, <2>2 DEF CommitUnlock, TriggersCurrent
  <1>8. CASE UNCHANGED vars
    BY Zenon, <1>1, <1>8 DEF vars
  <1> QED
    BY Zenon, <1>2, <1>3, <1>4, <1>5, <1>6, <1>7, <1>8 DEF Next

-----------------------------------------------------------------------------
\* The inductive invariant holds in every reachable state of the store.
THEOREM Invariance == Spec => [](TypeOK /\ IInv)
  <1>1. TypeOK /\ IInv /\ [Next]_vars => TypeOK' /\ IInv'
    BY Zenon, TypeStep, LocksStep, UpdatesStep, TriggersStep DEF IInv
  <1> QED
    BY InitInv, <1>1, PTL DEF Spec

\* storage/inmem keeps its variables well typed and its two locks with the
\* transactions that are entitled to them.
THEOREM LockDiscipline == Spec => [](TypeOK /\ LocksHeld)
  <1>1. IInv => LocksHeld
    BY DEF IInv
  <1> QED
    BY Invariance, <1>1, PTL

\* runOnCommitTriggers has called every registered trigger for the contents
\* that any open transaction sees.
THEOREM TriggersFirst == Spec => []TriggersBeforeClients
  <1>1. TypeOK /\ IInv => TriggersBeforeClients
    <2> SUFFICES ASSUME TypeOK, IInv, NEW c \in Clients, Open(c)
                 PROVE  \A h \in triggers : seen[h] \in {None, <<data, policies>>}
      BY Zenon DEF TriggersBeforeClients
    <2>1. \A d \in Clients : pc[d] # "notify"
      BY Zenon, CommitExcludesOpen DEF IInv
    <2> QED
      BY Zenon, <2>1 DEF IInv, TriggersCurrent
  <1> QED
    BY Invariance, <1>1, PTL

-----------------------------------------------------------------------------
\* Only a commit changes the contents of the store.
LEMMA OnlyCommitWrites ==
    ASSUME [Next]_vars
    PROVE  UNCHANGED dbVars \/ \E c \in Clients : CommitApply(c)
  BY DEF Next, vars, NewWriteTransaction, AcquireWmu, NewReadTransaction, Write,
     UpsertPolicy, DeletePolicy, Register, Unregister, CommitLock, RunOnCommitTrigger,
     CommitUnlock, CommitRelease, EndRead, Abort, dbVars

\* A transaction that is open before and after a step has pending updates
\* changed only by its own operations, and only if it writes.
LEMMA OnlyOwnUpdates ==
    ASSUME TypeOK, [Next]_vars, NEW c \in Clients, Open(c), Open(c)'
    PROVE  \/ updates'[c] = updates[c] /\ polUpdates'[c] = polUpdates[c]
           \/ Writing(c)
  <1> USE DEF TypeOK, txnVars
  <1>1. ASSUME NEW d \in Clients,
               \/ NewWriteTransaction(d) \/ NewReadTransaction(d)
               \/ CommitRelease(d) \/ EndRead(d) \/ Abort(d)
        PROVE  updates'[c] = updates[c] /\ polUpdates'[c] = polUpdates[c]
    <2>1. d # c
      BY Zenon, <1>1 DEF NewWriteTransaction, NewReadTransaction, CommitRelease, EndRead, Abort,
         Writing, Open
    <2> QED
      BY Zenon, <1>1, <2>1 DEF NewWriteTransaction, NewReadTransaction, CommitRelease, EndRead,
         Abort, FreshTxn
  <1>2. ASSUME NEW d \in Clients,
               \/ \E op \in PatchOps, p \in Paths, v \in Values : Write(d, op, p, v)
               \/ \E id \in Policies, v \in Values : UpsertPolicy(d, id, v)
               \/ \E id \in Policies : DeletePolicy(d, id)
        PROVE  (updates'[c] = updates[c] /\ polUpdates'[c] = polUpdates[c]) \/ Writing(c)
    BY Zenon, <1>2 DEF Write, UpsertPolicy, DeletePolicy, Writing
  <1>3. ASSUME UNCHANGED txnVars
        PROVE  updates'[c] = updates[c] /\ polUpdates'[c] = polUpdates[c]
    BY Zenon, <1>3
  <1> QED
    BY Zenon, <1>1, <1>2, <1>3 DEF Next, vars, AcquireWmu, Register, Unregister, CommitLock,
       CommitApply, RunOnCommitTrigger, CommitUnlock

\* A read transaction's snapshot never moves, and a write transaction's view
\* moves only by its own Write, UpsertPolicy and DeletePolicy.
THEOREM SnapshotIsolation == Spec => SnapshotStable
  <1>1. TypeOK /\ IInv /\ [Next]_vars => ViewChangedByOwner
    <2> SUFFICES ASSUME TypeOK, IInv, [Next]_vars,
                        NEW c \in Clients, Open(c), Open(c)'
                 PROVE  /\ \A p \in Paths : Read(c)'[p] # Read(c)[p]
                              => Writing(c) /\ updates'[c][p] # updates[c][p]
                        /\ \A id \in Policies : GetPolicy(c)'[id] # GetPolicy(c)[id]
                              => Writing(c) /\ polUpdates'[c][id] # polUpdates[c][id]
      BY Zenon DEF ViewChangedByOwner
    <2>1. UNCHANGED dbVars
      BY Zenon, OnlyCommitWrites, CommitExcludesOpen DEF CommitApply, IInv
    <2>2. (updates'[c] = updates[c] /\ polUpdates'[c] = polUpdates[c]) \/ Writing(c)
      BY Zenon, OnlyOwnUpdates DEF IInv
    <2>3. \A p \in Paths : /\ Read(c)[p] = Overlay(updates[c][p], data[p])
                          /\ Read(c)'[p] = Overlay(updates'[c][p], data[p])
      BY Zenon, <2>1 DEF Read, dbVars
    <2>4. \A id \in Policies :
             /\ GetPolicy(c)[id] = Overlay(polUpdates[c][id], policies[id])
             /\ GetPolicy(c)'[id] = Overlay(polUpdates'[c][id], policies[id])
      BY Zenon, <2>1 DEF GetPolicy, dbVars
    <2> QED
      BY Zenon, <2>2, <2>3, <2>4
  <1> QED
    BY Invariance, <1>1, PTL DEF Spec, SnapshotStable

-----------------------------------------------------------------------------
\* Refinement.  A step is described by the clients whose abstract mode or view
\* it changes; these lemmas say what happens to all the others.

\* A client whose transaction and location a step leaves alone keeps its
\* abstract mode and, when the contents stay, its abstract view.
LEMMA ClientFrame ==
    ASSUME NEW d \in Clients, pc'[d] = pc[d]
    PROVE  /\ Mode(d)' = Mode(d)
           /\ \/ /\ UNCHANGED dbVars
                 /\ updates'[d] = updates[d]
                 /\ polUpdates'[d] = polUpdates[d]
              \/ Mode(d) = "none"
              => AbstractView'[d] = AbstractView[d]
  <1>1. Mode(d)' = Mode(d)
    BY Zenon DEF Mode, Writing
  <1>2. CASE Mode(d) = "none"
    BY Zenon, <1>1, <1>2 DEF AbstractView
  <1>3. ASSUME UNCHANGED dbVars, updates'[d] = updates[d], polUpdates'[d] = polUpdates[d]
        PROVE  AbstractView'[d] = AbstractView[d]
    <2>1. Read(d)' = Read(d) /\ GetPolicy(d)' = GetPolicy(d)
      BY Zenon, <1>3 DEF Read, GetPolicy, dbVars
    <2>2. Contents(Read(d), GetPolicy(d))' = Contents(Read(d), GetPolicy(d))
      BY Zenon, <2>1 DEF Contents
    <2> QED
      BY Zenon, <1>1, <2>2 DEF AbstractView
  <1> QED
    BY Zenon, <1>1, <1>2, <1>3

\* A new store is an abstract store with no contents and no transactions.
LEMMA InitRefines == Init => Abstract!Init
  <1> SUFFICES ASSUME Init PROVE Abstract!Init
    OBVIOUS
  <1>1. AbstractCommitted = [k \in Paths \cup Policies |-> None]
    BY Zenon DEF Init, AbstractCommitted, Contents
  <1>2. \A c \in Clients : Mode(c) = "none"
    BY Zenon DEF Init, Mode, Writing
  <1> QED
    BY Zenon, <1>1, <1>2 DEF Abstract!Init, AbstractMode, AbstractView

\* The view of a transaction that has just started, or still has no pending
\* updates, after a step that leaves the contents alone.
LEMMA FreshView ==
    ASSUME TypeOK, UNCHANGED dbVars, NEW c \in Clients,
           updates'[c] = NoUpdates, polUpdates'[c] = NoPolUpdates, Mode(c)' # "none"
    PROVE  AbstractView'[c] = AbstractCommitted
  <1>1. Read(c)' = data
    BY Zenon, ConstantsDistinct DEF TypeOK, Read, NoUpdates, Overlay, dbVars
  <1>2. GetPolicy(c)' = policies
    BY Zenon, ConstantsDistinct DEF TypeOK, GetPolicy, NoPolUpdates, Overlay, dbVars
  <1>3. Contents(Read(c), GetPolicy(c))' = Contents(data, policies)
    BY Zenon, <1>1, <1>2 DEF Contents
  <1> QED
    BY Zenon, <1>3 DEF AbstractView, AbstractCommitted

\* NewTransaction and the lock acquisitions begin an abstract transaction or
\* do nothing yet.
LEMMA BeginRefines ==
    ASSUME TypeOK, IInv, NEW c \in Clients,
           NewWriteTransaction(c) \/ AcquireWmu(c) \/ NewReadTransaction(c)
    PROVE  [Abstract!Next]_(Abstract!vars)
  <1> USE DEF IInv, txnVars, lockVars, dbVars, triggerVars
  <1>1. AbstractCommitted' = AbstractCommitted /\ UNCHANGED dbVars
    BY Zenon DEF NewWriteTransaction, AcquireWmu, NewReadTransaction, AbstractCommitted, Contents
  <1>2. updates'[c] = NoUpdates /\ polUpdates'[c] = NoPolUpdates
    <2>1. CASE NewWriteTransaction(c) \/ NewReadTransaction(c)
      BY Zenon, <2>1 DEF NewWriteTransaction, NewReadTransaction, FreshTxn, TypeOK
    <2>2. CASE AcquireWmu(c)
      BY Zenon, <2>2, ConstantsDistinct DEF AcquireWmu, OnlyWritersUpdate
    <2> QED
      BY Zenon, <2>1, <2>2
  <1>3. \A d \in Clients \ {c} :
            /\ pc'[d] = pc[d]
            /\ updates'[d] = updates[d] /\ polUpdates'[d] = polUpdates[d]
    BY Zenon DEF NewWriteTransaction, AcquireWmu, NewReadTransaction, FreshTxn, TypeOK
  <1>4. \A d \in Clients \ {c} :
            AbstractMode'[d] = AbstractMode[d] /\ AbstractView'[d] = AbstractView[d]
    BY Zenon, <1>1, <1>3, ClientFrame DEF AbstractMode
  <1>5. Mode(c) = "none"
    BY Zenon DEF NewWriteTransaction, AcquireWmu, NewReadTransaction, Mode, Writing
  <1>6. CASE pc'[c] = "writing"
    <2>1. wmu = None
      BY Zenon, <1>6 DEF NewWriteTransaction, AcquireWmu, NewReadTransaction, FreshTxn, TypeOK
    <2>2. \A d \in Clients : AbstractMode[d] \notin {"writing", "notifying"}
      BY Zenon, <2>1, ConstantsDistinct DEF LocksHeld, AbstractMode, Mode, Writing
    <2>3. Mode(c)' = "writing"
      BY <1>6 DEF Mode, Writing
    <2>4. AbstractMode' = [AbstractMode EXCEPT ![c] = "writing"]
      BY <1>4, <2>3, Zenon DEF AbstractMode
    <2>5. AbstractView' = [AbstractView EXCEPT ![c] = AbstractCommitted]
      BY <1>1, <1>2, <1>4, <2>3, FreshView, Zenon DEF AbstractView
    <2>6. Abstract!BeginWrite(c)
      BY Zenon, <1>1, <1>5, <2>2, <2>4, <2>5 DEF Abstract!BeginWrite, Abstract!Begin, AbstractMode
    <2> QED
      BY Zenon, <2>6 DEF Abstract!Next
  <1>7. CASE pc'[c] = "reading"
    <2>1. rwriter = None
      BY Zenon, <1>7 DEF NewWriteTransaction, AcquireWmu, NewReadTransaction, FreshTxn, TypeOK,
         LocksHeld
    <2>2. \A d \in Clients : AbstractMode[d] # "notifying"
      BY Zenon, <2>1, ConstantsDistinct DEF LocksHeld, AbstractMode, Mode, Writing
    <2>3. Mode(c)' = "reading"
      BY <1>7 DEF Mode, Writing
    <2>4. AbstractMode' = [AbstractMode EXCEPT ![c] = "reading"]
      BY <1>4, <2>3, Zenon DEF AbstractMode
    <2>5. AbstractView' = [AbstractView EXCEPT ![c] = AbstractCommitted]
      BY <1>1, <1>2, <1>4, <2>3, FreshView, Zenon DEF AbstractView
    <2>6. Abstract!BeginRead(c)
      BY Zenon, <1>1, <1>5, <2>2, <2>4, <2>5 DEF Abstract!BeginRead, Abstract!Begin, AbstractMode
    <2> QED
      BY Zenon, <2>6 DEF Abstract!Next
  <1>8. CASE ~Open(c)'
    <2>1. Mode(c)' = "none"
      BY Zenon, <1>8 DEF NewWriteTransaction, AcquireWmu, NewReadTransaction, Mode, Writing, Open,
         TypeOK
    <2>2. AbstractMode' = AbstractMode /\ AbstractView' = AbstractView
      BY Zenon, <1>4, <1>5, <2>1 DEF AbstractMode, AbstractView
    <2> QED
      BY Zenon, <1>1, <2>2 DEF Abstract!vars
  <1> QED
    BY <1>6, <1>7, <1>8 DEF Open

\* Write, UpsertPolicy and DeletePolicy change one entry of the view.
LEMMA ModifyRefines ==
    ASSUME TypeOK, IInv, NEW c \in Clients,
           \/ \E op \in PatchOps, p \in Paths, v \in Values : Write(c, op, p, v)
           \/ \E id \in Policies, v \in Values : UpsertPolicy(c, id, v)
           \/ \E id \in Policies : DeletePolicy(c, id)
    PROVE  [Abstract!Next]_(Abstract!vars)
  <1> USE DEF IInv, txnVars, lockVars, dbVars, triggerVars
  <1>1. UNCHANGED <<pc, dbVars>> /\ Writing(c)
    BY Zenon DEF Write, UpsertPolicy, DeletePolicy
  <1>2. \A d \in Clients \ {c} :
            updates'[d] = updates[d] /\ polUpdates'[d] = polUpdates[d]
    BY Zenon DEF Write, UpsertPolicy, DeletePolicy, TypeOK
  <1>3. \A d \in Clients : AbstractMode'[d] = AbstractMode[d]
    BY Zenon, <1>1, ClientFrame DEF AbstractMode
  <1>4. \A d \in Clients \ {c} : AbstractView'[d] = AbstractView[d]
    BY Zenon, <1>1, <1>2, ClientFrame
  <1>5. AbstractMode' = AbstractMode /\ AbstractCommitted' = AbstractCommitted
    BY Zenon, <1>1, <1>3 DEF AbstractMode, AbstractCommitted, Contents
  <1>6. Mode(c) = "writing" /\ Mode(c)' = "writing"
    BY Zenon, <1>1 DEF Mode, Writing
  <1>7. PICK k \in Paths \cup Policies :
            /\ \A p \in Paths \ {k} : updates'[c][p] = updates[c][p]
            /\ \A id \in Policies \ {k} : polUpdates'[c][id] = polUpdates[c][id]
    <2>1. ASSUME NEW op \in PatchOps, NEW p \in Paths, NEW v \in Values, Write(c, op, p, v)
          PROVE  /\ \A q \in Paths \ {p} : updates'[c][q] = updates[c][q]
                 /\ \A id \in Policies \ {p} : polUpdates'[c][id] = polUpdates[c][id]
      BY Zenon, <2>1 DEF Write, TypeOK
    <2>2. ASSUME NEW m \in Policies,
                 (\E v \in Values : UpsertPolicy(c, m, v)) \/ DeletePolicy(c, m)
          PROVE  /\ \A q \in Paths \ {m} : updates'[c][q] = updates[c][q]
                 /\ \A id \in Policies \ {m} : polUpdates'[c][id] = polUpdates[c][id]
      BY SMTT(30), <2>2 DEF UpsertPolicy, DeletePolicy, TypeOK
    <2> QED
      BY Zenon, <2>1, <2>2
  <1>8. AbstractView'[c] \in [Paths \cup Policies -> Entries]
    <2>1. TypeOK'
      BY Zenon, TypeStep DEF Next
    <2>2. /\ \A p \in Paths : Read(c)'[p] \in Entries
          /\ \A id \in Policies : GetPolicy(c)'[id] \in Entries
      BY SMTT(30), <2>1, OverlayIdempotent DEF TypeOK, Read, GetPolicy
    <2> QED
      BY Zenon, <1>6, <2>2 DEF AbstractView, Contents
  <1>9. \A i \in (Paths \cup Policies) \ {k} : AbstractView'[c][i] = AbstractView[c][i]
    <2>1. \A p \in Paths \ {k} : Read(c)'[p] = Read(c)[p]
      BY Zenon, <1>1, <1>7 DEF Read
    <2>2. \A id \in Policies \ {k} : GetPolicy(c)'[id] = GetPolicy(c)[id]
      BY Zenon, <1>1, <1>7 DEF GetPolicy
    <2> QED
      BY Zenon, <1>6, <2>1, <2>2 DEF AbstractView, Contents
  <1>10. AbstractView'[c] = [AbstractView[c] EXCEPT ![k] = AbstractView'[c][k]]
    <2>1. AbstractView[c] = [i \in Paths \cup Policies |-> AbstractView[c][i]]
      BY Zenon, <1>6 DEF AbstractView, Contents
    <2> QED
      BY <1>8, <1>9, <2>1, Zenon
  <1>11. AbstractView' = [AbstractView EXCEPT ![c] = [@ EXCEPT ![k] = AbstractView'[c][k]]]
    BY <1>4, <1>10, Zenon DEF AbstractView
  <1>12. Abstract!Modify(c, k, AbstractView'[c][k])
    BY Zenon, <1>5, <1>6, <1>11 DEF Abstract!Modify, AbstractMode
  <1>13. AbstractView'[c][k] \in Values \cup {None}
    BY Zenon, <1>8 DEF Entries
  <1> QED
    BY Zenon, <1>12, <1>13 DEF Abstract!Next

\* Commit: nothing happens abstractly until the updates are applied, and the
\* abstract transaction ends when rmu is unlocked.
LEMMA CommitRefines ==
    ASSUME TypeOK, IInv, NEW c \in Clients, CommitApply(c)
    PROVE  [Abstract!Next]_(Abstract!vars)
  <1> USE DEF IInv, txnVars, lockVars, dbVars, triggerVars
  <1>1. \A d \in Clients \ {c} : Mode(d) = "none"
    BY Zenon, CommitExcludesOpen DEF CommitApply, Mode, Writing, Open
  <1>2. Mode(c) = "writing" /\ Mode(c)' = "notifying"
    BY Zenon DEF CommitApply, Mode, Writing, TypeOK
  <1>3. \A d \in Clients \ {c} :
            AbstractMode'[d] = AbstractMode[d] /\ AbstractView'[d] = AbstractView[d]
    BY Zenon, <1>1, ClientFrame DEF CommitApply, TypeOK, AbstractMode
  <1>4. AbstractMode' = [AbstractMode EXCEPT ![c] = "notifying"]
    BY <1>2, <1>3, ZenonT(60) DEF AbstractMode
  <1>5. AbstractCommitted' = AbstractView[c]
    BY Zenon, <1>2 DEF CommitApply, AbstractCommitted, AbstractView, Contents
  <1>6. AbstractView'[c] = AbstractCommitted'
    <2>1. TriggersCurrent'
      BY Zenon, TriggersStep DEF Next
    <2>2. View(c)' = <<data, policies>>'
      BY Zenon, <2>1 DEF CommitApply, TriggersCurrent, TypeOK
    <2>3. Read(c)' = data' /\ GetPolicy(c)' = policies'
      BY Zenon, <2>2 DEF View
    <2> QED
      BY Zenon, <1>2, <2>3 DEF AbstractView, AbstractCommitted, Contents
  <1>7. AbstractView' = AbstractView
    BY Zenon, <1>3, <1>5, <1>6 DEF AbstractView
  <1>8. Abstract!Commit(c)
    BY Zenon, <1>1, <1>2, <1>4, <1>5, <1>7 DEF Abstract!Commit, AbstractMode
  <1> QED
    BY Zenon, <1>8 DEF Abstract!Next

\* rmu.Unlock publishes the commit and starts the readers that waited.
LEMMA PublishRefines ==
    ASSUME TypeOK, IInv, NEW c \in Clients, CommitUnlock(c)
    PROVE  [Abstract!Next]_(Abstract!vars)
  <1> USE DEF IInv, txnVars, lockVars, dbVars, triggerVars
  <1> DEFINE S == {d \in Clients : pc[d] = "rwait"}
  <1>1. UNCHANGED <<txnVars, dbVars>> /\ AbstractCommitted' = AbstractCommitted
    BY Zenon DEF CommitUnlock, AbstractCommitted, Contents
  <1>2. Mode(c) = "notifying" /\ Mode(c)' = "none"
    BY Zenon DEF CommitUnlock, Mode, Writing, TypeOK
  <1>3. \A d \in S : d # c /\ Mode(d) = "none" /\ Mode(d)' = "reading"
    BY Zenon DEF CommitUnlock, Mode, Writing, TypeOK, LocksHeld
  <1>4. \A d \in S : AbstractView'[d] = AbstractCommitted
    <2> SUFFICES ASSUME NEW d \in S PROVE AbstractView'[d] = AbstractCommitted
      OBVIOUS
    <2>1. wmu # d
      BY Zenon DEF LocksHeld, Writing
    <2>2. updates'[d] = NoUpdates /\ polUpdates'[d] = NoPolUpdates
      BY Zenon, <1>1, <2>1 DEF OnlyWritersUpdate
    <2> QED
      BY Zenon, <1>1, <1>3, <2>2, FreshView
  <1>5. \A d \in Clients \ (S \cup {c}) :
            AbstractMode'[d] = AbstractMode[d] /\ AbstractView'[d] = AbstractView[d]
    BY Zenon, <1>1, ClientFrame DEF CommitUnlock, TypeOK, AbstractMode
  <1>6. Abstract!Publish(c, S)
    <2>1. AbstractMode' = [d \in Clients |-> IF d = c THEN "none"
                              ELSE IF d \in S THEN "reading" ELSE AbstractMode[d]]
      BY Zenon, <1>2, <1>3, <1>5 DEF AbstractMode
    <2>2. AbstractView' = [d \in Clients |-> IF d = c THEN None
                              ELSE IF d \in S THEN AbstractCommitted ELSE AbstractView[d]]
      BY Zenon, <1>2, <1>4, <1>5 DEF AbstractView
    <2> QED
      BY Zenon, <1>1, <1>2, <1>3, <2>1, <2>2 DEF Abstract!Publish, AbstractMode
  <1> QED
    BY Zenon, <1>6 DEF Abstract!Next

\* A reader that is done and a writer that aborts close their transaction.
LEMMA CloseRefines ==
    ASSUME TypeOK, IInv, NEW c \in Clients, EndRead(c) \/ Abort(c)
    PROVE  [Abstract!Next]_(Abstract!vars)
  <1> USE DEF IInv, txnVars, lockVars, dbVars, triggerVars
  <1>1. UNCHANGED dbVars /\ AbstractCommitted' = AbstractCommitted
    BY Zenon DEF EndRead, Abort, AbstractCommitted, Contents
  <1>2. Mode(c) \in {"reading", "writing"} /\ Mode(c)' = "none"
    BY Zenon DEF EndRead, Abort, Mode, Writing, TypeOK
  <1>3. \A d \in Clients \ {c} :
            AbstractMode'[d] = AbstractMode[d] /\ AbstractView'[d] = AbstractView[d]
    BY Zenon, <1>1, ClientFrame DEF EndRead, Abort, FreshTxn, TypeOK, AbstractMode
  <1>4. Abstract!Close(c)
    BY <1>1, <1>2, <1>3, ZenonT(60) DEF Abstract!Close, AbstractMode, AbstractView
  <1> QED
    BY Zenon, <1>4 DEF Abstract!Next

\* The other steps are invisible to the clients' transactions.
LEMMA StutterRefines ==
    ASSUME TypeOK, IInv, NEW c \in Clients,
           \/ \E h \in Handles : Register(c, h)
           \/ \E h \in triggers : Unregister(c, h)
           \/ CommitLock(c)
           \/ \E h \in Handles : RunOnCommitTrigger(c, h)
           \/ CommitRelease(c)
    PROVE  UNCHANGED Abstract!vars
  <1> USE DEF IInv, txnVars, lockVars, dbVars, triggerVars
  <1>1. UNCHANGED dbVars /\ AbstractCommitted' = AbstractCommitted
    BY Zenon DEF Register, Unregister, CommitLock, RunOnCommitTrigger, CommitRelease,
       AbstractCommitted, Contents
  <1>2. \A d \in Clients \ {c} :
            AbstractMode'[d] = AbstractMode[d] /\ AbstractView'[d] = AbstractView[d]
    BY Zenon, <1>1, ClientFrame DEF Register, Unregister, CommitLock, RunOnCommitTrigger,
       CommitRelease, FreshTxn, TypeOK, AbstractMode
  <1>3. Mode(c)' = Mode(c)
    BY Zenon DEF Register, Unregister, CommitLock, RunOnCommitTrigger, CommitRelease, Mode,
       Writing, TypeOK
  <1>4. Mode(c) = "none" \/ UNCHANGED txnVars
    BY Zenon DEF Register, Unregister, CommitLock, RunOnCommitTrigger, CommitRelease, Mode,
       Writing
  <1>5. AbstractView'[c] = AbstractView[c]
    <2>1. CASE Mode(c) = "none"
      BY Zenon, <1>3, <2>1 DEF AbstractView
    <2>2. CASE UNCHANGED txnVars
      <3>1. Read(c)' = Read(c) /\ GetPolicy(c)' = GetPolicy(c)
        BY Zenon, <1>1, <2>2 DEF Read, GetPolicy
      <3> QED
        BY Zenon, <1>3, <3>1 DEF AbstractView, Contents
    <2> QED
      BY Zenon, <1>4, <2>1, <2>2
  <1> QED
    BY Zenon, <1>1, <1>2, <1>3, <1>5 DEF Abstract!vars, AbstractMode, AbstractView

\* storage/inmem implements storage.Store: every transaction has a consistent
\* snapshot, commits are atomic, aborts leave nothing behind, and triggers run
\* before another client sees the changes.
THEOREM Refinement == Spec => ImplementsStore
  <1>1. TypeOK /\ IInv /\ [Next]_vars => [Abstract!Next]_(Abstract!vars)
    <2> SUFFICES ASSUME TypeOK, IInv, [Next]_vars PROVE [Abstract!Next]_(Abstract!vars)
      BY Zenon
    <2>1. CASE UNCHANGED vars
      <3>1. AbstractCommitted' = AbstractCommitted
        BY Zenon, <2>1 DEF vars, dbVars, AbstractCommitted, Contents
      <3>2. \A d \in Clients :
                AbstractMode'[d] = AbstractMode[d] /\ AbstractView'[d] = AbstractView[d]
        BY Zenon, <2>1, ClientFrame DEF vars, txnVars, dbVars, AbstractMode
      <3> QED
        BY Zenon, <3>1, <3>2 DEF Abstract!vars, AbstractMode, AbstractView
    <2>2. CASE Next
      BY Zenon, <2>2, BeginRefines, ModifyRefines, CommitRefines, PublishRefines, CloseRefines,
         StutterRefines DEF Next
    <2> QED
      BY <2>1, <2>2
  <1> QED
    BY Invariance, InitRefines, <1>1, PTL DEF Spec, ImplementsStore, Abstract!Spec

=============================================================================

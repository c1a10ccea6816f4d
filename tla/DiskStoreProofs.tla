-------------------------- MODULE DiskStoreProofs ---------------------------
(***************************************************************************)
(* Proofs about DiskStore: readers keep their database, an aborted         *)
(* transaction leaves nothing behind, and a process that starts again      *)
(* finds what was committed, for any partitions, patches, Truncate calls,  *)
(* directories and readers.                                                *)
(***************************************************************************)
EXTENDS DiskStore, TLAPS

(* The shapes that a step relies on.                                       *)
Shapes ==
    /\ dirs \subseteq Databases
    /\ dbs = [d \in Databases |-> dbs[d]]
    /\ active \in Databases
    /\ backup \in Databases \union {None}
    /\ txn = [kv |-> txn.kv, base |-> txn.base, truncates |-> txn.truncates]
    /\ txn.truncates \in Nat
    /\ readers \in [Readers -> Databases \union {None}]

\* rmu keeps readers out from the moment Abort has it until it lets go.
LockedOut == writer \in {"locked", "unlinked", "linked", "stuck", "down"} => NoReader

\* Where the state the transaction began with is kept: in the active database as long
\* as nothing backs it up, in the backup afterwards.
BaseKept ==
    writer \in {"open", "committing", "aborting", "locked", "unlinked", "linked"} =>
        /\ backup = None => dbs[active] = txn.base
        /\ backup # None /\ backup \in dirs => dbs[backup] = txn.base

\* Before its first Truncate a transaction finds no backup, or the database that an
\* earlier Abort swapped in and still calls its backup.
BackupBefore ==
    /\ writer = "idle" => backup \in {None, active}
    /\ writer = "open" => active \in dirs /\ (txn.truncates = 0 => backup \in {None, active})
    /\ writer \in {"aborting", "locked", "unlinked", "linked"} => backup # None

IInv == Shapes /\ ReadersUndisturbed /\ LockedOut /\ BaseKept /\ BackupBefore

\* A new store satisfies IInv: nobody reads, nobody writes, nothing is backed up.
THEOREM InitHolds == Init => IInv
  BY DatabasesValid DEF Init, IInv, Shapes, ReadersUndisturbed, LockedOut, BaseKept,
     BackupBefore, NoReader, NoTxn, Data, None, Empty

\* Readers come and go.
LEMMA ReaderStepsKeep ==
  ASSUME IInv, NEW r \in Readers, ReaderBegins(r) \/ ReaderEnds(r)
  PROVE  IInv'
<1>1. CASE ReaderBegins(r)
  BY <1>1, DatabasesValid DEF ReaderBegins, Usable, HoldsRmu, IInv, Shapes, ReadersUndisturbed,
     LockedOut, BaseKept, BackupBefore, NoReader
<1>2. CASE ReaderEnds(r)
  BY <1>2, DatabasesValid DEF ReaderEnds, IInv, Shapes, ReadersUndisturbed, LockedOut, BaseKept,
     BackupBefore, NoReader
<1>3. QED BY SMTT(30), <1>1, <1>2

\* Begin and the writes of the transaction.
LEMMA WritesKeep ==
  ASSUME IInv, Begin \/ \E w \in env.writes : Write(w)
  PROVE  IInv'
<1>1. CASE Begin
  BY <1>1 DEF Begin, Usable, IInv, Shapes, ReadersUndisturbed, LockedOut, BaseKept,
     BackupBefore, NoReader
<1>2. ASSUME NEW w \in env.writes, Write(w)
      PROVE  IInv'
  <2> DEFINE kv == PartitionWrite(trie, txn.kv, w.op, w.path, w.value).kv
  <2>1. /\ writer = "open" /\ txn' = [txn EXCEPT !.kv = kv]
        /\ UNCHANGED <<dirs, dbs, active, backup, writer, readers>>
    BY <1>2 DEF Write
  <2> HIDE DEF kv
  <2>2. txn' = [kv |-> kv, base |-> txn.base, truncates |-> txn.truncates]
    BY <2>1 DEF IInv, Shapes
  <2>3. QED
    BY <2>1, <2>2 DEF IInv, Shapes, ReadersUndisturbed, LockedOut, BaseKept, BackupBefore, NoReader
<1>3. QED BY <1>1, <1>2

\* Truncate, whether it succeeds or not, backs up the state the transaction began with.
LEMMA TruncateKeeps ==
  ASSUME IInv, NEW t, NEW dir \in Databases, Truncate(t, dir) \/ TruncateFails(t, dir)
  PROVE  IInv'
<1>0. /\ writer = "open" /\ txn.truncates = 0
      /\ active \in dirs /\ dbs[active] = txn.base
  BY DEF Truncate, TruncateFails, MaxTruncates, IInv, Shapes, BaseKept, BackupBefore
<1>1. ASSUME NEW kv, BackedUp(dir, kv)
      PROVE  /\ dir # active /\ dir # None /\ dir \in Databases
             /\ dirs' = dirs \union {dir} /\ backup' = dir
             /\ dbs' = [d \in Databases |-> dbs'[d]]
             /\ dbs'[dir] = txn.base
  BY <1>0, <1>1, DatabasesValid, ZenonT(60) DEF BackedUp, IInv, Shapes
<1>2. CASE Truncate(t, dir)
  <2>0. PICK new : new = Truncated(t).kv
    OBVIOUS
  <2>1. /\ BackedUp(dir, new)
        /\ txn' = [txn EXCEPT !.kv = new, !.truncates = txn.truncates + 1]
        /\ UNCHANGED <<active, writer, readers>>
    BY <1>2, <2>0 DEF Truncate
  <2>2. txn' = [kv |-> new, base |-> txn.base, truncates |-> txn.truncates + 1]
    BY <2>1, Zenon DEF IInv, Shapes
  <2>3. txn'.base = txn.base /\ txn'.truncates = 1 /\ txn'.kv = new
    BY <2>2, <1>0
  <2>4. Shapes'
    <3>1. txn' = [kv |-> txn'.kv, base |-> txn'.base, truncates |-> txn'.truncates]
      BY <2>2, Zenon
    <3>2. QED
      BY <1>0, <1>1, <2>1, <2>3, <3>1, SMTT(30) DEF IInv, Shapes
  <2>5. QED
    BY <1>0, <1>1, <2>1, <2>3, <2>4, SMTT(30)
       DEF IInv, ReadersUndisturbed, LockedOut, BaseKept, BackupBefore, NoReader
<1>3. CASE TruncateFails(t, dir)
  <2>1. /\ BackedUp(dir, txn.kv) /\ txn' = [txn EXCEPT !.truncates = txn.truncates + 1]
        /\ writer' = "stale" /\ UNCHANGED <<active, readers>>
    BY <1>3 DEF TruncateFails
  <2>2. txn' = [kv |-> txn.kv, base |-> txn.base, truncates |-> 1]
    BY <2>1, <1>0 DEF IInv, Shapes
  <2>3. QED
    BY SMTT(30), <1>0, <1>1, <2>1, <2>2
       DEF IInv, Shapes, ReadersUndisturbed, LockedOut, BaseKept, BackupBefore, NoReader
<1>4. QED BY <1>2, <1>3

\* Commit waits for the readers and only then removes the backup.
LEMMA CommitKeeps ==
  ASSUME IInv, CommitCalled \/ CommitApplies \/ CommitFails
  PROVE  IInv'
<1>1. CASE CommitCalled
  BY <1>1 DEF CommitCalled, IInv, Shapes, ReadersUndisturbed, LockedOut, BaseKept,
     BackupBefore, NoReader
<1>2. CASE CommitApplies
  BY <1>2 DEF CommitApplies, CleanedUp, NoTxn, IInv, Shapes, ReadersUndisturbed, LockedOut,
     BaseKept, BackupBefore, NoReader
<1>3. CASE CommitFails
  BY SMTT(30), <1>3 DEF CommitFails, IInv, Shapes, ReadersUndisturbed, LockedOut, BaseKept,
     BackupBefore, NoReader
<1>4. QED BY SMTT(30), <1>1, <1>2, <1>3

\* Abort, step by step.
LEMMA AbortKeeps ==
  ASSUME IInv, Abort \/ AbortPanics \/ AbortLocks \/ AbortUnlinks \/ AbortLinks \/ AbortSwaps
  PROVE  IInv'
<1> USE DEF IInv, Shapes, ReadersUndisturbed, LockedOut, BaseKept, BackupBefore, NoReader
<1>1. CASE Abort
  BY <1>1 DEF Abort, NoTxn
<1>2. CASE AbortPanics
  BY <1>2 DEF AbortPanics
<1>3. CASE AbortLocks
  BY <1>3 DEF AbortLocks
<1>4. CASE AbortUnlinks
  BY <1>4 DEF AbortUnlinks
<1>5. CASE AbortLinks
  BY <1>5 DEF AbortLinks
<1>6. CASE AbortSwaps
  BY SMTT(30), <1>6 DEF AbortSwaps, CleanedUp, NoTxn
<1>7. QED BY <1>1, <1>2, <1>3, <1>4, <1>5, <1>6, SMTT(30)

\* A new process starts with no reader and no transaction.
LEMMA ProcessKeeps ==
  ASSUME IInv, Crash \/ \E p \in env.partitions : Restart(p)
  PROVE  IInv'
<1> USE DEF IInv, Shapes, ReadersUndisturbed, LockedOut, BaseKept, BackupBefore, NoReader
<1>1. CASE Crash
  BY SMTT(30), <1>1, DatabasesValid DEF Crash
<1>2. ASSUME NEW p \in env.partitions, Restart(p)
      PROVE  IInv'
  <2> DEFINE dir == IF link = None THEN Data ELSE link
  <2>1. /\ dir \in Databases /\ writer = "down" /\ dirs' = {dir} /\ active' = dir
        /\ dbs' = [d \in Databases |-> IF d = dir THEN dbs[dir] ELSE Empty]
        /\ backup' = None /\ txn' = NoTxn /\ writer' = "idle" /\ readers' = readers
    BY SMTT(30), <1>2, DatabasesValid DEF Restart
  <2> HIDE DEF dir
  <2>2. QED BY SMTT(30), <2>1 DEF NoTxn
<1>3. QED BY SMTT(30), <1>1, <1>2

\* A step of nobody preserves IInv.
LEMMA StutterKeeps == IInv /\ UNCHANGED vars => IInv'
  BY DEF vars, IInv, Shapes, ReadersUndisturbed, LockedOut, BaseKept, BackupBefore, NoReader

\* IInv is inductive: every state of the store satisfies it.
THEOREM Inductive == Spec => []IInv
<1>1. IInv /\ [Next]_vars => IInv'
  BY SMTT(30), ReaderStepsKeep, WritesKeep, TruncateKeeps, CommitKeeps, AbortKeeps, ProcessKeeps,
     StutterKeeps DEF Next
<1>2. QED BY <1>1, InitHolds, PTL DEF Spec

\* No reader loses its database: Commit and Abort take rmu, and with it wait for the
\* readers, before they close and remove a directory.
THEOREM ReadersKeepTheirDatabase == Spec => []ReadersUndisturbed
<1>1. IInv => ReadersUndisturbed
  BY DEF IInv
<1>2. QED BY <1>1, Inductive, PTL

\* An aborted transaction leaves what it found, though Truncate commits on its way: the
\* backup Abort swaps in was taken before anything of the transaction was committed.
THEOREM AbortLeavesNothing == Spec => AbortRestores
<1>1. IInv /\ [Next]_vars => [AbortPutsBack]_vars
  <2> SUFFICES ASSUME IInv, Next, writer \in {"open", "linked"}, writer' = "idle", active' \in dirs'
               PROVE  dbs'[active'] = txn.base
    BY DEF AbortPutsBack
  <2>1. Abort \/ AbortSwaps
    BY Zenon DEF Next, ReaderBegins, ReaderEnds, Begin, Write, Truncate, TruncateFails, CommitCalled,
       CommitApplies, CommitFails, AbortPanics, AbortLocks, AbortUnlinks, AbortLinks, Crash, Restart
  <2>2. CASE Abort
    BY <2>2 DEF Abort, IInv, BaseKept
  <2>3. CASE AbortSwaps
    BY <2>3 DEF AbortSwaps, CleanedUp, IInv, Shapes, BaseKept, BackupBefore
  <2>4. QED BY SMTT(30), <2>1, <2>2, <2>3
<1>2. QED BY <1>1, Inductive, PTL DEF Spec, AbortRestores

-----------------------------------------------------------------------------
\* Recovery: what a process that died finds when it starts again.

\* dataDir: the directory a process that starts now would open.
LedTo == IF link = None THEN Data ELSE link

\* Which directories there are, and which of them a restart would be led to: the active
\* one, except while Abort replaces the link.
Directories ==
    /\ backup # Data /\ link # Data
    /\ dirs \subseteq {active, backup}
    /\ writer \notin {"unlinked", "linked", "down"} => active = LedTo
    /\ writer = "unlinked" => link = None /\ active # Data
    /\ writer = "linked" => link = backup

\* Where what the last Commit left is kept.  Before the first Truncate of a transaction:
\* in the active database, and once the process is down where a restart is led to.  After
\* it: in the backup, from when Abort has made the link to it.
CommittedKept ==
    /\ writer = "idle" => txn.truncates = 0
    /\ writer \in {"open", "committing", "aborting", "locked", "unlinked", "linked"} =>
        txn.base = committed
    /\ txn.truncates = 0 =>
        /\ writer \in {"aborting", "locked", "unlinked", "linked"} => backup = active
        /\ writer # "down" /\ active \in dirs => dbs[active] = committed
        /\ writer = "down" /\ LedTo \in dirs => dbs[LedTo] = committed
    /\ txn.truncates # 0 /\ link = backup /\ link \in dirs => dbs[link] = committed
    /\ txn.truncates # 0 => backup # None

Recoverable == Directories /\ CommittedKept

\* A new store is recoverable: it is empty, and so is what was committed.
LEMMA RecoverableInit == Init => Recoverable
  BY SMTT(30), DatabasesValid DEF Init, Recoverable, Directories, CommittedKept, LedTo, NoTxn, Data, None, Empty

\* Readers come and go; Begin and Write change the transaction only.
LEMMA TransactionsRecoverable ==
  ASSUME IInv, Recoverable,
         \/ \E r \in Readers : ReaderBegins(r) \/ ReaderEnds(r)
         \/ Begin
         \/ \E w \in env.writes : Write(w)
  PROVE  Recoverable'
<1> USE DEF Recoverable, Directories, CommittedKept, LedTo
<1>1. ASSUME NEW r \in Readers, ReaderBegins(r) \/ ReaderEnds(r)
      PROVE  Recoverable'
  BY <1>1 DEF ReaderBegins, ReaderEnds
<1>2. CASE Begin
  BY <1>2 DEF Begin, Usable
<1>3. ASSUME NEW w \in env.writes, Write(w)
      PROVE  Recoverable'
  <2>1. PICK kv : txn' = [txn EXCEPT !.kv = kv]
    BY <1>3, ZenonT(60) DEF Write
  <2>2. txn'.base = txn.base /\ txn'.truncates = txn.truncates
    BY SMTT(30), <2>1 DEF IInv, Shapes
  <2>3. QED BY SMTT(30), <1>3, <2>2 DEF Write
<1>4. QED BY SMTT(30), <1>1, <1>2, <1>3

\* Truncate adds the backup to the directories, of which the active one was all.
LEMMA TruncateRecoverable ==
  ASSUME IInv, Recoverable, NEW t, NEW dir \in Databases,
         Truncate(t, dir) \/ TruncateFails(t, dir)
  PROVE  Recoverable'
<1>1. PICK kv, new : /\ BackedUp(dir, kv)
                     /\ txn' = [txn EXCEPT !.kv = new, !.truncates = txn.truncates + 1]
  <2>1. CASE Truncate(t, dir)
    BY <2>1, Zenon DEF Truncate
  <2>2. CASE TruncateFails(t, dir)
    <3>1. txn' = [txn EXCEPT !.kv = txn.kv, !.truncates = txn.truncates + 1]
      BY <2>2, ZenonT(60) DEF TruncateFails, IInv, Shapes
    <3>2. QED BY <2>2, <3>1, ZenonT(60) DEF TruncateFails
  <2>3. QED BY <2>1, <2>2, ZenonT(60)
<1>2. /\ writer = "open" /\ writer' \in {"open", "stale"} /\ txn.truncates = 0
      /\ UNCHANGED <<active, link, committed>>
  BY DEF Truncate, TruncateFails, MaxTruncates, IInv, Shapes
<1>3. txn'.base = txn.base /\ txn'.truncates = 1
  BY <1>1, <1>2 DEF IInv, Shapes
<1>4. dirs' = dirs \union {dir} /\ backup' = dir /\ dir # Data /\ dir \notin dirs /\ dir # None
  BY <1>1, DatabasesValid DEF BackedUp
<1>5. dirs \subseteq {active}
  BY SMTT(30), <1>2, DatabasesValid DEF IInv, Shapes, BackupBefore, Recoverable, Directories
<1>6. link # dir
  BY SMTT(30), <1>2, <1>4 DEF IInv, BackupBefore, Recoverable, Directories, LedTo
<1>7. QED
  BY SMTT(30), <1>2, <1>3, <1>4, <1>5, <1>6 DEF Recoverable, Directories, CommittedKept, LedTo

\* Commit stores the transaction in the active database and removes the backup.
LEMMA CommitRecoverable ==
  ASSUME IInv, Recoverable, CommitCalled \/ CommitApplies \/ CommitFails
  PROVE  Recoverable'
<1> USE DEF Recoverable, Directories, CommittedKept, LedTo
<1>1. CASE CommitCalled
  BY <1>1 DEF CommitCalled
<1>2. CASE CommitApplies
  BY SMTT(30), <1>2, DatabasesValid DEF CommitApplies, CleanedUp, NoTxn, IInv, Shapes
<1>3. CASE CommitFails
  BY SMTT(30), <1>3 DEF CommitFails
<1>4. QED BY SMTT(30), <1>1, <1>2, <1>3

\* Abort, step by step: the link is gone only while there is no directory "data".
LEMMA AbortRecoverable ==
  ASSUME IInv, Recoverable,
         Abort \/ AbortPanics \/ AbortLocks \/ AbortUnlinks \/ AbortLinks \/ AbortSwaps
  PROVE  Recoverable'
<1> USE DEF Recoverable, Directories, CommittedKept, LedTo
<1>1. CASE Abort
  BY <1>1 DEF Abort, NoTxn, IInv, BaseKept, BackupBefore
<1>2. CASE AbortPanics
  BY <1>2 DEF AbortPanics
<1>3. CASE AbortLocks
  BY SMTT(30), <1>3 DEF AbortLocks
<1>4. CASE AbortUnlinks
  BY SMTT(30), <1>4, DatabasesValid DEF AbortUnlinks
<1>5. CASE AbortLinks
  BY SMTT(30), <1>5 DEF AbortLinks, IInv, BackupBefore, BaseKept
<1>6. CASE AbortSwaps
  BY SMTT(30), <1>6, DatabasesValid DEF AbortSwaps, CleanedUp, NoTxn, IInv, Shapes, BaseKept, BackupBefore
<1>7. QED BY <1>1, <1>2, <1>3, <1>4, <1>5, <1>6, SMTT(30)

\* The process dies at any of these steps, and starts again where it is led to.
LEMMA ProcessRecoverable ==
  ASSUME IInv, Recoverable, Crash \/ \E p \in env.partitions : Restart(p)
  PROVE  Recoverable'
<1>1. CASE Crash
  BY SMTT(30), <1>1, DatabasesValid DEF Crash, Recoverable, Directories, CommittedKept, LedTo, IInv, Shapes
<1>2. ASSUME NEW p \in env.partitions, Restart(p)
      PROVE  Recoverable'
  <2>1. /\ LedTo \in Databases /\ dirs' = {LedTo} /\ active' = LedTo /\ backup' = None
        /\ dbs' = [d \in Databases |-> IF d = LedTo THEN dbs[LedTo] ELSE Empty]
        /\ txn' = NoTxn /\ writer' = "idle" /\ committed' = dbs[LedTo] /\ link' = link
    BY SMTT(30), <1>2, DatabasesValid DEF Restart, LedTo, IInv, Shapes
  <2>2. LedTo' = LedTo
    BY <2>1 DEF LedTo
  <2>3. QED
    BY SMTT(30), <2>1, <2>2, DatabasesValid DEF Recoverable, Directories, CommittedKept, NoTxn
<1>3. QED BY SMTT(30), <1>1, <1>2

\* Every state of the store is recoverable.
THEOREM AlwaysRecoverable == Spec => []Recoverable
<1>1. IInv /\ Recoverable /\ [Next]_vars => Recoverable'
  <2> SUFFICES ASSUME IInv, Recoverable, [Next]_vars
               PROVE  Recoverable'
    OBVIOUS
  <2>1. CASE UNCHANGED vars
    BY SMTT(30), <2>1 DEF vars, Recoverable, Directories, CommittedKept, LedTo
  <2>2. CASE Next
    BY SMTT(30), <2>2, TransactionsRecoverable, TruncateRecoverable, CommitRecoverable, AbortRecoverable,
       ProcessRecoverable DEF Next
  <2>3. QED BY <2>1, <2>2
<1>2. QED BY <1>1, RecoverableInit, Inductive, PTL DEF Spec

\* A process that starts again finds what the last Commit left, where the earlier one had
\* not called Truncate or Abort had linked the backup, unless the link was just being
\* replaced: dataDir leads it to the database that was the active one, or to the backup.
THEOREM RestartFindsCommitted == Spec => RestartKeeps
<1>1. Recoverable /\ IInv /\ [Next]_vars => [RestartFinds]_vars
  <2> SUFFICES ASSUME Recoverable, IInv, Next, writer = "down", writer' = "idle",
                      CanRecover
               PROVE  dbs'[active'] = committed
    BY DEF RestartFinds
  <2>1. PICK p \in env.partitions : Restart(p)
    BY DEF Next, ReaderBegins, ReaderEnds, Usable, Begin, Write, Truncate, TruncateFails,
       CommitCalled, CommitApplies, CommitFails, Abort, AbortPanics, AbortLocks, AbortUnlinks,
       AbortLinks, AbortSwaps, Crash
  <2>2. LedTo \in dirs /\ active' = LedTo /\ (txn.truncates # 0 => LedTo = link /\ link = backup)
    BY <2>1 DEF Restart, LedTo, CanRecover, Recoverable, CommittedKept
  <2>3. dbs'[LedTo] = dbs[LedTo]
    BY <2>1, <2>2 DEF Restart, LedTo, IInv, Shapes
  <2>4. QED BY <2>2, <2>3 DEF Recoverable, CommittedKept
<1>2. QED BY <1>1, AlwaysRecoverable, Inductive, PTL DEF Spec, RestartKeeps

=============================================================================

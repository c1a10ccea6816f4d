----------------------------- MODULE DiskStore ------------------------------
(***************************************************************************)
(* storage/disk: one writer and many readers over a key-value database     *)
(* that a Truncate copies, a Commit or an Abort cleans up, and a process   *)
(* that may die at any step and start again with other partitions.         *)
(*                                                                         *)
(* A database is a directory with a key-value store.  The store uses the   *)
(* directory "data" until an aborted Truncate makes it use the backup; the *)
(* symbolic link "active" then leads a restart there.  What a closed       *)
(* database answers is not modelled: the store does nothing more.          *)
(*                                                                         *)
(* Policies are kept under keys of their own and are left out, as are the  *)
(* triggers, which run under the locks of Commit.                          *)
(***************************************************************************)
EXTENDS DiskPartitions

CONSTANTS Readers,       \* the clients that read
          Databases,     \* the directories, "data" being the first
          Settings       \* what an instance runs with:
                         \*   partitions: what New may be given
                         \*   writes: the patches a client may make
                         \*   truncates: what Truncate may be called with
                         \*   reads: whether there are readers
                         \*   faults: whether a commit or a Truncate may fail
                         \*   crashes: how often the process may die

\* A transaction calls Truncate at most this often: an activation of one bundle does.
MaxTruncates == 1

Data == "data"
None == "none"

ASSUME DatabasesValid == Data \in Databases /\ None \notin Databases

ASSUME SettingsValid ==
    \A s \in Settings : \A p \in s.partitions : SystemPartition \in p /\ IsDisjoint(p)

VARIABLES
    env,        \* the instance's member of Settings
    trie,       \* db.partitions, and the partitions of the stored metadata
    dirs,       \* the directories that exist
    dbs,        \* what is stored in each
    active,     \* db.db
    backup,     \* db.backupDB, None for nil
    link,       \* what the symbolic link leads to, None when it does not exist
    writer,     \* where the holder of wmu is
    txn,        \* the write transaction
    readers,    \* the read transactions: the database each is on, None for no one
    committed,  \* history: what the last Commit to return left
    crashes     \* history: how often the process died

vars == <<env, trie, dirs, dbs, active, backup, link, writer, txn, readers, committed, crashes>>

Empty == << >>
NoTxn == [kv |-> Empty, base |-> Empty, truncates |-> 0]

\* wmu is held in every state but "idle" and "down"; rmu is held, or waited for, in:
HoldsRmu == {"committing", "aborting", "locked", "unlinked", "linked", "stuck"}

NoReader == \A r \in Readers : readers[r] = None
Usable == writer # "down" /\ active \in dirs

Init ==
    /\ env \in Settings
    /\ trie \in env.partitions
    /\ dirs = {Data}
    /\ dbs = [d \in Databases |-> Empty]
    /\ active = Data
    /\ backup = None
    /\ link = None
    /\ writer = "idle"
    /\ txn = NoTxn
    /\ readers = [r \in Readers |-> None]
    /\ committed = Empty
    /\ crashes = 0

-----------------------------------------------------------------------------
(* Readers.                                                                *)

\* Mutant: readers overtake a Commit that waits for rmu.
ReaderBeginsAnyway(r) ==
    /\ env.reads
    /\ Usable
    /\ readers[r] = None
    /\ writer \notin HoldsRmu \ {"committing"}
    /\ readers' = [readers EXCEPT ![r] = active]
    /\ UNCHANGED <<env, trie, dirs, dbs, active, backup, link, writer, txn, committed, crashes>>

\* NewTransaction of a reader: a writer that waits for rmu goes first.
ReaderBegins(r) ==
    /\ env.reads
    /\ Usable
    /\ readers[r] = None
    /\ writer \notin HoldsRmu
    /\ readers' = [readers EXCEPT ![r] = active]
    /\ UNCHANGED <<env, trie, dirs, dbs, active, backup, link, writer, txn, committed, crashes>>

\* Commit or Abort of a reader.
ReaderEnds(r) ==
    /\ writer # "down"
    /\ readers[r] # None
    /\ readers' = [readers EXCEPT ![r] = None]
    /\ UNCHANGED <<env, trie, dirs, dbs, active, backup, link, writer, txn, committed, crashes>>

-----------------------------------------------------------------------------
(* The writer.                                                             *)

Begin ==
    /\ Usable
    /\ writer = "idle"
    /\ writer' = "open"
    /\ txn' = [kv |-> dbs[active], base |-> dbs[active], truncates |-> 0]
    /\ UNCHANGED <<env, trie, dirs, dbs, active, backup, link, readers, committed, crashes>>

Write(w) ==
    /\ writer = "open"
    /\ LET r == PartitionWrite(trie, txn.kv, w.op, w.path, w.value)
       IN  /\ r.ok
           /\ txn' = [txn EXCEPT !.kv = r.kv]
    /\ UNCHANGED <<env, trie, dirs, dbs, active, backup, link, writer, readers, committed, crashes>>

(* What Truncate adds: for a root "" everything goes first; an update with *)
(* no path holds the whole document, of which each root is written.        *)
UpdateWrites(t, u) ==
    IF u.path # <<>> THEN <<u>>
    ELSE LET present == SelectSeq(t.roots, LAMBDA r : r \in DOMAIN u.value)
         IN  [i \in DOMAIN present |-> [path |-> present[i], value |-> Sub(u.value, present[i])]]

TruncateWrites(t) ==
    (IF <<>> \in Range(t.roots) THEN << [path |-> <<>>, value |-> EmptyObject] >> ELSE <<>>)
    \o FoldLeft(LAMBDA ws, u : ws \o UpdateWrites(t, u), <<>>, t.updates)

Truncated(t) ==
    FoldLeft(LAMBDA r, w : IF r.ok THEN PartitionWrite(trie, r.kv, "add", w.path, w.value)
                           ELSE r,
             Written(txn.kv), TruncateWrites(t))

\* backupAndLoadDB: dir, a new directory, gets a copy of what is committed.
BackedUp(dir, kv) ==
    /\ dir \in Databases \ ({Data} \union dirs)
    /\ dirs' = dirs \union {dir}
    /\ backup' = dir
    /\ dbs' = [dbs EXCEPT ![dir] = dbs[active], ![active] = kv]

\* Mutant: the backup is taken after the transaction in flight is committed.
TruncateBacksUpLate(t, dir) ==
    /\ writer = "open"
    /\ txn.truncates < MaxTruncates
    /\ dir \in Databases \ ({Data} \union dirs)
    /\ Truncated(t).ok
    /\ dirs' = dirs \union {dir}
    /\ backup' = dir
    /\ dbs' = [dbs EXCEPT ![dir] = txn.kv, ![active] = Truncated(t).kv]
    /\ txn' = [txn EXCEPT !.kv = Truncated(t).kv, !.truncates = txn.truncates + 1]
    /\ UNCHANGED <<env, trie, active, link, writer, readers, committed, crashes>>

\* Truncate: back up, commit the transaction in flight, write and commit the updates,
\* and go on with a new underlying transaction.  It is one step here.  The code commits
\* again each time badger's transaction is full (ErrTxnTooBig); a crash between two of
\* these commits leaves part of the updates, and no property says what is found then.
Truncate(t, dir) ==
    /\ writer = "open"
    /\ txn.truncates < MaxTruncates
    /\ Truncated(t).ok
    /\ BackedUp(dir, Truncated(t).kv)
    /\ txn' = [txn EXCEPT !.kv = Truncated(t).kv, !.truncates = txn.truncates + 1]
    /\ UNCHANGED <<env, trie, active, link, writer, readers, committed, crashes>>

\* Truncate returns an error once it has committed the transaction in flight, which
\* stays marked stale.
TruncateFails(t, dir) ==
    /\ writer = "open"
    /\ txn.truncates < MaxTruncates
    /\ ~Truncated(t).ok \/ env.faults
    /\ BackedUp(dir, txn.kv)
    /\ txn' = [txn EXCEPT !.truncates = txn.truncates + 1]
    /\ writer' = "stale"
    /\ UNCHANGED <<env, trie, active, link, readers, committed, crashes>>

CommitCalled ==
    /\ writer = "open"
    /\ writer' = "committing"
    /\ UNCHANGED <<env, trie, dirs, dbs, active, backup, link, txn, readers, committed, crashes>>

\* cleanup: directory dir is closed and removed, with kv stored in the active one.
CleanedUp(dir, kv) ==
    /\ dirs' = dirs \ {dir}
    /\ dbs' = [d \in Databases |-> IF d = dir THEN Empty ELSE IF d = active THEN kv ELSE dbs[d]]

CommitApplies ==
    /\ writer = "committing"
    /\ NoReader
    /\ CleanedUp(backup, txn.kv)
    /\ backup' = None
    /\ committed' = txn.kv
    /\ txn' = NoTxn
    /\ writer' = "idle"
    /\ UNCHANGED <<env, trie, active, link, readers, crashes>>

\* The underlying commit fails: Commit returns with both locks held.
CommitFails ==
    /\ env.faults
    /\ writer = "committing"
    /\ NoReader
    /\ writer' = "stuck"
    /\ UNCHANGED <<env, trie, dirs, dbs, active, backup, link, txn, readers, committed, crashes>>

Abort ==
    /\ writer = "open"
    /\ IF backup = None
       THEN writer' = "idle" /\ txn' = NoTxn
       ELSE writer' = "aborting" /\ UNCHANGED txn
    /\ UNCHANGED <<env, trie, dirs, dbs, active, backup, link, readers, committed, crashes>>

\* Abort of a stale transaction panics, with wmu held.
AbortPanics ==
    /\ writer = "stale"
    /\ writer' = "panicked"
    /\ UNCHANGED <<env, trie, dirs, dbs, active, backup, link, txn, readers, committed, crashes>>

\* Mutant: Abort does not wait for the readers.
AbortLocksAtOnce ==
    /\ writer = "aborting"
    /\ writer' = "locked"
    /\ UNCHANGED <<env, trie, dirs, dbs, active, backup, link, txn, readers, committed, crashes>>

AbortLocks ==
    /\ writer = "aborting"
    /\ NoReader
    /\ writer' = "locked"
    /\ UNCHANGED <<env, trie, dirs, dbs, active, backup, link, txn, readers, committed, crashes>>

\* createSymlink: an existing link is removed first.
AbortUnlinks ==
    /\ writer = "locked"
    /\ link # None
    /\ link' = None
    /\ writer' = "unlinked"
    /\ UNCHANGED <<env, trie, dirs, dbs, active, backup, txn, readers, committed, crashes>>

AbortLinks ==
    /\ writer \in {"locked", "unlinked"}
    /\ link = None
    /\ link' = backup
    /\ writer' = "linked"
    /\ UNCHANGED <<env, trie, dirs, dbs, active, backup, txn, readers, committed, crashes>>

\* Swap and clean up; db.backupDB keeps its value.
AbortSwaps ==
    /\ writer = "linked"
    /\ active' = backup
    /\ CleanedUp(active, Empty)
    /\ txn' = NoTxn
    /\ writer' = "idle"
    /\ UNCHANGED <<env, trie, backup, link, readers, committed, crashes>>

-----------------------------------------------------------------------------
(* The process.                                                            *)

Crash ==
    /\ writer # "down"
    /\ crashes < env.crashes
    /\ crashes' = crashes + 1
    /\ writer' = "down"
    /\ readers' = [r \in Readers |-> None]
    /\ UNCHANGED <<env, trie, dirs, dbs, active, backup, link, txn, committed>>

\* Mutant: a restart ignores the symbolic link.
RestartInData(partitions) ==
    LET dir == Data
    IN  /\ writer = "down"
        /\ link # None => link \in dirs
        /\ dir \in dirs => ValidatePartitions(dbs[dir], trie, partitions)
        /\ trie' = partitions
        /\ dirs' = {dir}
        /\ dbs' = [d \in Databases |-> IF d = dir THEN dbs[dir] ELSE Empty]
        /\ active' = dir
        /\ backup' = None
        /\ txn' = NoTxn
        /\ committed' = dbs[dir]
        /\ writer' = "idle"
        /\ UNCHANGED <<env, link, readers, crashes>>

\* New: dataDir, badger.Open (which makes the directory "data" when there is none), init.
\* A link to a directory that is gone is an error.  What an aborted or lost transaction
\* left in other directories stays there and is left out here: the store only opens it
\* again if that directory is "data" and the link is lost, which the store itself never
\* does but in the instant between its removal and its replacement.
Restart(partitions) ==
    LET dir == IF link = None THEN Data ELSE link
    IN  /\ writer = "down"
        /\ link # None => link \in dirs
        /\ dir \in dirs => ValidatePartitions(dbs[dir], trie, partitions)
        /\ trie' = partitions
        /\ dirs' = {dir}
        /\ dbs' = [d \in Databases |-> IF d = dir THEN dbs[dir] ELSE Empty]
        /\ active' = dir
        /\ backup' = None
        /\ txn' = NoTxn
        /\ committed' = dbs[dir]
        /\ writer' = "idle"
        /\ UNCHANGED <<env, link, readers, crashes>>

Next ==
    \/ \E r \in Readers : ReaderBegins(r)
    \/ \E r \in Readers : ReaderEnds(r)
    \/ Begin
    \/ \E w \in env.writes : Write(w)
    \/ \E t \in env.truncates, dir \in Databases : Truncate(t, dir)
    \/ \E t \in env.truncates, dir \in Databases : TruncateFails(t, dir)
    \/ CommitCalled
    \/ CommitApplies
    \/ CommitFails
    \/ Abort
    \/ AbortPanics
    \/ AbortLocks
    \/ AbortUnlinks
    \/ AbortLinks
    \/ AbortSwaps
    \/ Crash
    \/ \E p \in env.partitions : Restart(p)

Spec == Init /\ [][Next]_vars

(* A client ends its read transactions, and what Commit and Abort do, once *)
(* they have their locks, they do.  Clients need not write, nor crash.     *)
Fairness ==
    /\ \A r \in Readers : WF_vars(ReaderEnds(r))
    /\ WF_vars(CommitApplies)
    /\ WF_vars(AbortLocks)
    /\ WF_vars(AbortUnlinks)
    /\ WF_vars(AbortLinks)
    /\ WF_vars(AbortSwaps)

FairSpec == Spec /\ Fairness
-----------------------------------------------------------------------------
(* Properties.                                                             *)

Writers == {"idle", "open", "stale", "panicked", "down"} \union HoldsRmu

\* Everything has its type, and the transaction is gone when wmu is free (Commit, Abort).
TypeOK ==
    /\ env \in Settings
    /\ trie \in env.partitions
    /\ dirs \subseteq Databases
    /\ DOMAIN dbs = Databases
    /\ active \in Databases
    /\ {backup, link} \subseteq Databases \union {None}
    /\ writer \in Writers
    /\ writer = "idle" => txn = NoTxn
    /\ readers \in [Readers -> Databases \union {None}]

\* What a path of a document leads to, as the keys kv make up the document.
Found(kv, path) ==
    IF kv # Empty /\ path \in DOMAIN Whole(kv) THEN Sub(Whole(kv), path) ELSE NoDocument

Probes(kv) ==
    DOMAIN Whole(kv) \union {w.path : w \in env.writes}

\* Reading a path (Read, through partitionTrie.Find) gives what reading everything
\* and going down the path gives, whatever was written, also when a restart has added
\* partitions to those it was written under (txn.go Read, disk.go validatePartitions).
\* It does not when a restart puts a pattern in the place of a partition.
PointReadsAgree ==
    writer # "down" =>
        \A kv \in {dbs[active], txn.kv} : \A path \in Probes(kv) :
            Read(trie, kv, path) = Found(kv, path)

\* The values of a document that are neither objects nor null: what objects a store
\* holds that have nothing in them depends on its partitions.
Leaves(d) == Restrict(d, {q \in DOMAIN d : d[q] \notin {"obj", "null"}})

\* The document with the objects on the way to path, which the disk store implies.
WithDirs(d, path) ==
    LET missing == {SubSeq(path, 1, i) : i \in 0..(Len(path) - 1)}
    IN  Restrict(d, {q \in DOMAIN d : ~(q \in missing /\ d[q] = "null")})
        @@ [q \in missing |-> "obj"]

WritesLikeAPatch ==
    \A w \in env.writes :
        LET before == Whole(txn.kv)
        IN  Write(w) /\ (w.op = "add" \/ w.path \in DOMAIN before) =>
                Leaves(Whole(txn.kv')) =
                    Leaves(Patch(WithDirs(before, w.path), w.op, w.path, w.value))

\* A write that adds, or that changes what exists, has on the document the effect the
\* patch has, however the document is split over keys (txn.go Write, partitionWrite,
\* patch).
WriteIsPatch == [][WritesLikeAPatch]_vars

AbortPutsBack ==
    writer \in {"open", "linked"} /\ writer' = "idle" /\ active' \in dirs'
        => dbs'[active'] = txn.base

\* An aborted transaction leaves the store as it found it, the writes a Truncate has
\* committed in the meantime included, where the store's database still exists (disk.go
\* Abort, Truncate; ActiveExists is about the rest).
AbortRestores == [][AbortPutsBack]_vars

\* The database a reader reads from is neither closed nor removed before the reader is
\* done (the rmu.Lock of Commit and of Abort).
ReadersUndisturbed ==
    \A r \in Readers : readers[r] # None => readers[r] \in dirs

\* What the process that is down was doing left a way back: no Truncate, or one that an
\* Abort has already made good.
CanRecover == IF txn.truncates = 0 THEN link # None \/ Data \in dirs ELSE link = backup

RestartFinds ==
    writer = "down" /\ writer' = "idle" /\ CanRecover => dbs'[active'] = committed

\* A process that died in or between transactions that had not called Truncate, or in an
\* Abort that had made the link lead to the backup, finds what the last Commit left once
\* it has started again, whatever directory that is in (dataDir, createSymlink).  Nothing
\* is said of one that died after a Truncate, which commits into the database in use,
\* and before Commit returned or Abort had made the link, nor of one that died in the
\* instant of an Abort in which there is no link, with "data" gone.
RestartKeeps == [][RestartFinds]_vars

\* Commit and Abort get their locks: they wait for the readers there are, not for those
\* to come (the sync.RWMutex rmu).
CommitReturns ==
    /\ writer = "committing" ~> writer # "committing"
    /\ writer = "aborting" ~> writer # "aborting"

\* The database the store uses is there (disk.go:107, backupDB is a backup of it).
ActiveExists == Usable \/ writer = "down"

RemovesOnly ==
    \A w \in env.writes : Write(w) /\ w.op = "remove" =>
        DOMAIN Whole(txn.kv') \subseteq DOMAIN Whole(txn.kv)

\* Removing a path adds nothing to the document.
RemoveAddsNothing == [][RemovesOnly]_vars
=============================================================================

----------------------------- MODULE LocalStorage -----------------------------
(***************************************************************************)
(* The persistent local storage of one origin: the map scripts work on,    *)
(* StorageAreaSync, which hands changes to the storage thread at most once *)
(* a second, the thread that writes them into the origin's database, the   *)
(* tracker's thread, which deletes the database, and the end of the        *)
(* process, in order or not.  A SQLite transaction is one step and         *)
(* survives the process.  Calls that change nothing (a full quota, private *)
(* browsing, an equal value) are left out, and so is scheduleSync(), which *)
(* nothing in this port calls.                                             *)
(***************************************************************************)
EXTENDS Naturals, Sequences, FiniteSets

CONSTANTS
    Keys, Values,
    Null,         \* the null string: no such item, or one to be removed
    Same,         \* not among the changed items
    MaxItems,     \* MaxiumItemsToSync
    MaxChanges,   \* bound: changes by scripts and the application
    MaxCrashes    \* bound: processes that end without closing

ASSUME ConstAssumption ==
    /\ Null \notin Values /\ Same \notin Values /\ Null # Same
    /\ MaxItems \in Nat /\ MaxChanges \in Nat /\ MaxCrashes \in Nat

VARIABLES
    \* The main thread's.
    map,         \* m_storageMap
    changed,     \* m_changedItems
    cleared,     \* m_itemsCleared
    timer,       \* m_syncTimer is active
    life,        \* the process and its area: off, importing, running, closing, closed
    \* Under m_syncLock.
    pending,     \* m_itemsPendingSync
    clearing,    \* m_clearItemsWhileSyncing
    scheduled,   \* m_syncScheduled
    \* The storage thread's, and its queue.
    queue,
    task,        \* performSync() in progress: where it is, and what it writes
    open,        \* m_database.isOpen()
    openFailed,  \* m_databaseOpenFailed
    closeDb,     \* m_syncCloseDatabase, set by the main thread without a lock
    \* The file and the tracker.
    db,          \* the items in the file
    exists,      \* there is a file
    linked,      \* the open database is that file, not one deleted meanwhile
    doomed,      \* the origin is in m_originsBeingDeleted
    deletions,   \* tasks of the tracker's thread to delete the origin
    \* For the properties and bounds.
    seen,        \* the contents that the map has had since it was imported, and
                 \* the file's if it could not be imported
    upset,       \* what has happened since then: see Events
    changes, crashes

mainVars == <<map, changed, cleared, timer, life>>
lockVars == <<pending, clearing, scheduled>>
threadVars == <<queue, task, open, openFailed, closeDb>>
fileVars == <<db, exists, linked>>
trackerVars == <<doomed, deletions>>
vars == <<mainVars, lockVars, threadVars, fileVars, trackerVars, seen, upset, changes, crashes>>

Content == [Keys -> Values \cup {Null}]
Changes == [Keys -> Values \cup {Null, Same}]
Empty == [k \in Keys |-> Null]
NoChanges == [k \in Keys |-> Same]
Idle == [at |-> "idle", clear |-> FALSE, items |-> NoChanges]

\* fault: a statement or the database has failed.  deletion: the application has
\* cleared the origin.  cut: a sync has left items for the next one.  clash: it
\* has done so while items of an earlier one were waiting.
Events == {"fault", "deletion", "cut", "clash"}

\* c with the changes ch made to it.
Over(c, ch) == [k \in Keys |-> IF ch[k] = Same THEN c[k] ELSE ch[k]]

Base(c, clear) == IF clear THEN Empty ELSE c

Init ==
    /\ map = Empty /\ changed = NoChanges /\ cleared = FALSE /\ timer = FALSE /\ life = "off"
    /\ pending = NoChanges /\ clearing = FALSE /\ scheduled = FALSE
    /\ queue = <<>> /\ task = Idle /\ open = FALSE /\ openFailed = FALSE /\ closeDb = FALSE
    /\ db = Empty /\ exists = FALSE /\ linked = FALSE
    /\ doomed = FALSE /\ deletions = 0
    /\ seen = {} /\ upset = {} /\ changes = 0 /\ crashes = 0

(***************************************************************************)
(* The main thread.                                                        *)
(***************************************************************************)

\* A process starts, and a page uses the origin's storage.
Create ==
    /\ life \in {"off", "closed"}
    /\ map' = Empty /\ changed' = NoChanges /\ cleared' = FALSE /\ timer' = FALSE /\ life' = "importing"
    /\ pending' = NoChanges /\ clearing' = FALSE /\ scheduled' = FALSE
    /\ queue' = <<"import">> /\ task' = Idle
    /\ open' = FALSE /\ openFailed' = FALSE /\ closeDb' = FALSE /\ linked' = FALSE
    /\ doomed' = FALSE /\ deletions' = 0
    /\ seen' = {} /\ upset' = {}
    /\ UNCHANGED <<db, exists, changes, crashes>>

Change == life = "running" /\ changes < MaxChanges /\ changes' = changes + 1

\* scheduleItemForSync() of a key's new value, or of Null.
ScheduleItemForSync(k, v) ==
    /\ map' = [map EXCEPT ![k] = v]
    /\ changed' = [changed EXCEPT ![k] = v]
    /\ timer' = TRUE
    /\ seen' = seen \cup {map'}
    /\ UNCHANGED <<cleared, life, lockVars, threadVars, fileVars, trackerVars, upset, crashes>>

SetItem(k, v) ==
    /\ Change
    /\ map[k] # v
    /\ ScheduleItemForSync(k, v)

RemoveItem(k) ==
    /\ Change
    /\ map[k] # Null
    /\ ScheduleItemForSync(k, Null)

\* As it would be if the changes before were kept.
ScheduleClearKeeps ==
    /\ map' = Empty
    /\ cleared' = TRUE
    /\ timer' = TRUE
    /\ seen' = seen \cup {Empty}
    /\ UNCHANGED changed

ScheduleClear ==
    /\ map' = Empty
    /\ changed' = NoChanges
    /\ cleared' = TRUE
    /\ timer' = TRUE
    /\ seen' = seen \cup {Empty}

Clear ==
    /\ Change
    /\ map # Empty
    /\ ScheduleClear
    /\ UNCHANGED <<life, lockVars, threadVars, fileVars, trackerVars, upset, crashes>>

\* clearForOriginDeletion(), for clearLocalStorage() or by the tracker, which
\* also has its thread delete the file.
ClearForOriginDeletion(tracked) ==
    /\ Change
    /\ ScheduleClear
    /\ closeDb' = (closeDb \/ open)
    /\ doomed' = (doomed \/ tracked)
    /\ deletions' = IF tracked THEN deletions + 1 ELSE deletions
    /\ upset' = upset \cup {"deletion"}
    /\ UNCHANGED <<life, lockVars, queue, task, open, openFailed, fileVars, crashes>>

Touched(ch) == {k \in Keys : ch[k] # Same}

\* syncTimerFired() under the lock: the items that wait and those copied.
Collect(copied) ==
    /\ pending' = [k \in Keys |-> IF k \in copied THEN changed[k] ELSE IF cleared THEN Same ELSE pending[k]]
    /\ clearing' = (clearing \/ cleared)
    /\ cleared' = FALSE
    /\ scheduled' = TRUE

Scheduled == IF scheduled THEN queue ELSE Append(queue, "sync")

\* While a sync is in progress the timer is only started again.
SyncTimerFires ==
    /\ timer /\ life = "running"
    /\ task = Idle
    /\ Cardinality(Touched(changed)) <= MaxItems
    /\ Collect(Touched(changed))
    /\ changed' = NoChanges
    /\ timer' = FALSE
    /\ queue' = Scheduled
    /\ UNCHANGED <<map, life, task, open, openFailed, closeDb, fileVars, trackerVars,
                   seen, upset, changes, crashes>>

\* As it would be if the timer were not started again.
SyncTimerFiresPartlyOnce(copied) ==
    /\ timer /\ life = "running"
    /\ task = Idle
    /\ Cardinality(Touched(changed)) > MaxItems
    /\ copied \subseteq Touched(changed) /\ Cardinality(copied) = MaxItems
    /\ Collect(copied)
    /\ changed' = [k \in Keys |-> IF pending'[k] # Same THEN Same ELSE changed[k]]
    /\ queue' = Scheduled
    /\ timer' = FALSE
    /\ upset' = upset \cup {"cut"} \cup IF pending # NoChanges THEN {"clash"} ELSE {}
    /\ UNCHANGED <<map, life, task, open, openFailed, closeDb, fileVars, trackerVars,
                   seen, changes, crashes>>

\* A partial sync: some MaxItems items are copied, in the order of the hash map,
\* and all that wait are removed from the changed ones.
SyncTimerFiresPartly(copied) ==
    /\ timer /\ life = "running"
    /\ task = Idle
    /\ Cardinality(Touched(changed)) > MaxItems
    /\ copied \subseteq Touched(changed) /\ Cardinality(copied) = MaxItems
    /\ Collect(copied)
    /\ changed' = [k \in Keys |-> IF pending'[k] # Same THEN Same ELSE changed[k]]
    /\ queue' = Scheduled
    /\ upset' = upset \cup {"cut"} \cup IF pending # NoChanges THEN {"clash"} ELSE {}
    /\ UNCHANGED <<map, timer, life, task, open, openFailed, closeDb, fileVars, trackerVars,
                   seen, changes, crashes>>

\* As it would be if the thread were ended without the final sync.
CloseNow ==
    /\ life = "running"
    /\ life' = "closing"
    /\ timer' = FALSE
    /\ queue' = Append(queue, "terminate")
    /\ UNCHANGED <<map, changed, cleared, lockVars, task, open, openFailed, closeDb, fileVars,
                   trackerVars, seen, upset, changes, crashes>>

\* closeLocalStorage(): the final sync, of all items whatever is in progress; then
\* the main thread waits for the storage thread.
Close ==
    /\ life = "running"
    /\ life' = "closing"
    /\ Collect(Touched(changed))
    /\ changed' = NoChanges
    /\ timer' = FALSE
    /\ queue' = Append(Append(Scheduled, "deleteEmpty"), "terminate")
    /\ UNCHANGED <<map, task, open, openFailed, closeDb, fileVars, trackerVars,
                   seen, upset, changes, crashes>>

(***************************************************************************)
(* The storage thread.                                                     *)
(***************************************************************************)

Takes(t) == task = Idle /\ queue # <<>> /\ Head(queue) = t /\ queue' = Tail(queue)

\* performImport(): a file that exists is opened, which saves it from deletion.
Import ==
    /\ Takes("import")
    /\ open' = exists /\ linked' = exists
    /\ doomed' = (doomed /\ ~exists)
    /\ map' = db
    /\ seen' = {db}
    /\ life' = "running"
    /\ UNCHANGED <<changed, cleared, timer, lockVars, task, openFailed, closeDb, db, exists,
                   deletions, upset, changes, crashes>>

\* The file cannot be found, opened or read: the map stays empty.
ImportFails ==
    /\ Takes("import")
    /\ exists
    /\ open' \in BOOLEAN /\ openFailed' \in BOOLEAN
    /\ linked' = open'
    /\ doomed' \in {doomed, FALSE}
    /\ seen' = {Empty, db}
    /\ life' = "running"
    /\ upset' = upset \cup {"fault"}
    /\ UNCHANGED <<map, changed, cleared, timer, lockVars, task, closeDb, db, exists,
                   deletions, changes, crashes>>

\* As it would be if a sync queued the next one itself.
PerformSyncAgain ==
    /\ task = Idle /\ queue # <<>> /\ Head(queue) = "sync"
    /\ task' = [at |-> "open", clear |-> clearing, items |-> pending]
    /\ pending' = NoChanges
    /\ clearing' = FALSE
    /\ UNCHANGED <<scheduled, queue, mainVars, open, openFailed, closeDb, fileVars, trackerVars,
                   seen, upset, changes, crashes>>

\* performSync() takes what waits.
PerformSync ==
    /\ Takes("sync")
    /\ task' = [at |-> "open", clear |-> clearing, items |-> pending]
    /\ pending' = NoChanges
    /\ clearing' = FALSE
    /\ scheduled' = FALSE
    /\ UNCHANGED <<mainVars, open, openFailed, closeDb, fileVars, trackerVars,
                   seen, upset, changes, crashes>>

\* sync() returns at once.
SyncsNothing ==
    /\ task.at = "open"
    /\ (task.items = NoChanges /\ ~task.clear) \/ openFailed
    /\ task' = Idle
    /\ UNCHANGED <<mainVars, lockVars, queue, open, openFailed, closeDb, fileVars, trackerVars,
                   seen, upset, changes, crashes>>

\* The database is open, or is opened now and saved from deletion.
OpenDatabase ==
    /\ task.at = "open"
    /\ task.items # NoChanges \/ task.clear
    /\ ~openFailed
    /\ open' = TRUE
    /\ exists' = (exists \/ ~open) /\ linked' = (linked \/ ~open)
    /\ doomed' = (doomed /\ open)
    /\ task' = [task EXCEPT !.at = "close"]
    /\ UNCHANGED <<mainVars, lockVars, queue, openFailed, closeDb, db, deletions,
                   seen, upset, changes, crashes>>

OpenDatabaseFails ==
    /\ task.at = "open"
    /\ task.items # NoChanges \/ task.clear
    /\ ~openFailed /\ ~open
    /\ openFailed' = TRUE
    /\ doomed' \in {doomed, FALSE}
    /\ task' = Idle
    /\ upset' = upset \cup {"fault"}
    /\ UNCHANGED <<mainVars, lockVars, queue, open, closeDb, fileVars, deletions,
                   seen, changes, crashes>>

\* The table cannot be created.  The database is open, and this sync goes on.
OpenDatabaseWithoutTable ==
    /\ task.at = "open"
    /\ task.items # NoChanges \/ task.clear
    /\ ~openFailed /\ ~open
    /\ openFailed' = TRUE
    /\ open' = TRUE /\ exists' = TRUE /\ linked' = TRUE
    /\ doomed' = FALSE
    /\ task' = [task EXCEPT !.at = "close"]
    /\ upset' = upset \cup {"fault"}
    /\ UNCHANGED <<mainVars, lockVars, queue, closeDb, db, deletions, seen, changes, crashes>>

\* Closed for the tracker: nothing is written.
CloseDatabase ==
    /\ task.at = "close"
    /\ closeDb
    /\ closeDb' = FALSE
    /\ open' = FALSE /\ linked' = FALSE
    /\ task' = Idle
    /\ UNCHANGED <<mainVars, lockVars, queue, openFailed, db, exists, trackerVars,
                   seen, upset, changes, crashes>>

Written(c) == IF linked THEN c ELSE db

\* "DELETE FROM ItemTable", a transaction of its own.
ClearItems ==
    /\ task.at = "close"
    /\ ~closeDb
    /\ db' = Written(Base(db, task.clear))
    /\ task' = [task EXCEPT !.at = "write"]
    /\ UNCHANGED <<mainVars, lockVars, queue, open, openFailed, closeDb, exists, linked, trackerVars,
                   seen, upset, changes, crashes>>

\* As it would be without a transaction.
WriteItemsSingly ==
    /\ task.at = "write"
    /\ \/ /\ task.items = NoChanges
          /\ task' = Idle /\ db' = db
       \/ \E k \in Touched(task.items) :
            /\ db' = Written([db EXCEPT ![k] = task.items[k]])
            /\ task' = IF Touched(task.items) = {k} THEN Idle ELSE [task EXCEPT !.items[k] = Same]
    /\ UNCHANGED <<mainVars, lockVars, queue, open, openFailed, closeDb, exists, linked, trackerVars,
                   seen, upset, changes, crashes>>

\* All items in one transaction.
WriteItems ==
    /\ task.at = "write"
    /\ db' = Written(Over(db, task.items))
    /\ task' = Idle
    /\ UNCHANGED <<mainVars, lockVars, queue, open, openFailed, closeDb, exists, linked, trackerVars,
                   seen, upset, changes, crashes>>

\* A statement fails.  The items before it are committed.
WriteFails(written) ==
    /\ task.at \in {"close", "write"}
    /\ task.at = "close" => ~closeDb /\ written = {}
    /\ written \subseteq Touched(task.items)
    /\ db' = Written([k \in Keys |-> IF k \in written THEN task.items[k] ELSE db[k]])
    /\ task' = Idle
    /\ upset' = upset \cup {"fault"}
    /\ UNCHANGED <<mainVars, lockVars, queue, open, openFailed, closeDb, exists, linked, trackerVars,
                   seen, changes, crashes>>

\* An empty database is closed and deleted, by the tracker if it gets that far.
\* That the tracker clears the closed area once more is left out.
DeleteEmptyDatabase ==
    /\ Takes("deleteEmpty")
    /\ open' = (open /\ db # Empty)
    /\ exists' \in IF open /\ db = Empty THEN BOOLEAN ELSE {exists}
    /\ UNCHANGED <<mainVars, lockVars, task, openFailed, closeDb, db, linked, trackerVars,
                   seen, upset, changes, crashes>>

PerformTerminate ==
    /\ Takes("terminate")
    /\ life' = "closed"
    /\ UNCHANGED <<map, changed, cleared, timer, lockVars, task, open, openFailed, closeDb, fileVars,
                   trackerVars, seen, upset, changes, crashes>>

(***************************************************************************)
(* The tracker's thread, and the end of the process.                       *)
(***************************************************************************)

\* The file is deleted if the deletion was not cancelled and the tracker knows it.
SyncDeleteOrigin ==
    /\ deletions > 0
    /\ life \notin {"off", "closed"}
    /\ deletions' = deletions - 1
    /\ \/ doomed /\ db' = Empty /\ exists' = FALSE /\ linked' = FALSE
       \/ UNCHANGED fileVars
    /\ UNCHANGED <<mainVars, lockVars, threadVars, doomed, seen, upset, changes, crashes>>

\* The process ends without closing the storage.  The file is what it is.
Crash ==
    /\ life \notin {"off", "closed"}
    /\ crashes < MaxCrashes
    /\ crashes' = crashes + 1
    /\ map' = Empty /\ changed' = NoChanges /\ cleared' = FALSE /\ timer' = FALSE /\ life' = "off"
    /\ pending' = NoChanges /\ clearing' = FALSE /\ scheduled' = FALSE
    /\ queue' = <<>> /\ task' = Idle
    /\ open' = FALSE /\ openFailed' = FALSE /\ closeDb' = FALSE /\ linked' = FALSE
    /\ doomed' = FALSE /\ deletions' = 0
    /\ UNCHANGED <<db, exists, seen, upset, changes>>

Thread ==
    \/ Import \/ ImportFails
    \/ PerformSync \/ SyncsNothing \/ OpenDatabase
    \/ OpenDatabaseFails \/ OpenDatabaseWithoutTable
    \/ CloseDatabase \/ ClearItems \/ WriteItems
    \/ \E written \in SUBSET Keys : WriteFails(written)
    \/ DeleteEmptyDatabase \/ PerformTerminate

Next ==
    \/ Create
    \/ \E k \in Keys : RemoveItem(k) \/ \E v \in Values : SetItem(k, v)
    \/ Clear
    \/ \E tracked \in BOOLEAN : ClearForOriginDeletion(tracked)
    \/ SyncTimerFires
    \/ \E copied \in SUBSET Keys : SyncTimerFiresPartly(copied)
    \/ Close
    \/ Thread
    \/ SyncDeleteOrigin
    \/ Crash

Spec == Init /\ [][Next]_vars

\* The timer fires again until no sync is in progress, and the thread runs.
FairSpec ==
    /\ Spec
    /\ WF_vars(SyncTimerFires \/ \E copied \in SUBSET Keys : SyncTimerFiresPartly(copied))
    /\ WF_vars(Thread)

(***************************************************************************)
(* Properties.                                                             *)
(***************************************************************************)

\* Every variable has its type.
TypeOK ==
    /\ map \in Content /\ changed \in Changes /\ cleared \in BOOLEAN /\ timer \in BOOLEAN
    /\ life \in {"off", "importing", "running", "closing", "closed"}
    /\ pending \in Changes /\ clearing \in BOOLEAN /\ scheduled \in BOOLEAN
    /\ queue \in Seq({"import", "sync", "deleteEmpty", "terminate"})
    /\ task \in [at : {"idle", "open", "close", "write"}, clear : BOOLEAN, items : Changes]
    /\ open \in BOOLEAN /\ openFailed \in BOOLEAN /\ closeDb \in BOOLEAN
    /\ db \in Content /\ exists \in BOOLEAN /\ linked \in BOOLEAN
    /\ doomed \in BOOLEAN /\ deletions \in Nat
    /\ seen \subseteq Content /\ upset \subseteq Events
    /\ changes \in 0..MaxChanges /\ crashes \in 0..MaxCrashes

\* What the file will hold when the thread has written what it has taken, then
\* what waits for it, and then what has changed since.
AfterTask == Over(Base(db, task.at \in {"open", "close"} /\ task.clear), task.items)
AfterPending == Over(Base(AfterTask, clearing), pending)
AfterChanges == Over(Base(AfterPending, cleared), changed)

\* No change is lost or undone on its way through three sets of items and three
\* flags: the map is what the file will hold, however timer, thread and scripts
\* interleave, unless the database failed, the origin was deleted or a partial
\* sync met an earlier one.
Accounted == (life \in {"running", "closing", "closed"} /\ upset \subseteq {"cut"}) => map = AfterChanges

\* When local storage was closed, everything is in the file: the final sync runs
\* even if one is in progress, and before the thread ends.  Except if the database
\* failed, the origin was deleted or a partial sync met an earlier one.
ClosedIsSaved == (life = "closed" /\ upset \subseteq {"cut"}) => db = map

\* What the file holds, whenever the process may die.  After syncs of all items,
\* failures and deletions apart, it is a content that the map has had, although
\* the clear and the items are two transactions.  A sync that leaves items for the
\* next one, a failed statement or a closed database leave a mixture of contents;
\* always, each item is one that the map has had for its key.
Recoverable ==
    life \notin {"off", "importing"} =>
        /\ upset = {} => db \in seen
        /\ \A k \in Keys : \E c \in seen : db[k] = c[k]

\* What changes is handed over and written, or given up, and the thread rests.
ChangesAreTaken ==
    []<>(changed = NoChanges /\ ~cleared /\ pending = NoChanges /\ ~clearing /\ task = Idle)

\* The main thread, which waits for the storage thread, goes on.
CloseEnds == life = "closing" ~> life # "closing"

\* Also a partial sync leaves nothing out: "If we didn't finish syncing, then we
\* need to finish the job later."
PartialSyncFinishesLater ==
    (life \in {"running", "closing", "closed"} /\ upset \subseteq {"cut", "clash"}) => map = AfterChanges
================================================================================

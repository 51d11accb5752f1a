-------------------------- MODULE LocalStorageProofs --------------------------
(***************************************************************************)
(* Proofs about LocalStorage, for any keys, values and bounds.             *)
(***************************************************************************)
EXTENDS LocalStorage, SequenceTheorems, TLAPS

Queues == {<<>>, <<"import">>, <<"sync">>, <<"sync", "deleteEmpty", "terminate">>,
           <<"deleteEmpty", "terminate">>, <<"terminate">>}

\* The types, with the queues that there are.
Types ==
    /\ map \in Content /\ changed \in Changes /\ cleared \in BOOLEAN /\ timer \in BOOLEAN
    /\ life \in {"off", "importing", "running", "closing", "closed"}
    /\ pending \in Changes /\ clearing \in BOOLEAN /\ scheduled \in BOOLEAN
    /\ queue \in Queues
    /\ task \in [at : {"idle", "open", "close", "write"}, clear : BOOLEAN, items : Changes]
    /\ open \in BOOLEAN /\ openFailed \in BOOLEAN /\ closeDb \in BOOLEAN
    /\ db \in Content /\ exists \in BOOLEAN /\ linked \in BOOLEAN
    /\ doomed \in BOOLEAN /\ deletions \in Nat
    /\ seen \subseteq Content /\ upset \subseteq Events
    /\ changes \in 0..MaxChanges /\ crashes \in 0..MaxCrashes

\* What the queue holds in each part of the area's life.
QueueInv ==
    /\ life \in {"off", "closed"} => queue = <<>>
    /\ life = "importing" <=> queue = <<"import">>
    /\ life = "running" => queue \in {<<>>, <<"sync">>}
    /\ life = "closing" => queue \notin {<<>>, <<"import">>, <<"sync">>}
    /\ scheduled <=> queue \in {<<"sync">>, <<"sync", "deleteEmpty", "terminate">>}

\* Where changes can be.
PlaceInv ==
    /\ ~scheduled => pending = NoChanges /\ ~clearing
    /\ life # "running" => changed = NoChanges /\ ~cleared
    /\ task.at = "idle" => task = Idle
    /\ life \notin {"running", "closing"} => task = Idle
    /\ life = "importing" => map = Empty /\ upset = {}
    /\ task.at \in {"close", "write"} => open

\* What a deletion or a failure would have disturbed is as it should be.
FileInv ==
    /\ "deletion" \notin upset => ~doomed /\ deletions = 0 /\ ~closeDb
    /\ ("deletion" \notin upset /\ open) => linked
    /\ "fault" \notin upset => ~openFailed

IInv == Types /\ QueueInv /\ PlaceInv /\ FileInv

(***************************************************************************)
(* Contents and changes.                                                   *)
(***************************************************************************)

\* The empty content and no changes have their types.
LEMMA Constants ==
    /\ Empty \in Content /\ NoChanges \in Changes
    /\ Idle \in [at : {"idle", "open", "close", "write"}, clear : BOOLEAN, items : Changes]
BY DEF Empty, Content, NoChanges, Changes, Idle

\* Changes made to a content give a content.
LEMMA OverContent ==
    ASSUME NEW c \in Content, NEW ch \in Changes
    PROVE  Over(c, ch) \in Content
BY DEF Over, Content, Changes

\* A content, cleared or not, is a content.
LEMMA BaseContent ==
    ASSUME NEW c \in Content, NEW b \in BOOLEAN
    PROVE  Base(c, b) \in Content /\ Base(c, FALSE) = c /\ Base(c, TRUE) = Empty
BY Constants DEF Base

\* No changes change nothing.
LEMMA OverNothing ==
    ASSUME NEW c \in Content
    PROVE  Over(c, NoChanges) = c
BY DEF Over, Content, NoChanges

\* One more change is made last.
LEMMA OverOne ==
    ASSUME NEW c \in Content, NEW ch \in Changes, NEW k \in Keys, NEW v \in Values \cup {Null}
    PROVE  /\ [ch EXCEPT ![k] = v] \in Changes
           /\ Over(c, [ch EXCEPT ![k] = v]) = [Over(c, ch) EXCEPT ![k] = v]
<1>1. v # Same BY ConstAssumption
<1>2. [ch EXCEPT ![k] = v] \in Changes BY DEF Changes
<1>3. \A j \in Keys : Over(c, [ch EXCEPT ![k] = v])[j] = [Over(c, ch) EXCEPT ![k] = v][j]
  BY <1>1 DEF Over, Content, Changes
<1>. QED BY <1>2, <1>3 DEF Over

\* Changes to what was changed before are one set of changes, the later first.
LEMMA OverOver ==
    ASSUME NEW c \in Content, NEW p \in Changes, NEW ch \in Changes
    PROVE  LET m == [k \in Keys |-> IF ch[k] # Same THEN ch[k] ELSE p[k]]
           IN  m \in Changes /\ Over(Over(c, p), ch) = Over(c, m)
BY DEF Over, Content, Changes

\* What the file will hold are contents.
LEMMA AfterContents ==
    ASSUME Types
    PROVE  AfterTask \in Content /\ AfterPending \in Content /\ AfterChanges \in Content
<1>1. Base(db, task.at \in {"open", "close"} /\ task.clear) \in Content BY BaseContent DEF Types
<1>2. AfterTask \in Content BY <1>1, OverContent DEF AfterTask, Types
<1>3. AfterPending \in Content BY <1>2, BaseContent, OverContent DEF AfterPending, Types
<1>4. AfterChanges \in Content BY <1>3, BaseContent, OverContent DEF AfterChanges, Types
<1>. QED BY <1>2, <1>3, <1>4

(***************************************************************************)
(* The invariant of queue, flags and file.                                 *)
(***************************************************************************)

\* A task appended to a queue of one, and to a queue of two.
LEMMA AppendTask ==
    ASSUME NEW S, NEW x \in S, NEW y \in S, NEW z \in S
    PROVE  Append(<<x>>, y) = <<x, y>> /\ Append(<<x, y>>, z) = <<x, y, z>>
<1>1. Append(<<x>>, y) = <<x, y>>
  <2>. DEFINE a == Append(<<x>>, y)
              b == <<x, y>>
  <2>1. <<x>> \in Seq(S) /\ Len(<<x>>) = 1 /\ <<x>>[1] = x OBVIOUS
  <2>2. a \in Seq(S) /\ Len(a) = 2 /\ a[1] = x /\ a[2] = y BY <2>1
  <2>3. b \in Seq(S) /\ Len(b) = 2 /\ b[1] = x /\ b[2] = y OBVIOUS
  <2>4. \A i \in 1..2 : i = 1 \/ i = 2 OBVIOUS
  <2>. HIDE DEF a, b
  <2>5. a = b BY <2>2, <2>3, <2>4, SeqEqual
  <2>. QED BY <2>5 DEF a, b
<1>2. Append(<<x, y>>, z) = <<x, y, z>>
  <2>. DEFINE a == Append(<<x, y>>, z)
              b == <<x, y, z>>
  <2>1. <<x, y>> \in Seq(S) /\ Len(<<x, y>>) = 2 /\ <<x, y>>[1] = x /\ <<x, y>>[2] = y OBVIOUS
  <2>2. a \in Seq(S) /\ Len(a) = 3 /\ a[1] = x /\ a[2] = y /\ a[3] = z BY <2>1
  <2>3. b \in Seq(S) /\ Len(b) = 3 /\ b[1] = x /\ b[2] = y /\ b[3] = z OBVIOUS
  <2>4. \A i \in 1..3 : i = 1 \/ i = 2 \/ i = 3 OBVIOUS
  <2>. HIDE DEF a, b
  <2>5. a = b BY <2>2, <2>3, <2>4, SeqEqual
  <2>. QED BY <2>5 DEF a, b
<1>. QED BY <1>1, <1>2

\* What taking a task does to the queues that there are.
LEMMA QueueFacts ==
    /\ Append(<<>>, "sync") = <<"sync">>
    /\ Append(Append(<<"sync">>, "deleteEmpty"), "terminate") = <<"sync", "deleteEmpty", "terminate">>
    /\ Head(<<"import">>) = "import" /\ Tail(<<"import">>) = <<>>
    /\ Head(<<"sync">>) = "sync" /\ Tail(<<"sync">>) = <<>>
    /\ Head(<<"sync", "deleteEmpty", "terminate">>) = "sync"
    /\ Tail(<<"sync", "deleteEmpty", "terminate">>) = <<"deleteEmpty", "terminate">>
    /\ Head(<<"deleteEmpty", "terminate">>) = "deleteEmpty"
    /\ Tail(<<"deleteEmpty", "terminate">>) = <<"terminate">>
    /\ Head(<<"terminate">>) = "terminate" /\ Tail(<<"terminate">>) = <<>>
<1>1. Append(<<>>, "sync") = <<"sync">> OBVIOUS
<1>2. Append(<<"sync">>, "deleteEmpty") = <<"sync", "deleteEmpty">>
      /\ Append(<<"sync", "deleteEmpty">>, "terminate") = <<"sync", "deleteEmpty", "terminate">>
  <2>. DEFINE S == {"sync", "deleteEmpty", "terminate"}
  <2>1. "sync" \in S /\ "deleteEmpty" \in S /\ "terminate" \in S OBVIOUS
  <2>. HIDE DEF S
  <2>. QED BY <2>1, AppendTask
<1>4. Head(<<"import">>) = "import" /\ Head(<<"sync">>) = "sync" /\ Head(<<"terminate">>) = "terminate"
      /\ Head(<<"sync", "deleteEmpty", "terminate">>) = "sync"
      /\ Head(<<"deleteEmpty", "terminate">>) = "deleteEmpty"
  OBVIOUS
<1>5. Tail(<<"import">>) = <<>> /\ Tail(<<"sync">>) = <<>> /\ Tail(<<"terminate">>) = <<>> OBVIOUS
<1>6. Tail(<<"sync", "deleteEmpty", "terminate">>) = <<"deleteEmpty", "terminate">> OBVIOUS
<1>7. Tail(<<"deleteEmpty", "terminate">>) = <<"terminate">> OBVIOUS
<1>. QED BY <1>1, <1>2, <1>4, <1>5, <1>6, <1>7

\* The queues differ from each other.
LEMMA QueuesDiffer ==
    /\ <<>> # <<"import">> /\ <<>> # <<"sync">> /\ <<>> # <<"sync", "deleteEmpty", "terminate">>
    /\ <<>> # <<"deleteEmpty", "terminate">> /\ <<>> # <<"terminate">>
    /\ <<"import">> # <<"sync">> /\ <<"import">> # <<"sync", "deleteEmpty", "terminate">>
    /\ <<"import">> # <<"deleteEmpty", "terminate">> /\ <<"import">> # <<"terminate">>
    /\ <<"sync">> # <<"sync", "deleteEmpty", "terminate">>
    /\ <<"sync">> # <<"deleteEmpty", "terminate">> /\ <<"sync">> # <<"terminate">>
    /\ <<"sync", "deleteEmpty", "terminate">> # <<"deleteEmpty", "terminate">>
    /\ <<"sync", "deleteEmpty", "terminate">> # <<"terminate">>
    /\ <<"deleteEmpty", "terminate">> # <<"terminate">>
OBVIOUS

\* It holds at the start.
LEMMA InitIInv == Init => IInv
<1>. SUFFICES ASSUME Init PROVE IInv OBVIOUS
<1>1. Types
  <2>1. seen \subseteq Content /\ upset \subseteq Events /\ queue \in Queues BY DEF Init, Queues
  <2>2. 0 \in 0..MaxChanges /\ 0 \in 0..MaxCrashes BY ConstAssumption
  <2>. QED BY <2>1, <2>2, Constants DEF Init, Types
<1>2. QueueInv BY QueuesDiffer DEF Init, QueueInv
<1>3. PlaceInv /\ FileInv BY DEF Init, PlaceInv, FileInv, Idle
<1>. QED BY <1>1, <1>2, <1>3 DEF IInv

\* The thread takes the first task, and the rest are a queue.
LEMMA TakesFacts ==
    ASSUME IInv, NEW t, Takes(t)
    PROVE  /\ task = Idle
           /\ t = "import" => queue = <<"import">> /\ queue' = <<>> /\ life = "importing"
           /\ t = "sync" => \/ queue = <<"sync">> /\ queue' = <<>> /\ life = "running"
                            \/ /\ queue = <<"sync", "deleteEmpty", "terminate">>
                               /\ queue' = <<"deleteEmpty", "terminate">> /\ life = "closing"
           /\ t = "deleteEmpty" => /\ queue = <<"deleteEmpty", "terminate">>
                                   /\ queue' = <<"terminate">> /\ life = "closing"
           /\ t = "terminate" => queue = <<"terminate">> /\ queue' = <<>> /\ life = "closing"
<1>1. queue \in Queues /\ queue # <<>> /\ Head(queue) = t /\ queue' = Tail(queue) /\ task = Idle
  BY DEF Takes, IInv, Types
<1>2. CASE queue = <<"import">> BY <1>1, <1>2, QueueFacts, QueuesDiffer DEF IInv, QueueInv
<1>3. CASE queue = <<"sync">>
  BY <1>1, <1>3, QueueFacts, QueuesDiffer DEF IInv, QueueInv, Types
<1>4. CASE queue = <<"sync", "deleteEmpty", "terminate">>
  BY <1>1, <1>4, QueueFacts, QueuesDiffer DEF IInv, QueueInv, Types
<1>5. CASE queue = <<"deleteEmpty", "terminate">>
  BY <1>1, <1>5, QueueFacts, QueuesDiffer DEF IInv, QueueInv, Types
<1>6. CASE queue = <<"terminate">>
  BY <1>1, <1>6, QueueFacts, QueuesDiffer DEF IInv, QueueInv, Types
<1>. QED BY <1>1, <1>2, <1>3, <1>4, <1>5, <1>6 DEF Queues

\* Scripts keep it.
LEMMA ChangeIInv ==
    ASSUME IInv,
           \/ \E k \in Keys : RemoveItem(k) \/ \E v \in Values : SetItem(k, v)
           \/ Clear \/ \E tracked \in BOOLEAN : ClearForOriginDeletion(tracked)
    PROVE  IInv'
<1>1. ASSUME NEW k \in Keys, NEW v \in Values \cup {Null}, Change, ScheduleItemForSync(k, v)
      PROVE  IInv'
  <2>1. map' \in Content /\ changed' \in Changes BY <1>1 DEF ScheduleItemForSync, IInv, Types, Content, Changes
  <2>s. seen' \subseteq Content BY <1>1, <2>1 DEF ScheduleItemForSync, IInv, Types
  <2>2. Types' BY <1>1, <2>1, <2>s, ConstAssumption DEF ScheduleItemForSync, Change, IInv, Types, lockVars, threadVars, fileVars, trackerVars
  <2>3. QueueInv' /\ PlaceInv' /\ FileInv'
    BY <1>1 DEF ScheduleItemForSync, Change, IInv, QueueInv, PlaceInv, FileInv,
                lockVars, threadVars, fileVars, trackerVars
  <2>. QED BY <2>2, <2>3 DEF IInv
<1>2. CASE Clear
  <2>1. Types' BY <1>2, Constants, ConstAssumption DEF Clear, ScheduleClear, Change, IInv, Types, lockVars, threadVars, fileVars, trackerVars
  <2>2. QueueInv' /\ PlaceInv' /\ FileInv'
    BY <1>2 DEF Clear, ScheduleClear, Change, IInv, QueueInv, PlaceInv, FileInv,
                lockVars, threadVars, fileVars, trackerVars
  <2>. QED BY <2>1, <2>2 DEF IInv
<1>3. ASSUME NEW tracked \in BOOLEAN, ClearForOriginDeletion(tracked) PROVE IInv'
  <2>1. Types' BY <1>3, Constants, ConstAssumption DEF ClearForOriginDeletion, ScheduleClear, Change, IInv, Types, lockVars, fileVars, Events
  <2>2. QueueInv' /\ PlaceInv' /\ FileInv'
    BY <1>3 DEF ClearForOriginDeletion, ScheduleClear, Change, IInv, QueueInv, PlaceInv, FileInv, lockVars, fileVars
  <2>. QED BY <2>1, <2>2 DEF IInv
<1>. QED BY <1>1, <1>2, <1>3 DEF RemoveItem, SetItem

\* What a sync hands over has its type, and the queue gets its task.
LEMMA CollectFacts ==
    ASSUME IInv, NEW copied \in SUBSET Keys, Collect(copied), life = "running"
    PROVE  /\ pending' \in Changes /\ clearing' \in BOOLEAN /\ cleared' = FALSE /\ scheduled' = TRUE
           /\ Scheduled = <<"sync">>
<1>1. pending' \in Changes BY DEF Collect, IInv, Types, Changes
<1>2. Scheduled = <<"sync">>
  BY QueueFacts, QueuesDiffer DEF Scheduled, IInv, QueueInv, Types
<1>. QED BY <1>1, <1>2 DEF Collect, IInv, Types

\* The timer and the end keep it.
LEMMA SyncIInv ==
    ASSUME IInv, SyncTimerFires \/ (\E copied \in SUBSET Keys : SyncTimerFiresPartly(copied)) \/ Close
    PROVE  IInv'
<1>0. Touched(changed) \in SUBSET Keys BY DEF Touched
<1>1. CASE SyncTimerFires
  <2>1. /\ pending' \in Changes /\ clearing' \in BOOLEAN /\ cleared' = FALSE /\ scheduled' = TRUE
        /\ queue' = <<"sync">>
    BY <1>0, <1>1, CollectFacts DEF SyncTimerFires
  <2>2. Types' BY <1>1, <2>1, Constants DEF SyncTimerFires, IInv, Types, Queues, fileVars, trackerVars
  <2>3. QueueInv' /\ PlaceInv' /\ FileInv'
    BY <1>1, <2>1, QueuesDiffer DEF SyncTimerFires, IInv, QueueInv, PlaceInv, FileInv, fileVars, trackerVars
  <2>. QED BY <2>2, <2>3 DEF IInv
<1>2. ASSUME NEW copied \in SUBSET Keys, SyncTimerFiresPartly(copied) PROVE IInv'
  <2>1. /\ pending' \in Changes /\ clearing' \in BOOLEAN /\ cleared' = FALSE /\ scheduled' = TRUE
        /\ queue' = <<"sync">>
    BY <1>2, CollectFacts DEF SyncTimerFiresPartly
  <2>2. changed' \in Changes BY <1>2 DEF SyncTimerFiresPartly, IInv, Types, Changes
  <2>3. upset' \subseteq Events /\ upset \subseteq upset' /\ ("fault" \in upset' => "fault" \in upset)
        /\ ("deletion" \in upset' => "deletion" \in upset)
    BY <1>2 DEF SyncTimerFiresPartly, IInv, Types, Events
  <2>4. Types' BY <1>2, <2>1, <2>2, <2>3 DEF SyncTimerFiresPartly, IInv, Types, Queues, fileVars, trackerVars
  <2>5. QueueInv' /\ PlaceInv' /\ FileInv'
    BY <1>2, <2>1, <2>3, QueuesDiffer DEF SyncTimerFiresPartly, IInv, QueueInv, PlaceInv, FileInv, fileVars, trackerVars
  <2>. QED BY <2>4, <2>5 DEF IInv
<1>3. CASE Close
  <2>1. /\ pending' \in Changes /\ clearing' \in BOOLEAN /\ cleared' = FALSE /\ scheduled' = TRUE
        /\ queue' = <<"sync", "deleteEmpty", "terminate">>
    BY <1>0, <1>3, CollectFacts, QueueFacts DEF Close
  <2>2. Types' BY <1>3, <2>1, Constants DEF Close, IInv, Types, Queues, fileVars, trackerVars
  <2>3. QueueInv' /\ PlaceInv' /\ FileInv'
    BY <1>3, <2>1, QueuesDiffer DEF Close, IInv, QueueInv, PlaceInv, FileInv, fileVars, trackerVars
  <2>. QED BY <2>2, <2>3 DEF IInv
<1>. QED BY <1>1, <1>2, <1>3

\* The tasks of the thread keep it.
LEMMA TaskIInv ==
    ASSUME IInv, Import \/ ImportFails \/ PerformSync \/ DeleteEmptyDatabase \/ PerformTerminate
    PROVE  IInv'
<1>1. CASE Import
  <2>1. queue' = <<>> /\ life = "importing" /\ queue = <<"import">> /\ task = Idle
    BY <1>1, TakesFacts DEF Import
  <2>2. seen' \subseteq Content BY <1>1 DEF Import, IInv, Types
  <2>3. Types' BY <1>1, <2>1, <2>2 DEF Import, IInv, Types, Queues, lockVars
  <2>4. QueueInv' BY <1>1, <2>1, QueuesDiffer DEF Import, IInv, QueueInv, lockVars
  <2>5. PlaceInv' BY <1>1, <2>1 DEF Import, IInv, PlaceInv, lockVars, Idle
  <2>6. FileInv' BY <1>1, <2>1 DEF Import, IInv, FileInv, Types
  <2>. QED BY <2>3, <2>4, <2>5, <2>6 DEF IInv
<1>2. CASE ImportFails
  <2>1. queue' = <<>> /\ life = "importing" /\ queue = <<"import">> /\ task = Idle
    BY <1>2, TakesFacts DEF ImportFails
  <2>2. seen' \subseteq Content /\ upset' \subseteq Events BY <1>2, Constants DEF ImportFails, IInv, Types, Events
  <2>d. doomed' \in BOOLEAN BY <1>2 DEF ImportFails, IInv, Types
  <2>e. ~doomed => ~doomed' BY <1>2 DEF ImportFails
  <2>3. Types' BY <1>2, <2>1, <2>2, <2>d DEF ImportFails, IInv, Types, Queues, lockVars
  <2>4. QueueInv' BY <1>2, <2>1, QueuesDiffer DEF ImportFails, IInv, QueueInv, lockVars
  <2>5. PlaceInv' BY <1>2, <2>1 DEF ImportFails, IInv, PlaceInv, lockVars, Idle
  <2>6. FileInv' BY <1>2, <2>1, <2>e DEF ImportFails, IInv, FileInv, Types
  <2>. QED BY <2>3, <2>4, <2>5, <2>6 DEF IInv
<1>3. CASE PerformSync
  <2>1. \/ queue = <<"sync">> /\ queue' = <<>> /\ life = "running"
        \/ /\ queue = <<"sync", "deleteEmpty", "terminate">>
           /\ queue' = <<"deleteEmpty", "terminate">> /\ life = "closing"
    BY <1>3, TakesFacts DEF PerformSync
  <2>2. queue' \in Queues BY <2>1 DEF Queues
  <2>7. pending' \in Changes /\ clearing' \in BOOLEAN /\ scheduled' \in BOOLEAN
    BY <1>3, Constants DEF PerformSync
  <2>8. task' \in [at : {"idle", "open", "close", "write"}, clear : BOOLEAN, items : Changes]
    BY <1>3 DEF PerformSync, IInv, Types
  <2>9. UNCHANGED <<mainVars, open, openFailed, closeDb, fileVars, trackerVars, seen, upset, changes, crashes>>
    BY <1>3 DEF PerformSync
  <2>3. Types' BY <2>2, <2>7, <2>8, <2>9 DEF IInv, Types, mainVars, fileVars, trackerVars
  <2>4. QueueInv' BY <1>3, <2>1, QueuesDiffer DEF PerformSync, IInv, QueueInv, mainVars
  <2>5. PlaceInv' BY <1>3, <2>1 DEF PerformSync, IInv, PlaceInv, mainVars
  <2>6. FileInv' BY <1>3 DEF PerformSync, IInv, FileInv, fileVars, trackerVars
  <2>. QED BY <2>3, <2>4, <2>5, <2>6 DEF IInv
<1>4. CASE DeleteEmptyDatabase
  <2>1. queue = <<"deleteEmpty", "terminate">> /\ queue' = <<"terminate">> /\ life = "closing" /\ task = Idle
    BY <1>4, TakesFacts DEF DeleteEmptyDatabase
  <2>2. Types' BY <1>4, <2>1 DEF DeleteEmptyDatabase, IInv, Types, Queues, mainVars, lockVars, trackerVars
  <2>3. QueueInv' BY <1>4, <2>1, QueuesDiffer DEF DeleteEmptyDatabase, IInv, QueueInv, mainVars, lockVars
  <2>4. PlaceInv' BY <1>4, <2>1 DEF DeleteEmptyDatabase, IInv, PlaceInv, mainVars, lockVars, Idle
  <2>5. FileInv' BY <1>4 DEF DeleteEmptyDatabase, IInv, FileInv, trackerVars
  <2>. QED BY <2>2, <2>3, <2>4, <2>5 DEF IInv
<1>5. CASE PerformTerminate
  <2>1. queue = <<"terminate">> /\ queue' = <<>> /\ life = "closing" /\ task = Idle
    BY <1>5, TakesFacts DEF PerformTerminate
  <2>2. Types' BY <1>5, <2>1 DEF PerformTerminate, IInv, Types, Queues, lockVars, fileVars, trackerVars
  <2>3. QueueInv' BY <1>5, <2>1, QueuesDiffer DEF PerformTerminate, IInv, QueueInv, lockVars
  <2>4. PlaceInv' BY <1>5, <2>1 DEF PerformTerminate, IInv, PlaceInv, lockVars
  <2>5. FileInv' BY <1>5 DEF PerformTerminate, IInv, FileInv, fileVars, trackerVars
  <2>. QED BY <2>2, <2>3, <2>4, <2>5 DEF IInv
<1>. QED BY <1>1, <1>2, <1>3, <1>4, <1>5

\* What is written has its type.
LEMMA WrittenContent ==
    ASSUME IInv, NEW written \in SUBSET Keys
    PROVE  /\ Written(Base(db, task.clear)) \in Content
           /\ Written(Over(db, task.items)) \in Content
           /\ written \subseteq Touched(task.items) =>
                Written([k \in Keys |-> IF k \in written THEN task.items[k] ELSE db[k]]) \in Content
<1>1. db \in Content /\ task.items \in Changes /\ task.clear \in BOOLEAN BY DEF IInv, Types
<1>2. written \subseteq Touched(task.items) =>
        [k \in Keys |-> IF k \in written THEN task.items[k] ELSE db[k]] \in Content
  BY <1>1 DEF Content, Changes, Touched
<1>3. Base(db, task.clear) \in Content /\ Over(db, task.items) \in Content
  BY <1>1, BaseContent, OverContent
<1>. QED BY <1>1, <1>2, <1>3 DEF Written

\* The steps of a sync keep it.
LEMMA StepsIInv ==
    ASSUME IInv,
           \/ SyncsNothing \/ OpenDatabase \/ OpenDatabaseFails \/ OpenDatabaseWithoutTable
           \/ CloseDatabase \/ ClearItems \/ WriteItems
           \/ \E written \in SUBSET Keys : WriteFails(written)
    PROVE  IInv'
<1>0. task.at # "idle" => life \in {"running", "closing"} BY DEF IInv, PlaceInv, Idle
<1>t. task \in [at : {"idle", "open", "close", "write"}, clear : BOOLEAN, items : Changes] BY DEF IInv, Types
<1>1. CASE SyncsNothing
  <2>1. Types' BY <1>1, Constants DEF SyncsNothing, IInv, Types, mainVars, lockVars, fileVars, trackerVars
  <2>2. QueueInv' /\ PlaceInv' /\ FileInv'
    BY <1>1 DEF SyncsNothing, IInv, QueueInv, PlaceInv, FileInv, Idle, mainVars, lockVars, fileVars, trackerVars
  <2>. QED BY <2>1, <2>2 DEF IInv
<1>2. CASE OpenDatabase
  <2>1. task' = [task EXCEPT !.at = "close"] /\ task.at = "open" BY <1>2 DEF OpenDatabase
  <2>2. task' \in [at : {"idle", "open", "close", "write"}, clear : BOOLEAN, items : Changes] /\ task'.at = "close"
    BY <1>t, <2>1
  <2>3. Types' BY <1>2, <2>2 DEF OpenDatabase, IInv, Types, mainVars, lockVars
  <2>4. QueueInv' BY <1>2 DEF OpenDatabase, IInv, QueueInv, mainVars, lockVars
  <2>5. PlaceInv' BY <1>0, <1>2, <2>1, <2>2 DEF OpenDatabase, IInv, PlaceInv, mainVars, lockVars
  <2>6. FileInv' BY <1>2 DEF OpenDatabase, IInv, FileInv, Types
  <2>. QED BY <2>3, <2>4, <2>5, <2>6 DEF IInv
<1>3. CASE OpenDatabaseFails
  <2>1. upset' \subseteq Events BY <1>3 DEF OpenDatabaseFails, IInv, Types, Events
  <2>d. doomed' \in BOOLEAN BY <1>3 DEF OpenDatabaseFails, IInv, Types
  <2>2. Types' BY <1>3, <2>1, <2>d, Constants DEF OpenDatabaseFails, IInv, Types, mainVars, lockVars, fileVars
  <2>3. QueueInv' BY <1>3 DEF OpenDatabaseFails, IInv, QueueInv, mainVars, lockVars
  <2>4. PlaceInv' BY <1>0, <1>3 DEF OpenDatabaseFails, IInv, PlaceInv, Idle, mainVars, lockVars
  <2>e. "fault" \in upset' /\ ("deletion" \notin upset' => "deletion" \notin upset) BY <1>3 DEF OpenDatabaseFails
  <2>g. ~doomed => ~doomed' BY <1>3 DEF OpenDatabaseFails
  <2>5. FileInv' BY <1>3, <2>e, <2>g DEF OpenDatabaseFails, IInv, FileInv, fileVars
  <2>. QED BY <2>2, <2>3, <2>4, <2>5 DEF IInv
<1>4. CASE CloseDatabase
  <2>0. task' \in [at : {"idle", "open", "close", "write"}, clear : BOOLEAN, items : Changes]
        /\ closeDb' = FALSE /\ open' = FALSE /\ linked' = FALSE
    BY <1>4, Constants DEF CloseDatabase
  <2>1. Types' BY <1>4, <2>0 DEF CloseDatabase, IInv, Types, mainVars, lockVars, trackerVars
  <2>2. QueueInv' /\ PlaceInv' /\ FileInv'
    BY <1>4 DEF CloseDatabase, IInv, QueueInv, PlaceInv, FileInv, Idle, mainVars, lockVars, trackerVars
  <2>. QED BY <2>1, <2>2 DEF IInv
<1>5. CASE ClearItems
  <2>1. task' = [task EXCEPT !.at = "write"] /\ task.at = "close" BY <1>5 DEF ClearItems
  <2>2. task' \in [at : {"idle", "open", "close", "write"}, clear : BOOLEAN, items : Changes] /\ task'.at = "write"
    BY <1>t, <2>1
  <2>3. db' \in Content BY <1>5, WrittenContent DEF ClearItems
  <2>4. Types' BY <1>5, <2>2, <2>3 DEF ClearItems, IInv, Types, mainVars, lockVars, trackerVars
  <2>5. QueueInv' BY <1>5 DEF ClearItems, IInv, QueueInv, mainVars, lockVars
  <2>6. PlaceInv' BY <1>0, <1>5, <2>1, <2>2 DEF ClearItems, IInv, PlaceInv, mainVars, lockVars
  <2>7. FileInv' BY <1>5 DEF ClearItems, IInv, FileInv, trackerVars
  <2>. QED BY <2>4, <2>5, <2>6, <2>7 DEF IInv
<1>6. CASE WriteItems
  <2>1. db' \in Content BY <1>6, WrittenContent DEF WriteItems
  <2>2. Types' BY <1>6, <2>1, Constants DEF WriteItems, IInv, Types, mainVars, lockVars, trackerVars
  <2>3. QueueInv' /\ PlaceInv' /\ FileInv'
    BY <1>6 DEF WriteItems, IInv, QueueInv, PlaceInv, FileInv, Idle, mainVars, lockVars, trackerVars
  <2>. QED BY <2>2, <2>3 DEF IInv
<1>8. CASE OpenDatabaseWithoutTable
  <2>1. task' = [task EXCEPT !.at = "close"] /\ task.at = "open" BY <1>8 DEF OpenDatabaseWithoutTable
  <2>2. task' \in [at : {"idle", "open", "close", "write"}, clear : BOOLEAN, items : Changes] /\ task'.at = "close"
    BY <1>t, <2>1
  <2>3. upset' \subseteq Events BY <1>8 DEF OpenDatabaseWithoutTable, IInv, Types, Events
  <2>4. Types' BY <1>8, <2>2, <2>3 DEF OpenDatabaseWithoutTable, IInv, Types, mainVars, lockVars
  <2>5. QueueInv' BY <1>8 DEF OpenDatabaseWithoutTable, IInv, QueueInv, mainVars, lockVars
  <2>6. PlaceInv' BY <1>0, <1>8, <2>1, <2>2 DEF OpenDatabaseWithoutTable, IInv, PlaceInv, mainVars, lockVars
  <2>7. FileInv'
    <3>1. /\ "fault" \in upset' /\ ("deletion" \in upset => "deletion" \in upset')
          /\ deletions' = deletions /\ closeDb' = closeDb /\ ~doomed' /\ linked'
      BY <1>8 DEF OpenDatabaseWithoutTable
    <3>. QED BY <3>1 DEF IInv, FileInv
  <2>. QED BY <2>4, <2>5, <2>6, <2>7 DEF IInv
<1>7. ASSUME NEW written \in SUBSET Keys, WriteFails(written) PROVE IInv'
  <2>1. db' \in Content BY <1>7, WrittenContent DEF WriteFails
  <2>2. upset' \subseteq Events BY <1>7 DEF WriteFails, IInv, Types, Events
  <2>3. Types' BY <1>7, <2>1, <2>2, Constants DEF WriteFails, IInv, Types, mainVars, lockVars, trackerVars
  <2>4. life # "importing" BY <1>0, <1>7 DEF WriteFails
  <2>5. QueueInv' /\ PlaceInv' /\ FileInv'
    BY <1>7, <2>4 DEF WriteFails, IInv, QueueInv, PlaceInv, FileInv, Idle, mainVars, lockVars, trackerVars
  <2>. QED BY <2>3, <2>5 DEF IInv
<1>. QED BY <1>1, <1>2, <1>3, <1>4, <1>5, <1>6, <1>7, <1>8

\* Processes that start and end, and the tracker, keep it.
LEMMA ProcessIInv ==
    ASSUME IInv, Create \/ Crash \/ SyncDeleteOrigin
    PROVE  IInv'
<1>1. CASE Create
  <2>1. seen' \subseteq Content /\ upset' \subseteq Events /\ queue' \in Queues BY <1>1 DEF Create, Queues
  <2>2. Types' BY <1>1, <2>1, Constants DEF Create, IInv, Types
  <2>3. QueueInv' BY <1>1, QueuesDiffer DEF Create, QueueInv
  <2>4. PlaceInv' /\ FileInv' BY <1>1 DEF Create, PlaceInv, FileInv, Idle
  <2>. QED BY <2>2, <2>3, <2>4 DEF IInv
<1>2. CASE Crash
  <2>1. queue' \in Queues BY <1>2 DEF Crash, Queues
  <2>2. crashes' \in 0..MaxCrashes BY <1>2, ConstAssumption DEF Crash, IInv, Types
  <2>3. Types' BY <1>2, <2>1, <2>2, Constants DEF Crash, IInv, Types
  <2>4. QueueInv' BY <1>2, QueuesDiffer DEF Crash, QueueInv
  <2>5. PlaceInv' /\ FileInv' BY <1>2 DEF Crash, PlaceInv, FileInv, Idle
  <2>. QED BY <2>3, <2>4, <2>5 DEF IInv
<1>3. CASE SyncDeleteOrigin
  <2>1. deletions' \in Nat /\ deletions # 0 BY <1>3 DEF SyncDeleteOrigin, IInv, Types
  <2>f. db' \in Content /\ exists' \in BOOLEAN /\ linked' \in BOOLEAN
    BY <1>3, Constants DEF SyncDeleteOrigin, IInv, Types, fileVars
  <2>2. Types' BY <1>3, <2>1, <2>f DEF SyncDeleteOrigin, IInv, Types, mainVars, lockVars, threadVars
  <2>3. QueueInv' /\ PlaceInv' /\ FileInv'
    BY <1>3, <2>1 DEF SyncDeleteOrigin, IInv, QueueInv, PlaceInv, FileInv, mainVars, lockVars, threadVars, fileVars
  <2>. QED BY <2>2, <2>3 DEF IInv
<1>. QED BY <1>1, <1>2, <1>3

\* Every step keeps it.
LEMMA StepIInv == IInv /\ [Next]_vars => IInv'
<1>. SUFFICES ASSUME IInv, [Next]_vars PROVE IInv' OBVIOUS
<1>1. CASE UNCHANGED vars
  BY <1>1 DEF vars, mainVars, lockVars, threadVars, fileVars, trackerVars, IInv, Types, QueueInv, PlaceInv, FileInv
<1>. QED BY <1>1, ChangeIInv, SyncIInv, TaskIInv, StepsIInv, ProcessIInv DEF Next, Thread

\* Every variable keeps its type, and the queue of the storage thread holds no
\* task twice, nor one that the area's life does not allow.
THEOREM TypesAndQueue == Spec => []IInv
<1>. QED BY InitIInv, StepIInv, PTL DEF Spec

\* Every variable keeps its type.
THEOREM TypeCorrect == Spec => []TypeOK
<1>1. ASSUME IInv PROVE TypeOK
  <2>. DEFINE S == {"import", "sync", "deleteEmpty", "terminate"}
  <2>1. ASSUME NEW q \in Queues PROVE q \in Seq(S)
    <3>0. "import" \in S /\ "sync" \in S /\ "deleteEmpty" \in S /\ "terminate" \in S OBVIOUS
    <3>. HIDE DEF S
    <3>1. <<>> \in Seq(S) /\ <<"import">> \in Seq(S) /\ <<"sync">> \in Seq(S) /\ <<"terminate">> \in Seq(S)
      BY <3>0
    <3>2. <<"deleteEmpty", "terminate">> \in Seq(S) BY <3>0
    <3>3. <<"sync", "deleteEmpty", "terminate">> \in Seq(S) BY <3>0
    <3>. QED BY <3>1, <3>2, <3>3 DEF Queues
  <2>. HIDE DEF S
  <2>2. queue \in Seq(S) BY <1>1, <2>1 DEF IInv, Types
  <2>. QED BY <1>1, <2>2 DEF IInv, Types, TypeOK, S
<1>. QED BY <1>1, TypesAndQueue, PTL

(***************************************************************************)
(* What the map holds, the file will hold; what the file holds, the map    *)
(* has held.                                                               *)
(***************************************************************************)

Lives == life \in {"running", "closing", "closed"}

Kept == upset \subseteq {"cut"} => map = AfterChanges

Clears == cleared \/ clearing \/ (task.at \in {"open", "close"} /\ task.clear)

\* The file after each of the stages is a content that the map has had, and the
\* empty content is one if a clear is on its way.
Past ==
    upset = {} =>
        /\ db \in seen /\ AfterTask \in seen /\ AfterPending \in seen /\ map \in seen
        /\ Clears => Empty \in seen

SavedInv == Lives => Kept /\ Past

\* A step that leaves file, task and waiting items alone.
LEMMA FrameFacts ==
    /\ UNCHANGED <<db, task>> => AfterTask' = AfterTask
    /\ UNCHANGED <<db, task, pending, clearing>> => AfterPending' = AfterPending
    /\ UNCHANGED <<db, task, pending, clearing, cleared, changed>> => AfterChanges' = AfterChanges
BY DEF AfterTask, AfterPending, AfterChanges

\* Without a task the file is what it will be after it.
LEMMA IdleFacts == IInv /\ task = Idle => AfterTask = db
<1>. SUFFICES ASSUME IInv, task = Idle PROVE AfterTask = db OBVIOUS
<1>1. db \in Content /\ task.items = NoChanges /\ ~(task.at \in {"open", "close"} /\ task.clear)
  BY DEF IInv, Types, Idle
<1>2. Base(db, task.at \in {"open", "close"} /\ task.clear) = db BY <1>1 DEF Base
<1>. QED BY <1>1, <1>2, OverNothing DEF AfterTask

\* Scripts keep it.
LEMMA ChangeSaved ==
    ASSUME IInv, SavedInv,
           \/ \E k \in Keys : RemoveItem(k) \/ \E v \in Values : SetItem(k, v)
           \/ Clear \/ \E tracked \in BOOLEAN : ClearForOriginDeletion(tracked)
    PROVE  SavedInv'
<1>0. AfterPending \in Content /\ AfterChanges \in Content /\ changed \in Changes /\ cleared \in BOOLEAN
  BY AfterContents DEF IInv, Types
<1>1. ASSUME NEW k \in Keys, NEW v \in Values \cup {Null}, Change, ScheduleItemForSync(k, v)
      PROVE  SavedInv'
  <2>1. UNCHANGED <<db, task, pending, clearing, cleared>> /\ upset' = upset /\ Lives
        /\ map' = [map EXCEPT ![k] = v] /\ changed' = [changed EXCEPT ![k] = v]
        /\ map' \in seen' /\ seen \subseteq seen'
    BY <1>1 DEF ScheduleItemForSync, Change, Lives, lockVars, threadVars, fileVars
  <2>2. AfterTask' = AfterTask /\ AfterPending' = AfterPending BY <2>1, FrameFacts
  <2>3. AfterChanges' = [AfterChanges EXCEPT ![k] = v]
    <3>1. Base(AfterPending, cleared) \in Content BY <1>0, BaseContent
    <3>2. AfterChanges' = Over(Base(AfterPending, cleared), changed') BY <2>1, <2>2 DEF AfterChanges
    <3>. DEFINE b == Base(AfterPending, cleared)
    <3>3. AfterChanges = Over(b, changed) /\ AfterChanges' = Over(b, changed') /\ b \in Content
      BY <3>1, <3>2 DEF AfterChanges
    <3>. HIDE DEF b
    <3>4. Over(b, [changed EXCEPT ![k] = v]) = [Over(b, changed) EXCEPT ![k] = v] BY <1>0, <3>3, OverOne
    <3>. QED BY <2>1, <3>3, <3>4
  <2>4. Kept' BY <2>1, <2>3 DEF SavedInv, Kept
  <2>5. Past' BY <2>1, <2>2 DEF SavedInv, Past, Clears
  <2>. QED BY <2>4, <2>5 DEF SavedInv
<1>2. CASE Clear
  <2>1. UNCHANGED <<db, task, pending, clearing>> /\ upset' = upset /\ Lives /\ cleared' = TRUE
        /\ map' = Empty /\ changed' = NoChanges /\ Empty \in seen' /\ seen \subseteq seen'
    BY <1>2 DEF Clear, ScheduleClear, Change, Lives, lockVars, threadVars, fileVars
  <2>2. AfterTask' = AfterTask /\ AfterPending' = AfterPending BY <2>1, FrameFacts
  <2>3. AfterChanges' = Empty
    <3>1. AfterChanges' = Over(Base(AfterPending, TRUE), NoChanges) BY <2>1, <2>2 DEF AfterChanges
    <3>. QED BY <1>0, <3>1, BaseContent, OverNothing, Constants
  <2>4. Kept' BY <2>1, <2>3 DEF Kept
  <2>5. Past' BY <2>1, <2>2 DEF SavedInv, Past
  <2>. QED BY <2>4, <2>5 DEF SavedInv
<1>3. ASSUME NEW tracked \in BOOLEAN, ClearForOriginDeletion(tracked) PROVE SavedInv'
  <2>1. "deletion" \in upset' BY <1>3 DEF ClearForOriginDeletion
  <2>. QED BY <2>1 DEF SavedInv, Kept, Past
<1>. QED BY <1>1, <1>2, <1>3 DEF RemoveItem, SetItem

\* A full sync moves all changes to the items that wait.
LEMMA CollectAll ==
    ASSUME IInv, Collect(Touched(changed)), changed' = NoChanges, UNCHANGED <<db, task>>
    PROVE  /\ AfterTask' = AfterTask /\ AfterPending' = AfterChanges /\ AfterChanges' = AfterChanges
           /\ Clears' => Clears
<1>0. /\ AfterTask \in Content /\ AfterPending \in Content /\ AfterChanges \in Content
      /\ pending \in Changes /\ changed \in Changes /\ clearing \in BOOLEAN /\ cleared \in BOOLEAN
  BY AfterContents DEF IInv, Types
<1>1. AfterTask' = AfterTask BY FrameFacts
<1>2. clearing' = (clearing \/ cleared) /\ cleared' = FALSE BY DEF Collect
<1>3. AfterPending' = AfterChanges
  <2>1. CASE cleared = TRUE
    <3>1. \A k \in Keys : pending'[k] = changed[k] BY <1>0, <2>1 DEF Collect, Touched, Changes
    <3>2. pending' = changed BY <1>0, <3>1 DEF Collect, Changes
    <3>3. AfterPending' = Over(Base(AfterTask, TRUE), changed) BY <1>1, <1>2, <2>1, <3>2 DEF AfterPending
    <3>4. AfterChanges = Over(Base(AfterPending, TRUE), changed) BY <2>1 DEF AfterChanges
    <3>. QED BY <1>0, <3>3, <3>4, BaseContent
  <2>2. CASE cleared = FALSE
    <3>. DEFINE m == [k \in Keys |-> IF changed[k] # Same THEN changed[k] ELSE pending[k]]
    <3>1. pending' = m BY <2>2 DEF Collect, Touched
    <3>2. Base(AfterTask, clearing) \in Content BY <1>0, BaseContent
    <3>3. Over(Over(Base(AfterTask, clearing), pending), changed) = Over(Base(AfterTask, clearing), m)
      BY <1>0, <3>2, OverOver
    <3>4. AfterPending' = Over(Base(AfterTask, clearing), m)
      BY <1>0, <1>1, <1>2, <2>2, <3>1 DEF AfterPending
    <3>. HIDE DEF m
    <3>5. AfterChanges = Over(AfterPending, changed)
      BY <1>0, <2>2, BaseContent DEF AfterChanges
    <3>. QED BY <3>3, <3>4, <3>5 DEF AfterPending
  <2>. QED BY <1>0, <2>1, <2>2
<1>4. AfterChanges' = AfterChanges
  <2>1. AfterChanges' = Over(Base(AfterChanges, FALSE), NoChanges) BY <1>2, <1>3 DEF AfterChanges
  <2>. QED BY <1>0, <2>1, BaseContent, OverNothing
<1>5. Clears' => Clears BY <1>2 DEF Clears
<1>. QED BY <1>1, <1>3, <1>4, <1>5

\* A partial sync with nothing waiting moves some of the changes.
LEMMA CollectSome ==
    ASSUME IInv, NEW copied \in SUBSET Keys, SyncTimerFiresPartly(copied), pending = NoChanges
    PROVE  AfterChanges' = AfterChanges
<1>0. /\ AfterTask \in Content /\ AfterPending \in Content
      /\ changed \in Changes /\ clearing \in BOOLEAN /\ cleared \in BOOLEAN
  BY AfterContents DEF IInv, Types
<1>1. AfterTask' = AfterTask BY FrameFacts DEF SyncTimerFiresPartly, fileVars
<1>2. clearing' = (clearing \/ cleared) /\ cleared' = FALSE BY DEF SyncTimerFiresPartly, Collect
<1>3. copied \subseteq Touched(changed) BY DEF SyncTimerFiresPartly
<1>. DEFINE q == [k \in Keys |-> IF k \in copied THEN changed[k] ELSE Same]
            r == [k \in Keys |-> IF k \in copied THEN Same ELSE changed[k]]
            b == Base(AfterTask, clearing \/ cleared)
<1>4. \A k \in Keys : pending'[k] = q[k] /\ changed'[k] = r[k]
  BY <1>3 DEF SyncTimerFiresPartly, Collect, NoChanges, Touched
<1>5. pending' = q /\ changed' = r
  BY <1>4 DEF SyncTimerFiresPartly, Collect
<1>6. q \in Changes /\ r \in Changes /\ b \in Content BY <1>0, BaseContent DEF Changes
<1>7. [k \in Keys |-> IF r[k] # Same THEN r[k] ELSE q[k]] = changed
  BY <1>0, <1>3 DEF Changes, Touched
<1>8. Over(Over(b, q), r) = Over(b, changed)
  <2>. HIDE DEF q, r, b
  <2>. QED BY <1>6, <1>7, OverOver
<1>9. AfterPending' = Over(b, q) BY <1>1, <1>2, <1>5 DEF AfterPending
<1>10. AfterChanges' = Over(Over(b, q), r)
  <2>1. Over(b, q) \in Content
    <3>. HIDE DEF q, b
    <3>. QED BY <1>6, OverContent
  <2>2. AfterChanges' = Over(Base(Over(b, q), FALSE), r) BY <1>2, <1>5, <1>9 DEF AfterChanges
  <2>. HIDE DEF q, r, b
  <2>. QED BY <2>1, <2>2, BaseContent
<1>11. AfterChanges = Over(b, changed)
  <2>1. CASE cleared = TRUE BY <1>0, <2>1, BaseContent DEF AfterChanges
  <2>2. CASE cleared = FALSE
    <3>1. AfterPending = Base(AfterTask, clearing)
      <4>1. Base(AfterTask, clearing) \in Content BY <1>0, BaseContent
      <4>. QED BY <4>1, OverNothing DEF AfterPending
    <3>2. AfterPending = b BY <1>0, <2>2, <3>1
    <3>. QED BY <1>0, <2>2, <3>2, BaseContent DEF AfterChanges
  <2>. QED BY <1>0, <2>1, <2>2
<1>. QED BY <1>8, <1>10, <1>11

\* The timer and the end keep it.
LEMMA SyncSaved ==
    ASSUME IInv, SavedInv,
           SyncTimerFires \/ (\E copied \in SUBSET Keys : SyncTimerFiresPartly(copied)) \/ Close
    PROVE  SavedInv'
<1>1. CASE SyncTimerFires \/ Close
  <2>1. /\ Collect(Touched(changed)) /\ changed' = NoChanges /\ Lives
        /\ UNCHANGED <<map, db, task, seen, upset>>
    BY <1>1 DEF SyncTimerFires, Close, fileVars, Lives
  <2>2. /\ AfterTask' = AfterTask /\ AfterPending' = AfterChanges /\ AfterChanges' = AfterChanges
        /\ Clears' => Clears
    BY <2>1, CollectAll
  <2>3. Kept' BY <2>1, <2>2 DEF SavedInv, Kept
  <2>4. ASSUME upset = {} PROVE AfterChanges \in seen BY <2>1, <2>4 DEF SavedInv, Kept, Past
  <2>5. Past' BY <2>1, <2>2, <2>4 DEF SavedInv, Past
  <2>. QED BY <2>3, <2>5 DEF SavedInv
<1>2. ASSUME NEW copied \in SUBSET Keys, SyncTimerFiresPartly(copied) PROVE SavedInv'
  <2>1. "cut" \in upset' /\ map' = map /\ Lives /\ upset \subseteq upset'
        /\ (pending # NoChanges => "clash" \in upset')
    BY <1>2 DEF SyncTimerFiresPartly, Lives
  <2>2. ASSUME upset' \subseteq {"cut"} PROVE map' = AfterChanges'
    <3>1. pending = NoChanges /\ upset \subseteq {"cut"} BY <2>1, <2>2
    <3>2. AfterChanges' = AfterChanges BY <1>2, <3>1, CollectSome
    <3>. QED BY <2>1, <3>1, <3>2 DEF SavedInv, Kept
  <2>. QED BY <2>1, <2>2 DEF SavedInv, Kept, Past
<1>. QED BY <1>1, <1>2

\* What follows a task depends on what the file holds after it.
LEMMA TaskFrame ==
    /\ AfterTask' = AfterTask /\ UNCHANGED <<pending, clearing>> => AfterPending' = AfterPending
    /\ AfterTask' = AfterTask /\ UNCHANGED <<pending, clearing, cleared, changed>> => AfterChanges' = AfterChanges
BY DEF AfterPending, AfterChanges

\* With nothing on its way, the file is what it will be.
LEMMA SettledFacts ==
    IInv /\ task = Idle /\ pending = NoChanges /\ ~clearing /\ changed = NoChanges /\ ~cleared
      => AfterTask = db /\ AfterPending = db /\ AfterChanges = db
<1>. SUFFICES ASSUME IInv, task = Idle, pending = NoChanges, clearing = FALSE, changed = NoChanges, cleared = FALSE
              PROVE  AfterTask = db /\ AfterPending = db /\ AfterChanges = db
  BY DEF IInv, Types
<1>1. db \in Content /\ AfterTask = db BY IdleFacts DEF IInv, Types
<1>2. AfterPending = Over(Base(db, FALSE), NoChanges) BY <1>1 DEF AfterPending
<1>3. AfterPending = db BY <1>1, <1>2, BaseContent, OverNothing
<1>4. AfterChanges = Over(Base(db, FALSE), NoChanges) BY <1>3 DEF AfterChanges
<1>. QED BY <1>1, <1>3, <1>4, BaseContent, OverNothing

\* The tasks of the thread keep it.
LEMMA TaskSaved ==
    ASSUME IInv, SavedInv, Import \/ ImportFails \/ PerformSync \/ DeleteEmptyDatabase \/ PerformTerminate
    PROVE  SavedInv'
<1>1. CASE Import
  <2>1. life = "importing" /\ queue = <<"import">> /\ task = Idle BY <1>1, TakesFacts DEF Import
  <2>2. pending = NoChanges /\ ~clearing /\ changed = NoChanges /\ ~cleared
    BY <2>1, QueuesDiffer DEF IInv, QueueInv, PlaceInv
  <2>3. AfterTask = db /\ AfterPending = db /\ AfterChanges = db BY <2>1, <2>2, SettledFacts
  <2>4. UNCHANGED <<db, task, pending, clearing, cleared, changed>> /\ map' = db /\ seen' = {db}
    BY <1>1 DEF Import, lockVars
  <2>5. AfterTask' = db /\ AfterPending' = db /\ AfterChanges' = db BY <2>3, <2>4, FrameFacts
  <2>6. ~Clears' BY <2>1, <2>2, <2>4 DEF Clears, Idle
  <2>7. Kept' BY <2>4, <2>5 DEF Kept
  <2>8. Past' BY <2>4, <2>5, <2>6 DEF Past
  <2>. QED BY <2>7, <2>8 DEF SavedInv
<1>2. CASE ImportFails
  <2>1. "fault" \in upset' BY <1>2 DEF ImportFails
  <2>. QED BY <2>1 DEF SavedInv, Kept, Past
<1>3. CASE PerformSync
  <2>1. /\ task = Idle /\ task' = [at |-> "open", clear |-> clearing, items |-> pending]
        /\ pending' = NoChanges /\ clearing' = FALSE /\ Lives
        /\ UNCHANGED <<db, map, cleared, changed, seen, upset>>
    BY <1>3, TakesFacts DEF PerformSync, mainVars, fileVars, Lives
  <2>2. AfterTask = db /\ AfterPending \in Content /\ db \in Content
    BY <2>1, IdleFacts, AfterContents DEF IInv, Types
  <2>3. AfterTask' = AfterPending
    <3>1. task'.items = pending /\ (task'.at \in {"open", "close"} /\ task'.clear) = clearing
      BY <2>1 DEF IInv, Types
    <3>2. AfterTask' = Over(Base(db, clearing), pending) BY <2>1, <3>1 DEF AfterTask
    <3>. QED BY <2>2, <3>2 DEF AfterPending
  <2>4. AfterPending' = AfterPending
    <3>1. AfterPending' = Over(Base(AfterPending, FALSE), NoChanges) BY <2>1, <2>3 DEF AfterPending
    <3>. QED BY <2>2, <3>1, BaseContent, OverNothing
  <2>5. AfterChanges' = AfterChanges BY <2>1, <2>4 DEF AfterChanges
  <2>6. Clears' => Clears BY <2>1 DEF Clears
  <2>7. Kept' BY <2>1, <2>5 DEF SavedInv, Kept
  <2>8. Past' BY <2>1, <2>3, <2>4, <2>6 DEF SavedInv, Past
  <2>. QED BY <2>7, <2>8 DEF SavedInv
<1>4. CASE DeleteEmptyDatabase \/ PerformTerminate
  <2>1. UNCHANGED <<db, task, pending, clearing, cleared, changed, map, seen, upset>> /\ Lives
    BY <1>4, TakesFacts DEF DeleteEmptyDatabase, PerformTerminate, mainVars, lockVars, fileVars, Lives
  <2>2. AfterTask' = AfterTask /\ AfterPending' = AfterPending /\ AfterChanges' = AfterChanges
    BY <2>1, FrameFacts
  <2>3. Clears' => Clears BY <2>1 DEF Clears
  <2>. QED BY <2>1, <2>2, <2>3 DEF SavedInv, Kept, Past
<1>. QED BY <1>1, <1>2, <1>3, <1>4

\* The steps of a sync keep it: what will be written is written, after a clear
\* that made the file a content that the map has had.
LEMMA StepsSaved ==
    ASSUME IInv, SavedInv,
           \/ SyncsNothing \/ OpenDatabase \/ OpenDatabaseFails \/ OpenDatabaseWithoutTable
           \/ CloseDatabase \/ ClearItems \/ WriteItems
           \/ \E written \in SUBSET Keys : WriteFails(written)
    PROVE  SavedInv'
<1>0. /\ db \in Content /\ task.items \in Changes /\ task.clear \in BOOLEAN
      /\ task \in [at : {"idle", "open", "close", "write"}, clear : BOOLEAN, items : Changes]
  BY DEF IInv, Types
<1>f. task.at # "idle" => Lives BY DEF IInv, PlaceInv, Idle, Lives
<1>l. "deletion" \notin upset /\ task.at \in {"close", "write"} => linked
  BY DEF IInv, PlaceInv, FileInv
\* A step that leaves what the file will hold after the task.
<1>s. ASSUME AfterTask' = AfterTask, UNCHANGED <<map, changed, cleared, pending, clearing, seen, upset>>,
             Lives, Clears' => Clears, upset = {} => db' \in seen
      PROVE  SavedInv'
  <2>1. AfterPending' = AfterPending /\ AfterChanges' = AfterChanges BY <1>s, TaskFrame
  <2>2. Kept' BY <1>s, <2>1 DEF SavedInv, Kept
  <2>3. Past' BY <1>s, <2>1 DEF SavedInv, Past
  <2>. QED BY <2>2, <2>3 DEF SavedInv
<1>1. CASE SyncsNothing
  <2>1. /\ UNCHANGED <<map, changed, cleared, pending, clearing, seen, upset, db>> /\ Lives
        /\ task' = Idle /\ task.at = "open"
    BY <1>1, <1>f DEF SyncsNothing, mainVars, lockVars, fileVars
  <2>2. CASE openFailed
    <3>1. "fault" \in upset' BY <2>1, <2>2 DEF IInv, FileInv
    <3>. QED BY <3>1 DEF SavedInv, Kept, Past
  <2>3. CASE task.items = NoChanges /\ ~task.clear
    <3>1. AfterTask = Over(Base(db, FALSE), NoChanges) BY <1>0, <2>1, <2>3 DEF AfterTask
    <3>2. AfterTask' = Over(Base(db, FALSE), NoChanges) BY <2>1 DEF AfterTask, Idle
    <3>3. Clears' => Clears BY <2>1 DEF Clears, Idle
    <3>4. upset = {} => db' \in seen BY <2>1 DEF SavedInv, Past
    <3>. QED BY <1>s, <2>1, <3>1, <3>2, <3>3, <3>4
  <2>. QED BY <1>1, <2>2, <2>3 DEF SyncsNothing
<1>2. CASE OpenDatabase
  <2>1. /\ UNCHANGED <<map, changed, cleared, pending, clearing, seen, upset, db>> /\ Lives
        /\ task' = [task EXCEPT !.at = "close"] /\ task.at = "open"
    BY <1>2, <1>f DEF OpenDatabase, mainVars, lockVars
  <2>2. task'.at = "close" /\ task'.clear = task.clear /\ task'.items = task.items BY <1>0, <2>1
  <2>3. AfterTask' = AfterTask BY <2>1, <2>2 DEF AfterTask
  <2>4. Clears' => Clears BY <2>1, <2>2 DEF Clears
  <2>5. upset = {} => db' \in seen BY <2>1 DEF SavedInv, Past
  <2>. QED BY <1>s, <2>1, <2>3, <2>4, <2>5
<1>3. CASE OpenDatabaseFails \/ OpenDatabaseWithoutTable
  <2>1. "fault" \in upset' BY <1>3 DEF OpenDatabaseFails, OpenDatabaseWithoutTable
  <2>. QED BY <2>1 DEF SavedInv, Kept, Past
<1>4. CASE CloseDatabase
  <2>1. "deletion" \in upset' BY <1>4 DEF CloseDatabase, IInv, FileInv
  <2>. QED BY <2>1 DEF SavedInv, Kept, Past
<1>5. CASE ClearItems
  <2>1. /\ UNCHANGED <<map, changed, cleared, pending, clearing, seen, upset>> /\ Lives
        /\ task' = [task EXCEPT !.at = "write"] /\ task.at = "close"
        /\ db' = Written(Base(db, task.clear))
    BY <1>5, <1>f DEF ClearItems, mainVars, lockVars
  <2>2. CASE "deletion" \in upset BY <2>1, <2>2 DEF SavedInv, Kept, Past
  <2>3. CASE "deletion" \notin upset
    <3>1. db' = Base(db, task.clear) /\ db' \in Content BY <1>0, <1>l, <2>1, <2>3, BaseContent DEF Written
    <3>2. task'.at = "write" /\ task'.items = task.items BY <1>0, <2>1
    <3>3. AfterTask' = Over(Base(db', FALSE), task.items) BY <3>2 DEF AfterTask
    <3>4. AfterTask = Over(Base(db, task.clear), task.items) BY <1>0, <2>1 DEF AfterTask
    <3>5. AfterTask' = AfterTask BY <3>1, <3>3, <3>4, BaseContent
    <3>6. Clears' => Clears BY <2>1, <3>2 DEF Clears
    <3>7. ASSUME upset = {} PROVE db' \in seen
      <4>1. CASE task.clear = TRUE
        <5>1. db' = Empty BY <1>0, <3>1, <4>1, BaseContent
        <5>2. Empty \in seen BY <2>1, <3>7, <4>1 DEF SavedInv, Past, Clears
        <5>. QED BY <5>1, <5>2
      <4>2. CASE task.clear = FALSE
        <5>1. db' = db BY <1>0, <3>1, <4>2, BaseContent
        <5>. QED BY <2>1, <3>7, <5>1 DEF SavedInv, Past
      <4>. QED BY <1>0, <4>1, <4>2
    <3>. QED BY <1>s, <2>1, <3>5, <3>6, <3>7
  <2>. QED BY <2>2, <2>3
<1>6. CASE WriteItems
  <2>1. /\ UNCHANGED <<map, changed, cleared, pending, clearing, seen, upset>> /\ Lives
        /\ task' = Idle /\ task.at = "write" /\ db' = Written(Over(db, task.items))
    BY <1>6, <1>f DEF WriteItems, mainVars, lockVars
  <2>2. CASE "deletion" \in upset BY <2>1, <2>2 DEF SavedInv, Kept, Past
  <2>3. CASE "deletion" \notin upset
    <3>1. db' = Over(db, task.items) /\ db' \in Content BY <1>0, <1>l, <2>1, <2>3, OverContent DEF Written
    <3>2. AfterTask' = Over(Base(db', FALSE), NoChanges) BY <2>1 DEF AfterTask, Idle
    <3>3. AfterTask' = db' BY <3>1, <3>2, BaseContent, OverNothing
    <3>4. AfterTask = Over(Base(db, FALSE), task.items) BY <2>1 DEF AfterTask
    <3>5. AfterTask = db' BY <1>0, <3>1, <3>4, BaseContent
    <3>6. Clears' => Clears BY <2>1 DEF Clears, Idle
    <3>7. upset = {} => db' \in seen BY <2>1, <3>5 DEF SavedInv, Past
    <3>. QED BY <1>s, <2>1, <3>3, <3>5, <3>6, <3>7
  <2>. QED BY <2>2, <2>3
<1>7. ASSUME NEW written \in SUBSET Keys, WriteFails(written) PROVE SavedInv'
  <2>1. "fault" \in upset' BY <1>7 DEF WriteFails
  <2>. QED BY <2>1 DEF SavedInv, Kept, Past
<1>. QED BY <1>1, <1>2, <1>3, <1>4, <1>5, <1>6, <1>7

\* Processes that start and end, and the tracker, keep it.
LEMMA ProcessSaved ==
    ASSUME IInv, SavedInv, Create \/ Crash \/ SyncDeleteOrigin
    PROVE  SavedInv'
<1>1. CASE Create BY <1>1 DEF Create, SavedInv, Lives
<1>2. CASE Crash BY <1>2 DEF Crash, SavedInv, Lives
<1>3. CASE SyncDeleteOrigin
  <2>1. "deletion" \in upset' BY <1>3 DEF SyncDeleteOrigin, IInv, FileInv, Types
  <2>. QED BY <2>1 DEF SavedInv, Kept, Past
<1>. QED BY <1>1, <1>2, <1>3

\* Every step keeps it.
LEMMA StepSaved == IInv /\ SavedInv /\ [Next]_vars => SavedInv'
<1>. SUFFICES ASSUME IInv, SavedInv, [Next]_vars PROVE SavedInv' OBVIOUS
<1>1. CASE UNCHANGED vars
  <2>1. UNCHANGED <<db, task, pending, clearing, cleared, changed, map, seen, upset, life>>
    BY <1>1 DEF vars, mainVars, lockVars, threadVars, fileVars
  <2>2. AfterTask' = AfterTask /\ AfterPending' = AfterPending /\ AfterChanges' = AfterChanges
    BY <2>1, FrameFacts
  <2>. QED BY <2>1, <2>2 DEF SavedInv, Lives, Kept, Past, Clears
<1>. QED BY <1>1, ChangeSaved, SyncSaved, TaskSaved, StepsSaved, ProcessSaved DEF Next, Thread

\* The invariants hold in every reachable state.
LEMMA SavedAlways == Spec => [](IInv /\ SavedInv)
<1>1. Init => SavedInv BY DEF Init, SavedInv, Lives
<1>. QED BY <1>1, InitIInv, StepIInv, StepSaved, PTL DEF Spec

\* No change is lost or undone between a script and the file, while no database
\* fails, no origin is deleted and no partial sync meets an earlier one.
THEOREM NothingLost == Spec => []Accounted
<1>1. IInv /\ SavedInv => Accounted BY DEF SavedInv, Lives, Kept, Accounted
<1>. QED BY <1>1, SavedAlways, PTL

(***************************************************************************)
(* Each item in the file is one that the map has had.                      *)
(***************************************************************************)

\* Every item of ch, unless there is none, is that of one of the contents S.
Had(ch, S) == \A k \in Keys : ch[k] = Same \/ \E c \in S : c[k] = ch[k]

\* A clear is on its way, or a deletion.
Empties == cleared \/ clearing \/ task.clear \/ doomed

\* Items in the file and on their way to it are ones that the map has had, and so
\* is the empty content if one is on its way.
ItemsInv ==
    Lives =>
        /\ Had(db, seen) /\ Had(changed, seen) /\ Had(pending, seen) /\ Had(task.items, seen)
        /\ Empties => Empty \in seen

\* The contents that the map has had grow, and no changes are no items.
LEMMA HadFacts ==
    ASSUME NEW ch, NEW S, NEW T, S \subseteq T
    PROVE  (Had(ch, S) => Had(ch, T)) /\ Had(NoChanges, T) /\ (Empty \in T => Had(Empty, T))
<1>1. Had(ch, S) => Had(ch, T) BY DEF Had
<1>2. Had(NoChanges, T) BY DEF Had, NoChanges
<1>3. Empty \in T => Had(Empty, T) BY DEF Had
<1>. QED BY <1>1, <1>2, <1>3

\* Scripts keep it.
LEMMA ChangeItems ==
    ASSUME IInv, ItemsInv,
           \/ \E k \in Keys : RemoveItem(k) \/ \E v \in Values : SetItem(k, v)
           \/ Clear \/ \E tracked \in BOOLEAN : ClearForOriginDeletion(tracked)
    PROVE  ItemsInv'
<1>1. ASSUME NEW k \in Keys, NEW v \in Values \cup {Null}, Change, ScheduleItemForSync(k, v)
      PROVE  ItemsInv'
  <2>1. /\ UNCHANGED <<db, task, pending, clearing, cleared, doomed>> /\ Lives
        /\ map' = [map EXCEPT ![k] = v] /\ changed' = [changed EXCEPT ![k] = v]
        /\ map' \in seen' /\ seen \subseteq seen'
    BY <1>1 DEF ScheduleItemForSync, Change, Lives, lockVars, threadVars, fileVars, trackerVars
  <2>2. map'[k] = v /\ changed \in Changes BY <2>1 DEF IInv, Types, Content
  <2>3. Had(changed', seen')
    <3>1. Had(changed, seen') BY <2>1, HadFacts DEF ItemsInv
    <3>2. changed'[k] = v /\ \A j \in Keys : j # k => changed'[j] = changed[j]
      BY <2>1, <2>2 DEF Changes
    <3>. QED BY <2>1, <2>2, <3>1, <3>2 DEF Had
  <2>4. Had(db', seen') /\ Had(pending', seen') /\ Had(task'.items, seen')
    BY <2>1, HadFacts DEF ItemsInv
  <2>5. Empties' => Empty \in seen' BY <2>1 DEF ItemsInv, Empties
  <2>. QED BY <2>3, <2>4, <2>5 DEF ItemsInv
<1>2. CASE Clear \/ \E tracked \in BOOLEAN : ClearForOriginDeletion(tracked)
  <2>1. /\ UNCHANGED <<db, task, pending>> /\ Lives /\ changed' = NoChanges
        /\ Empty \in seen' /\ seen \subseteq seen'
    BY <1>2 DEF Clear, ClearForOriginDeletion, ScheduleClear, Change, Lives, lockVars, threadVars, fileVars
  <2>2. Had(db', seen') /\ Had(pending', seen') /\ Had(task'.items, seen') /\ Had(changed', seen')
    BY <2>1, HadFacts DEF ItemsInv
  <2>. QED BY <2>1, <2>2 DEF ItemsInv
<1>. QED BY <1>1, <1>2 DEF RemoveItem, SetItem

\* The timer and the end keep it.
LEMMA SyncItems ==
    ASSUME IInv, ItemsInv,
           SyncTimerFires \/ (\E copied \in SUBSET Keys : SyncTimerFiresPartly(copied)) \/ Close
    PROVE  ItemsInv'
<1>1. PICK copied \in SUBSET Keys : Collect(copied)
  <2>1. Touched(changed) \in SUBSET Keys BY DEF Touched
  <2>. QED BY <2>1 DEF SyncTimerFires, SyncTimerFiresPartly, Close
<1>2. UNCHANGED <<db, task, seen, doomed>> /\ Lives
  BY DEF SyncTimerFires, SyncTimerFiresPartly, Close, Lives, fileVars, trackerVars
<1>3. \A k \in Keys : changed'[k] \in {Same, changed[k]}
  BY DEF SyncTimerFires, SyncTimerFiresPartly, Close, NoChanges
<1>4. \A k \in Keys : pending'[k] \in {Same, changed[k], pending[k]} BY <1>1 DEF Collect
<1>5. Empties' => Empties BY <1>1, <1>2 DEF Collect, Empties
<1>6. Had(changed', seen') BY <1>2, <1>3 DEF ItemsInv, Had
<1>7. Had(pending', seen') BY <1>2, <1>4 DEF ItemsInv, Had
<1>. QED BY <1>2, <1>5, <1>6, <1>7 DEF ItemsInv

\* The tasks of the thread keep it.
LEMMA TaskItems ==
    ASSUME IInv, ItemsInv, Import \/ ImportFails \/ PerformSync \/ DeleteEmptyDatabase \/ PerformTerminate
    PROVE  ItemsInv'
<1>1. CASE Import \/ ImportFails
  <2>1. queue = <<"import">> /\ life = "importing" /\ task = Idle
    BY <1>1, TakesFacts DEF Import, ImportFails
  <2>2. ~scheduled /\ upset = {} BY <2>1, QueuesDiffer DEF IInv, QueueInv, PlaceInv
  <2>3. changed = NoChanges /\ ~cleared /\ pending = NoChanges /\ ~clearing /\ ~doomed
    BY <2>1, <2>2 DEF IInv, PlaceInv, FileInv
  <2>4. /\ UNCHANGED <<db, changed, cleared, pending, clearing, task>> /\ db \in seen'
        /\ ~doomed => ~doomed'
    <3>1. CASE Import BY <3>1 DEF Import, lockVars
    <3>2. CASE ImportFails
      <4>1. UNCHANGED <<db, changed, cleared, pending, clearing, task>> /\ db \in seen'
        BY <3>2 DEF ImportFails, lockVars
      <4>2. ~doomed => ~doomed' BY <3>2 DEF ImportFails
      <4>. QED BY <4>1, <4>2
    <3>. QED BY <1>1, <3>1, <3>2
  <2>5. ~Empties' BY <2>1, <2>3, <2>4 DEF Empties, Idle
  <2>6. Had(db', seen') BY <2>4 DEF Had
  <2>7. task'.items = NoChanges BY <2>1, <2>4 DEF Idle
  <2>8. Had(NoChanges, seen') BY HadFacts
  <2>. QED BY <2>3, <2>4, <2>5, <2>6, <2>7, <2>8 DEF ItemsInv
<1>2. CASE PerformSync
  <2>1. /\ Lives /\ UNCHANGED <<db, changed, cleared, seen, doomed>> /\ pending' = NoChanges
        /\ ~clearing' /\ task'.items = pending /\ task'.clear = clearing
    BY <1>2, TakesFacts DEF PerformSync, mainVars, fileVars, trackerVars, Lives
  <2>2. Empties' => Empties BY <2>1 DEF Empties
  <2>3. Had(NoChanges, seen) BY HadFacts
  <2>. QED BY <2>1, <2>2, <2>3 DEF ItemsInv
<1>3. CASE DeleteEmptyDatabase \/ PerformTerminate
  <2>1. Lives /\ UNCHANGED <<db, changed, cleared, pending, clearing, task, seen, doomed>>
    BY <1>3, TakesFacts DEF DeleteEmptyDatabase, PerformTerminate, mainVars, lockVars, fileVars, trackerVars, Lives
  <2>2. Empties' => Empties BY <2>1 DEF Empties
  <2>. QED BY <2>1, <2>2 DEF ItemsInv
<1>. QED BY <1>1, <1>2, <1>3

\* The steps of a sync keep it: what they write, all of it or some, are items that
\* the map has had, and a clear was one.
LEMMA StepsItems ==
    ASSUME IInv, ItemsInv,
           \/ SyncsNothing \/ OpenDatabase \/ OpenDatabaseFails \/ OpenDatabaseWithoutTable
           \/ CloseDatabase \/ ClearItems \/ WriteItems
           \/ \E written \in SUBSET Keys : WriteFails(written)
    PROVE  ItemsInv'
<1>0. task \in [at : {"idle", "open", "close", "write"}, clear : BOOLEAN, items : Changes] BY DEF IInv, Types
<1>1. Lives
  <2>1. task.at # "idle" => Lives BY DEF IInv, PlaceInv, Idle, Lives
  <2>. QED BY <2>1 DEF SyncsNothing, OpenDatabase, OpenDatabaseFails, OpenDatabaseWithoutTable,
                       CloseDatabase, ClearItems, WriteItems, WriteFails
<1>2. UNCHANGED <<changed, cleared, pending, clearing, seen>>
  BY DEF SyncsNothing, OpenDatabase, OpenDatabaseFails, OpenDatabaseWithoutTable,
         CloseDatabase, ClearItems, WriteItems, WriteFails, mainVars, lockVars
<1>3. ~doomed => ~doomed'
  BY DEF SyncsNothing, OpenDatabase, OpenDatabaseFails, OpenDatabaseWithoutTable,
         CloseDatabase, ClearItems, WriteItems, WriteFails, trackerVars
<1>4. (task'.items = NoChanges /\ ~task'.clear) \/ (task'.items = task.items /\ task'.clear = task.clear)
  <2>1. task' = Idle \/ (\E at \in {"close", "write"} : task' = [task EXCEPT !.at = at])
    BY DEF SyncsNothing, OpenDatabase, OpenDatabaseFails, OpenDatabaseWithoutTable,
           CloseDatabase, ClearItems, WriteItems, WriteFails
  <2>. QED BY <1>0, <2>1 DEF Idle
<1>5. Empties' => Empties BY <1>2, <1>3, <1>4 DEF Empties
<1>6. Had(NoChanges, seen) /\ (Empty \in seen => Had(Empty, seen)) BY HadFacts
<1>7. Had(db', seen)
  <2>1. Had(db, seen) /\ Had(task.items, seen) /\ (task.clear => Had(Empty, seen))
    BY <1>1, <1>6 DEF ItemsInv, Empties
  <2>2. CASE db' = db BY <2>1, <2>2
  <2>3. CASE ClearItems
    <3>1. db' \in {db, Base(db, task.clear)} BY <2>3 DEF ClearItems, Written
    <3>. QED BY <2>1, <3>1 DEF Base
  <2>4. CASE WriteItems
    <3>1. db' = db \/ db' = Over(db, task.items) BY <2>4 DEF WriteItems, Written
    <3>2. Had(Over(db, task.items), seen) BY <2>1 DEF Over, Had
    <3>. QED BY <2>1, <3>1, <3>2
  <2>5. ASSUME NEW written \in SUBSET Keys, WriteFails(written) PROVE Had(db', seen)
    <3>. DEFINE c == [k \in Keys |-> IF k \in written THEN task.items[k] ELSE db[k]]
    <3>1. db' = db \/ db' = c BY <2>5 DEF WriteFails, Written
    <3>2. Had(c, seen) BY <2>1 DEF Had
    <3>. HIDE DEF c
    <3>. QED BY <2>1, <3>1, <3>2
  <2>6. SyncsNothing \/ OpenDatabase \/ OpenDatabaseFails \/ OpenDatabaseWithoutTable \/ CloseDatabase => db' = db
    BY DEF SyncsNothing, OpenDatabase, OpenDatabaseFails, OpenDatabaseWithoutTable, CloseDatabase, fileVars
  <2>. QED BY <2>2, <2>3, <2>4, <2>5, <2>6
<1>. QED BY <1>1, <1>2, <1>4, <1>5, <1>6, <1>7 DEF ItemsInv

\* Processes that start and end, and the tracker, keep it.
LEMMA ProcessItems ==
    ASSUME IInv, ItemsInv, Create \/ Crash \/ SyncDeleteOrigin
    PROVE  ItemsInv'
<1>1. CASE Create \/ Crash BY <1>1 DEF Create, Crash, ItemsInv, Lives
<1>2. CASE SyncDeleteOrigin
  <2>1. UNCHANGED <<life, changed, cleared, pending, clearing, task, seen, doomed>>
    BY <1>2 DEF SyncDeleteOrigin, mainVars, lockVars, threadVars
  <2>2. db' = db \/ (doomed /\ db' = Empty) BY <1>2 DEF SyncDeleteOrigin, fileVars
  <2>3. SUFFICES ASSUME Lives PROVE ItemsInv' BY <2>1 DEF ItemsInv, Lives
  <2>4. Had(db', seen) BY <2>2, <2>3, HadFacts DEF ItemsInv, Empties
  <2>5. Empties' => Empties BY <2>1 DEF Empties
  <2>. QED BY <2>1, <2>3, <2>4, <2>5 DEF ItemsInv
<1>. QED BY <1>1, <1>2

\* Every step keeps it.
LEMMA StepItems == IInv /\ ItemsInv /\ [Next]_vars => ItemsInv'
<1>. SUFFICES ASSUME IInv, ItemsInv, [Next]_vars PROVE ItemsInv' OBVIOUS
<1>1. CASE UNCHANGED vars
  <2>1. UNCHANGED <<db, task, pending, clearing, cleared, changed, seen, doomed, life>>
    BY <1>1 DEF vars, mainVars, lockVars, threadVars, fileVars, trackerVars
  <2>. QED BY <2>1 DEF ItemsInv, Lives, Empties
<1>. QED BY <1>1, ChangeItems, SyncItems, TaskItems, StepsItems, ProcessItems DEF Next, Thread

\* Whenever the process may die the file holds for each key what the map has had
\* for it, partial syncs, failures and deletions included; without these it holds
\* a content that the map has had.
THEOREM AlwaysRecoverable == Spec => []Recoverable
<1>1. Init => ItemsInv BY DEF Init, ItemsInv, Lives
<1>2. Spec => []ItemsInv BY <1>1, StepItems, TypesAndQueue, PTL DEF Spec
<1>3. ASSUME IInv, SavedInv, ItemsInv PROVE Recoverable
  <2>. SUFFICES ASSUME life \notin {"off", "importing"}
                PROVE  /\ upset = {} => db \in seen
                       /\ \A k \in Keys : \E c \in seen : db[k] = c[k]
    BY DEF Recoverable
  <2>1. Lives /\ db \in Content BY <1>3 DEF IInv, Types, Lives
  <2>2. upset = {} => db \in seen BY <1>3, <2>1 DEF SavedInv, Past
  <2>3. \A k \in Keys : db[k] # Same BY <2>1, ConstAssumption DEF Content
  <2>4. Had(db, seen) BY <1>3, <2>1 DEF ItemsInv
  <2>. QED BY <2>2, <2>3, <2>4 DEF Had
<1>. QED BY <1>2, <1>3, SavedAlways, PTL

\* Closing leaves everything in the file: the queue is empty, so nothing waits.
THEOREM AllSaved == Spec => []ClosedIsSaved
<1>1. ASSUME IInv, SavedInv PROVE ClosedIsSaved
  <2>. SUFFICES ASSUME life = "closed", upset \subseteq {"cut"} PROVE db = map BY DEF ClosedIsSaved
  <2>1. task = Idle /\ changed = NoChanges /\ ~cleared /\ pending = NoChanges /\ ~clearing
    BY <1>1, QueuesDiffer DEF IInv, QueueInv, PlaceInv
  <2>2. AfterChanges = db BY <1>1, <2>1, SettledFacts
  <2>. QED BY <1>1, <2>2 DEF SavedInv, Lives, Kept
<1>. QED BY <1>1, SavedAlways, PTL
================================================================================

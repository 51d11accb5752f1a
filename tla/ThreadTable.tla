----------------------------- MODULE ThreadTable -----------------------------
(***************************************************************************)
(* The table of threads behind createThread(), currentThread(),            *)
(* isMainThread(), detachThread() and waitForThreadCompletion():           *)
(* gThreads, a vector of instances and identifiers that every thread walks *)
(* and changes without a lock (threadMapMutex() is created and never       *)
(* taken).  A step is one access to the vector: a read of an element or of *)
(* the size, the shift of the elements in remove(), a write of the size.   *)
(* That the shift is one step, and that append() never moves the buffer,   *)
(* are abstractions in favour of the code.                                 *)
(***************************************************************************)
EXTENDS Integers

CONSTANTS
    Workers,    \* threads the main thread creates, each once
    Main,
    Nobody,     \* an unused element of the vector's buffer
    Joinings,   \* the sets of workers that the main thread may wait for; the
                \* others detach themselves
    Capacity    \* bound: elements of the vector's buffer

ASSUME ConstAssumption ==
    /\ Main \notin Workers
    /\ Nobody \notin Workers \cup {Main}
    /\ Joinings \subseteq SUBSET Workers /\ Joinings # {}
    /\ Capacity \in Nat \ {0}

VARIABLES
    slots,    \* the vector's buffer: which thread's entry an element is
    size,     \* m_size
    pc,       \* per thread: what it does and its local variables
    result,   \* per thread: what currentThread() last returned
    joined    \* the workers that the main thread waits for, the same throughout

vars == <<slots, size, pc, result, joined>>

Threads == Workers \cup {Main}

\* An entry is its thread: instance and identifier are written together.
Index == 0..(Capacity - 1)

At == {"unborn", "blocked", "run", "scan", "match", "erase", "found", "shifted", "shrink",
       "grow", "join", "gone", "removed"}

\* i and count are the locals of a loop, or count the size read for an
\* increment or decrement; target is whose entry is made or searched for.
Locals == [at : At, i : Nat, count : Int, target : Threads \cup {Nobody}]

Place(at) == [at |-> at, i |-> 0, count |-> 0, target |-> Nobody]

\* initializeThreading(): the main thread has the first entry.
Init ==
    /\ slots = [i \in Index |-> IF i = 0 THEN Main ELSE Nobody]
    /\ size = 1
    /\ pc = [t \in Threads |-> Place(IF t = Main THEN "run" ELSE "unborn")]
    /\ result = [t \in Threads |-> t]
    /\ joined \in Joinings

Move(t, at) == pc' = [pc EXCEPT ![t].at = at]

(***************************************************************************)
(* createThread().  The new thread blocks on the creation mutex until its  *)
(* identifier is established.                                              *)
(***************************************************************************)

\* As it would be without the creation mutex: the thread runs at once.
CreateUnblocked(w) ==
    /\ pc[Main].at = "run"
    /\ pc[w].at = "unborn"
    /\ size \in Index
    /\ slots' = [slots EXCEPT ![size] = w]
    /\ pc' = [pc EXCEPT ![Main] = [at |-> "grow", i |-> 0, count |-> size, target |-> w],
                        ![w] = Place("run")]
    /\ UNCHANGED <<size, result, joined>>

\* createThreadInternal() has started the thread; append() writes the entry.
Create(w) ==
    /\ pc[Main].at = "run"
    /\ pc[w].at = "unborn"
    /\ size \in Index
    /\ slots' = [slots EXCEPT ![size] = w]
    /\ pc' = [pc EXCEPT ![Main] = [at |-> "grow", i |-> 0, count |-> size, target |-> w],
                        ![w] = Place("blocked")]
    /\ UNCHANGED <<size, result, joined>>

\* append() counts the entry, and the creation mutex is released.
Grow ==
    /\ pc[Main].at = "grow"
    /\ size' = pc[Main].count + 1
    /\ pc' = [pc EXCEPT ![Main] = Place("run"), ![pc[Main].target] = Place("run")]
    /\ UNCHANGED <<slots, result, joined>>

(***************************************************************************)
(* currentThread(): the size is read once, then the elements one by one;   *)
(* an element that matches is read again for its identifier.               *)
(***************************************************************************)

CurrentThread(t) ==
    /\ pc[t].at = "run"
    /\ pc' = [pc EXCEPT ![t] = [at |-> "scan", i |-> 0, count |-> size, target |-> t]]
    /\ UNCHANGED <<slots, size, result, joined>>

ScanNext(t) ==
    /\ pc[t].at = "scan"
    /\ pc[t].i < pc[t].count
    /\ slots[pc[t].i] # t
    /\ pc' = [pc EXCEPT ![t].i = @ + 1]
    /\ UNCHANGED <<slots, size, result, joined>>

ScanMatches(t) ==
    /\ pc[t].at = "scan"
    /\ pc[t].i < pc[t].count
    /\ slots[pc[t].i] = t
    /\ Move(t, "match")
    /\ UNCHANGED <<slots, size, result, joined>>

ScanReturns(t) ==
    /\ pc[t].at = "match"
    /\ result' = [result EXCEPT ![t] = slots[pc[t].i]]
    /\ pc' = [pc EXCEPT ![t] = Place("run")]
    /\ UNCHANGED <<slots, size, joined>>

\* Not found: identifier 0.
ScanFails(t) ==
    /\ pc[t].at = "scan"
    /\ pc[t].i >= pc[t].count
    /\ result' = [result EXCEPT ![t] = Nobody]
    /\ pc' = [pc EXCEPT ![t] = Place("run")]
    /\ UNCHANGED <<slots, size, joined>>

(***************************************************************************)
(* The end of a thread: detachThread() by itself, or the main thread's     *)
(* waitForThreadCompletion(), which removes the entry after the join.  The *)
(* lookup of the instance that precedes both changes nothing.              *)
(***************************************************************************)

Detach(w) ==
    /\ w \notin joined
    /\ pc[w].at = "run"
    /\ pc' = [pc EXCEPT ![w] = [at |-> "erase", i |-> 0, count |-> size, target |-> w]]
    /\ UNCHANGED <<slots, size, result, joined>>

\* A thread that the main thread waits for returns from its function.
Finish(w) ==
    /\ w \in joined
    /\ pc[w].at = "run"
    /\ pc' = [pc EXCEPT ![w] = Place("gone")]
    /\ UNCHANGED <<slots, size, result, joined>>

\* Once for every thread.
WaitForThreadCompletion(w) ==
    /\ w \in joined
    /\ pc[Main].at = "run"
    /\ pc[w].at \in {"run", "scan", "match", "gone"}
    /\ pc' = [pc EXCEPT ![Main] = [at |-> "join", i |-> 0, count |-> 0, target |-> w]]
    /\ UNCHANGED <<slots, size, result, joined>>

JoinReturns ==
    /\ pc[Main].at = "join"
    /\ pc[pc[Main].target].at = "gone"
    /\ pc' = [pc EXCEPT ![Main].at = "erase", ![Main].count = size]
    /\ UNCHANGED <<slots, size, result, joined>>

\* removeThreadIdentifier().
EraseNext(t) ==
    /\ pc[t].at = "erase"
    /\ pc[t].i < pc[t].count
    /\ slots[pc[t].i] # pc[t].target
    /\ pc' = [pc EXCEPT ![t].i = @ + 1]
    /\ UNCHANGED <<slots, size, result, joined>>

EraseMatches(t) ==
    /\ pc[t].at = "erase"
    /\ pc[t].i < pc[t].count
    /\ slots[pc[t].i] = pc[t].target
    /\ Move(t, "found")
    /\ UNCHANGED <<slots, size, result, joined>>

\* Vector::remove() closes the gap up to the end it reads now.
Shift(t) ==
    /\ pc[t].at = "found"
    /\ slots' = [i \in Index |-> IF pc[t].i <= i /\ i + 1 < size THEN slots[i + 1] ELSE slots[i]]
    /\ Move(t, "shifted")
    /\ UNCHANGED <<size, result, joined>>

\* --m_size
ShrinkReads(t) ==
    /\ pc[t].at = "shifted"
    /\ pc' = [pc EXCEPT ![t].at = "shrink", ![t].count = size]
    /\ UNCHANGED <<slots, size, result, joined>>

\* As it would be if the size were decremented twice.
ShrinkTwice(t) ==
    /\ pc[t].at = "shrink"
    /\ size' = pc[t].count - 2
    /\ pc' = [u \in Threads |->
                CASE u = pc[t].target -> Place("removed")
                  [] u = Main /\ t = Main -> Place("run")
                  [] OTHER -> pc[u]]
    /\ UNCHANGED <<slots, result, joined>>

ShrinkWrites(t) ==
    /\ pc[t].at = "shrink"
    /\ size' = pc[t].count - 1
    /\ pc' = [u \in Threads |->
                CASE u = pc[t].target -> Place("removed")
                  [] u = Main /\ t = Main -> Place("run")
                  [] OTHER -> pc[u]]
    /\ UNCHANGED <<slots, result, joined>>

EraseFails(t) ==
    /\ pc[t].at = "erase"
    /\ pc[t].i >= pc[t].count
    /\ pc' = [u \in Threads |->
                CASE u = pc[t].target -> Place("removed")
                  [] u = Main /\ t = Main -> Place("run")
                  [] OTHER -> pc[u]]
    /\ UNCHANGED <<slots, size, result, joined>>

Next ==
    \/ Grow \/ JoinReturns
    \/ \E w \in Workers : Create(w) \/ Detach(w) \/ Finish(w) \/ WaitForThreadCompletion(w)
    \/ \E t \in Threads :
         \/ CurrentThread(t) \/ ScanNext(t) \/ ScanMatches(t) \/ ScanReturns(t) \/ ScanFails(t)
         \/ EraseNext(t) \/ EraseMatches(t) \/ Shift(t)
         \/ ShrinkReads(t) \/ ShrinkWrites(t) \/ EraseFails(t)

Spec == Init /\ [][Next]_vars

(***************************************************************************)
(* Properties.                                                             *)
(***************************************************************************)

\* Every variable has its type.
TypeOK ==
    /\ slots \in [Index -> Threads \cup {Nobody}]
    /\ size \in Int
    /\ pc \in [Threads -> Locals]
    /\ result \in [Threads -> Threads \cup {Nobody}]
    /\ joined \in Joinings

\* isMainThread() is right for every thread whatever the table goes through:
\* the main thread's entry stays the first, and an entry that moves under a
\* walk is at worst that of another worker.  So it is as long as only the main
\* thread changes the table; a thread that detaches itself is a second writer.
IsMainThreadRight ==
    joined = Workers =>
        /\ result[Main] = Main
        /\ \A w \in Workers : result[w] # Main

\* With the main thread as the only writer a thread that runs is in the table,
\* those created after removals and during walks included.
EntriesLast ==
    joined = Workers =>
        \A w \in Workers : pc[w].at \in {"run", "scan", "match"} =>
            \E i \in Index : i < size /\ slots[i] = w

\* Whoever removes entries: until the first removal begins to move entries, no
\* walk misses its own.
FoundBeforeRemovals ==
    (\A t \in Threads : pc[t].at \notin {"shifted", "shrink", "removed"}) =>
        \A w \in Workers : result[w] = w

\* The creation mutex: a thread has its entry from its first instruction on and
\* keeps it through the removals of others, if only the main thread changes the
\* table, and currentThread() finds it until entries begin to move, that is up to
\* the first removal.  (Later a walk may miss an entry that moves past it.)
EstablishedFirst == EntriesLast /\ FoundBeforeRemovals
==============================================================================

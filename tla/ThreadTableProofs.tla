-------------------------- MODULE ThreadTableProofs --------------------------
(***************************************************************************)
(* What the table of threads guarantees without its lock, for any workers, *)
(* any choice of the workers waited for and any capacity: isMainThread()   *)
(* and the entries of running threads as long as the main thread alone     *)
(* changes the table, and currentThread() from a thread's first            *)
(* instruction until an entry is removed.                                  *)
(***************************************************************************)
EXTENDS ThreadTable, TLAPS

----------------------------------------------------------------------------
(* The inductive invariant.                                                 *)

\* Where a thread may be: only the main thread creates and joins, a worker
\* removes its own entry and the main thread those of workers, and no size read
\* exceeds the buffer.
RoleOK(t, r) ==
    /\ r.count <= Capacity
    /\ r.at \in {"match", "found"} => r.i < r.count
    /\ t = Main =>
         /\ r.at \notin {"unborn", "blocked", "gone", "removed"}
         /\ r.at \in {"grow", "join", "erase", "found", "shifted", "shrink"} => r.target \in Workers
    /\ t \in Workers =>
         /\ r.at \notin {"grow", "join"}
         /\ r.at \in {"erase", "found", "shifted", "shrink"} => r.target = t

\* A worker stays blocked until its entry is counted.
Creation ==
    pc[Main].at = "grow" => pc[pc[Main].target].at = "blocked" /\ pc[Main].count < Capacity

Shape == size <= Capacity /\ Creation /\ \A t \in Threads : RoleOK(t, pc[t])

\* With the main thread as the only writer its entry is the first and the only
\* one of it, a worker that matched is past it, and the size the main thread has
\* read is the size.
FirstIsMain == slots[0] = Main /\ size >= 1 /\ \A i \in Index : i # 0 => slots[i] # Main

ReaderOK(r) ==
    /\ r.at \in {"unborn", "blocked", "run", "scan", "match", "gone", "removed"}
    /\ r.at = "match" => r.i # 0

WriterOK(r, n) ==
    /\ r.at \in {"scan", "match"} => r.i = 0 /\ r.count >= 1
    /\ r.at \in {"grow", "erase", "found", "shrink"} => r.count = n
    /\ r.at = "found" => r.i # 0
    /\ r.at \in {"found", "shifted", "shrink"} => n >= 2

SoleWriter ==
    joined = Workers => FirstIsMain /\ WriterOK(pc[Main], size) /\ \A w \in Workers : ReaderOK(pc[w])

\* As long as no entry was removed the table only grows, and a worker that looks
\* for its entry has it ahead.
Leaves == {"shifted", "shrink", "removed"}

Calm == \A t \in Threads : pc[t].at \notin Leaves

Finds(w, r) ==
    /\ r.at = "run" => \E k \in Index : k < size /\ slots[k] = w
    /\ r.at = "scan" => \E k \in Index : r.i <= k /\ k < r.count /\ k < size /\ slots[k] = w
    /\ r.at = "match" => r.i \in Index /\ r.i < size /\ slots[r.i] = w

Appended ==
    pc[Main].at = "grow" =>
        pc[Main].count = size /\ size \in Index /\ slots[size] = pc[Main].target

Established == Calm => Appended /\ \A w \in Workers : Finds(w, pc[w])

IInv == TypeOK /\ Shape /\ SoleWriter /\ Established /\ IsMainThreadRight /\ FoundBeforeRemovals

----------------------------------------------------------------------------
(* Types.                                                                   *)

\* Facts about the constants.
LEMMA Constants ==
    /\ Main \in Threads /\ Main # Nobody /\ Main \notin Workers
    /\ \A w \in Workers : w \in Threads /\ w # Main /\ w # Nobody
    /\ \A t \in Threads : t = Main \/ t \in Workers
    /\ 0 \in Index /\ Index \subseteq Nat /\ \A i \in Nat : i < Capacity <=> i \in Index
    /\ Capacity \in Nat
BY ConstAssumption DEF Threads, Index

\* A thread that has just been put somewhere.
LEMMA PlaceType ==
    ASSUME NEW at \in At
    PROVE  /\ Place(at) \in Locals /\ Place(at).at = at /\ Place(at).i = 0
           /\ Place(at).count = 0 /\ Place(at).target = Nobody
BY DEF Place, Locals

\* The locals of a thread.
LEMMA LocalTypes ==
    ASSUME TypeOK, NEW t \in Threads
    PROVE  /\ pc[t] \in Locals /\ pc[t].at \in At /\ pc[t].i \in Nat /\ pc[t].count \in Int
           /\ pc[t].target \in Threads \cup {Nobody}
BY DEF TypeOK, Locals

----------------------------------------------------------------------------
(* One thread moves and the table stays.                                    *)

\* Roles are kept when one thread moves that is not blocked, to where nothing
\* is created.
LEMMA ShapeOne ==
    ASSUME TypeOK, Shape, NEW t \in Threads, NEW m \in Locals, RoleOK(t, m),
           pc' = [pc EXCEPT ![t] = m], pc[t].at # "blocked", m.at # "grow",
           size' \in Int, size' <= Capacity
    PROVE  pc' \in [Threads -> Locals] /\ Shape'
<1>1. pc \in [Threads -> Locals] BY DEF TypeOK
<1>2. pc' \in [Threads -> Locals] /\ \A u \in Threads : pc'[u] = IF u = t THEN m ELSE pc[u]
  BY <1>1
<1>3. \A u \in Threads : RoleOK(u, pc'[u]) BY <1>2 DEF Shape
<1>4. Creation'
  <2>1. CASE t = Main BY <1>2, <2>1, Constants DEF Creation
  <2>2. CASE t # Main
    <3>1. pc'[Main] = pc[Main] BY <1>2, <2>2, Constants
    <3>2. pc[Main].at = "grow" => pc[Main].target \in Threads /\ pc[Main].target # t
      BY Constants DEF Shape, Creation, RoleOK
    <3> QED BY <1>2, <3>1, <3>2 DEF Shape, Creation
  <2> QED BY <2>1, <2>2
<1>5. (\A u \in Threads : RoleOK(u, pc[u]))' BY <1>3
<1> QED BY <1>2, <1>4, <1>5 DEF Shape

\* What one thread has to do for the invariant, when it leaves the table alone.
LEMMA MoveOK ==
    ASSUME IInv, NEW t \in Threads, NEW m \in Locals, RoleOK(t, m), pc' = [pc EXCEPT ![t] = m],
           pc[t].at # "blocked", m.at # "grow", UNCHANGED <<slots, size, joined>>,
           joined = Workers => /\ t = Main => WriterOK(m, size)
                               /\ t \in Workers => ReaderOK(m),
           pc[t].at \in Leaves => m.at \in Leaves,
           Calm /\ m.at \notin Leaves /\ t \in Workers => Finds(t, m),
           NEW x \in Threads \cup {Nobody}, result' = [result EXCEPT ![t] = x],
           joined = Workers => (IF t = Main THEN x = Main ELSE x # Main),
           Calm /\ m.at \notin Leaves /\ t \in Workers => x = t
    PROVE  IInv'
<1>1. TypeOK /\ Shape BY DEF IInv
<1>2. size' \in Int /\ size' <= Capacity BY DEF IInv, TypeOK, Shape
<1>3. pc' \in [Threads -> Locals] /\ Shape' BY <1>1, <1>2, ShapeOne
<1>4. \A u \in Threads : pc'[u] = IF u = t THEN m ELSE pc[u] BY <1>1 DEF TypeOK
<1>5. result' \in [Threads -> Threads \cup {Nobody}]
      /\ \A u \in Threads : result'[u] = IF u = t THEN x ELSE result[u]
  BY <1>1 DEF TypeOK
<1>6. TypeOK' BY <1>1, <1>3, <1>5 DEF TypeOK
<1>7. SoleWriter'
  <2> SUFFICES ASSUME joined' = Workers
               PROVE  FirstIsMain' /\ WriterOK(pc'[Main], size') /\ \A w \in Workers : ReaderOK(pc'[w])
    BY DEF SoleWriter
  <2>1. FirstIsMain /\ WriterOK(pc[Main], size) /\ \A w \in Workers : ReaderOK(pc[w])
    BY DEF IInv, SoleWriter
  <2>2. FirstIsMain' BY <2>1 DEF FirstIsMain
  <2> QED BY <1>4, <2>1, <2>2, Constants
<1>8. Calm' => Calm /\ m.at \notin Leaves
  BY <1>4 DEF Calm
<1>9. Established'
  <2> SUFFICES ASSUME Calm' PROVE Appended' /\ \A w \in Workers : Finds(w, pc[w])' BY DEF Established
  <2>1. Calm /\ m.at \notin Leaves BY <1>8
  <2>2. Appended /\ \A w \in Workers : Finds(w, pc[w]) BY <2>1 DEF IInv, Established
  <2>3. Appended' BY <1>4, <2>2, Constants DEF Appended
  <2>4. ASSUME NEW w \in Workers PROVE Finds(w, pc[w])'
    <3>1. Finds(w, pc'[w]) BY <1>4, <2>1, <2>2, Constants
    <3>2. UNCHANGED <<slots, size>> OBVIOUS
    <3> QED BY <3>1, <3>2 DEF Finds
  <2> QED BY <2>3, <2>4
<1>10. IsMainThreadRight' BY <1>5, Constants DEF IInv, IsMainThreadRight
<1>11. FoundBeforeRemovals'
  <2> SUFFICES ASSUME Calm' PROVE \A w \in Workers : result'[w] = w
    BY DEF FoundBeforeRemovals, Calm, Leaves
  <2>1. Calm /\ m.at \notin Leaves BY <1>8
  <2>2. \A w \in Workers : result[w] = w BY <2>1 DEF IInv, FoundBeforeRemovals, Calm, Leaves
  <2> QED BY <1>5, <2>1, <2>2, Constants
<1> QED BY <1>3, <1>6, <1>7, <1>9, <1>10, <1>11 DEF IInv

\* The same for a thread that returns nothing.
LEMMA KeepsOK ==
    ASSUME IInv, NEW t \in Threads, NEW m \in Locals, RoleOK(t, m), pc' = [pc EXCEPT ![t] = m],
           pc[t].at # "blocked", m.at # "grow", UNCHANGED <<slots, size, result, joined>>,
           joined = Workers => /\ t = Main => WriterOK(m, size)
                               /\ t \in Workers => ReaderOK(m),
           pc[t].at \in Leaves => m.at \in Leaves,
           Calm /\ m.at \notin Leaves /\ t \in Workers => Finds(t, m)
    PROVE  IInv'
<1> DEFINE x == result[t]
<1>1. x \in Threads \cup {Nobody} /\ result' = [result EXCEPT ![t] = x] BY DEF IInv, TypeOK
<1>2. joined = Workers => (IF t = Main THEN x = Main ELSE x # Main)
  BY Constants DEF IInv, IsMainThreadRight
<1>3. Calm /\ t \in Workers => x = t BY DEF IInv, FoundBeforeRemovals, Calm, Leaves
<1>4. UNCHANGED <<slots, size, joined>> OBVIOUS
<1> HIDE DEF x
<1> QED BY <1>1, <1>2, <1>3, <1>4, MoveOK

\* What the invariant says of one thread.
LEMMA Facts ==
    ASSUME IInv, NEW t \in Threads
    PROVE  /\ pc[t] \in Locals /\ pc[t].at \in At /\ pc[t].i \in Nat /\ pc[t].count \in Int
           /\ RoleOK(t, pc[t]) /\ size \in Int /\ size <= Capacity
           /\ joined = Workers => /\ FirstIsMain
                                  /\ t = Main => WriterOK(pc[t], size)
                                  /\ t \in Workers => ReaderOK(pc[t])
           /\ Calm /\ t \in Workers => Finds(t, pc[t])
           /\ t = Main \/ (t \in Workers /\ t # Main)
<1>1. pc[t] \in Locals BY DEF IInv, TypeOK
<1>2. pc[t].at \in At /\ pc[t].i \in Nat /\ pc[t].count \in Int BY <1>1 DEF Locals
<1> QED BY <1>1, <1>2, Constants DEF IInv, TypeOK, Shape, SoleWriter, Established

\* currentThread() begins.
LEMMA CurrentThreadOK == ASSUME IInv, NEW t \in Threads, CurrentThread(t) PROVE IInv'
<1> DEFINE m == [at |-> "scan", i |-> 0, count |-> size, target |-> t]
<1>1. /\ pc[t].at = "run" /\ pc' = [pc EXCEPT ![t] = m] /\ UNCHANGED <<slots, size, result, joined>>
  BY DEF CurrentThread
<1>2. m \in Locals /\ m.at = "scan" /\ m.i = 0 /\ m.count = size BY Facts DEF Locals, At
<1> HIDE DEF m
<1>3. RoleOK(t, m) BY <1>2, Facts DEF RoleOK
<1>4. joined = Workers => WriterOK(m, size) /\ ReaderOK(m)
  BY <1>2, Facts DEF WriterOK, ReaderOK, FirstIsMain
<1>5. Calm /\ t \in Workers => Finds(t, m)
  <2> SUFFICES ASSUME Calm, t \in Workers PROVE Finds(t, m) OBVIOUS
  <2>1. PICK k \in Index : k < size /\ slots[k] = t BY <1>1, Facts DEF Finds
  <2>2. k \in Nat BY Constants
  <2> QED BY <1>2, <2>1, <2>2 DEF Finds
<1>6. pc[t].at # "blocked" /\ m.at # "grow" /\ pc[t].at \notin Leaves BY <1>1, <1>2 DEF Leaves
<1> QED BY <1>1, <1>2, <1>3, <1>4, <1>5, <1>6, KeepsOK

\* An element that is not the thread's.
LEMMA ScanNextOK == ASSUME IInv, NEW t \in Threads, ScanNext(t) PROVE IInv'
<1> DEFINE r == pc[t]
           m == [r EXCEPT !.i = @ + 1]
<1>1. /\ r.at = "scan" /\ r.i < r.count /\ slots[r.i] # t
      /\ pc' = [pc EXCEPT ![t] = m] /\ UNCHANGED <<slots, size, result, joined>>
  BY DEF ScanNext
<1>2. r \in Locals /\ r.i \in Nat /\ r.count \in Int /\ RoleOK(t, r) BY Facts
<1>3. m \in Locals /\ m.at = "scan" /\ m.i = r.i + 1 /\ m.count = r.count BY <1>1, <1>2 DEF Locals
<1> HIDE DEF m
<1>4. RoleOK(t, m) BY <1>2, <1>3 DEF RoleOK
<1>5. joined = Workers => t # Main /\ ReaderOK(m)
  <2> SUFFICES ASSUME joined = Workers PROVE t # Main /\ ReaderOK(m) OBVIOUS
  <2>1. FirstIsMain /\ (t = Main => WriterOK(r, size)) BY Facts
  <2>2. t # Main BY <1>1, <2>1 DEF FirstIsMain, WriterOK
  <2> QED BY <1>3, <2>2 DEF ReaderOK
<1>6. Calm /\ t \in Workers => Finds(t, m)
  <2> SUFFICES ASSUME Calm, t \in Workers PROVE Finds(t, m) OBVIOUS
  <2>1. PICK k \in Index : r.i <= k /\ k < r.count /\ k < size /\ slots[k] = t
    BY <1>1, Facts DEF Finds
  <2>2. k \in Nat /\ k # r.i BY <1>1, <2>1, Constants
  <2>3. m.i <= k BY <1>2, <1>3, <2>1, <2>2
  <2> QED BY <1>3, <2>1, <2>3 DEF Finds
<1>7. r.at # "blocked" /\ m.at # "grow" /\ r.at \notin Leaves BY <1>1, <1>3 DEF Leaves
<1> QED BY <1>1, <1>3, <1>4, <1>5, <1>6, <1>7, KeepsOK

\* An element that is the thread's.
LEMMA ScanMatchesOK == ASSUME IInv, NEW t \in Threads, ScanMatches(t) PROVE IInv'
<1> DEFINE r == pc[t]
           m == [r EXCEPT !.at = "match"]
<1>1. /\ r.at = "scan" /\ r.i < r.count /\ slots[r.i] = t
      /\ pc' = [pc EXCEPT ![t] = m] /\ UNCHANGED <<slots, size, result, joined>>
  BY DEF ScanMatches, Move
<1>2. r \in Locals /\ r.i \in Nat /\ r.count \in Int /\ RoleOK(t, r) BY Facts
<1>3. m \in Locals /\ m.at = "match" /\ m.i = r.i /\ m.count = r.count BY <1>1, <1>2 DEF Locals, At
<1> HIDE DEF m
<1>4. RoleOK(t, m) BY <1>1, <1>2, <1>3 DEF RoleOK
<1>5. joined = Workers => (t = Main => WriterOK(m, size)) /\ (t \in Workers => ReaderOK(m))
  <2> SUFFICES ASSUME joined = Workers
               PROVE  (t = Main => WriterOK(m, size)) /\ (t \in Workers => ReaderOK(m))
    OBVIOUS
  <2>1. FirstIsMain /\ (t = Main => WriterOK(r, size)) BY Facts
  <2>2. t \in Workers => r.i # 0 BY <1>1, <2>1, Constants DEF FirstIsMain
  <2> QED BY <1>1, <1>3, <2>1, <2>2 DEF ReaderOK, WriterOK
<1>6. Calm /\ t \in Workers => Finds(t, m)
  <2> SUFFICES ASSUME Calm, t \in Workers PROVE Finds(t, m) OBVIOUS
  <2>1. PICK k \in Index : r.i <= k /\ k < r.count /\ k < size /\ slots[k] = t
    BY <1>1, Facts DEF Finds
  <2>2. k \in Nat /\ k < Capacity BY <2>1, Constants
  <2>3. r.i < size /\ r.i < Capacity BY <1>2, <2>1, <2>2, Facts, Constants
  <2>4. r.i \in Index BY <1>2, <2>3, Constants
  <2> QED BY <1>1, <1>3, <2>3, <2>4 DEF Finds
<1>7. r.at # "blocked" /\ m.at # "grow" /\ r.at \notin Leaves BY <1>1, <1>3 DEF Leaves
<1> QED BY <1>1, <1>3, <1>4, <1>5, <1>6, <1>7, KeepsOK

\* Back from currentThread() a thread has its entry as before.
LEMMA ReturnsOK ==
    ASSUME IInv, NEW t \in Threads, pc[t].at \in {"scan", "match"},
           pc' = [pc EXCEPT ![t] = Place("run")], UNCHANGED <<slots, size, joined>>,
           NEW x \in Threads \cup {Nobody}, result' = [result EXCEPT ![t] = x],
           joined = Workers => (IF t = Main THEN x = Main ELSE x # Main),
           Calm /\ t \in Workers => x = t
    PROVE  IInv'
<1> DEFINE m == Place("run")
<1>1. m \in Locals /\ m.at = "run" /\ m.i = 0 /\ m.count = 0 BY PlaceType DEF At
<1> HIDE DEF m
<1>2. RoleOK(t, m) BY <1>1, Constants DEF RoleOK
<1>3. WriterOK(m, size) /\ ReaderOK(m) BY <1>1 DEF WriterOK, ReaderOK
<1>4. Calm /\ t \in Workers => Finds(t, m)
  <2> SUFFICES ASSUME Calm, t \in Workers PROVE Finds(t, m) OBVIOUS
  <2>1. \E k \in Index : k < size /\ slots[k] = t BY Facts DEF Finds
  <2> QED BY <1>1, <2>1 DEF Finds
<1>5. pc[t].at # "blocked" /\ m.at # "grow" /\ pc[t].at \notin Leaves BY <1>1 DEF Leaves
<1>6. pc' = [pc EXCEPT ![t] = m] BY DEF m
<1> QED BY <1>1, <1>2, <1>3, <1>4, <1>5, <1>6, MoveOK

\* currentThread() returns the identifier of the element that matched.
LEMMA ScanReturnsOK == ASSUME IInv, NEW t \in Threads, ScanReturns(t) PROVE IInv'
<1> DEFINE r == pc[t]
           x == slots[r.i]
<1>1. /\ r.at = "match" /\ pc' = [pc EXCEPT ![t] = Place("run")]
      /\ result' = [result EXCEPT ![t] = x] /\ UNCHANGED <<slots, size, joined>>
  BY DEF ScanReturns
<1>2. r.i \in Index
  <2>1. r.i \in Nat /\ r.count \in Int /\ r.i < r.count /\ r.count <= Capacity
    BY <1>1, Facts DEF RoleOK
  <2>2. r.i < Capacity BY <2>1, Constants
  <2> QED BY <2>1, <2>2, Constants
<1>3. x \in Threads \cup {Nobody} BY <1>2 DEF IInv, TypeOK
<1>4. joined = Workers => (IF t = Main THEN x = Main ELSE x # Main)
  BY <1>1, <1>2, Facts DEF FirstIsMain, WriterOK, ReaderOK
<1>5. Calm /\ t \in Workers => x = t BY <1>1, Facts DEF Finds
<1> HIDE DEF x
<1> QED BY <1>1, <1>3, <1>4, <1>5, ReturnsOK

\* currentThread() finds nothing: neither the main thread, nor a worker as long
\* as no entry was removed.
LEMMA ScanFailsOK == ASSUME IInv, NEW t \in Threads, ScanFails(t) PROVE IInv'
<1>1. /\ pc[t].at = "scan" /\ pc[t].i >= pc[t].count /\ pc' = [pc EXCEPT ![t] = Place("run")]
      /\ result' = [result EXCEPT ![t] = Nobody] /\ UNCHANGED <<slots, size, joined>>
  BY DEF ScanFails
<1>2. joined = Workers => t # Main BY <1>1, Facts DEF WriterOK
<1>3. ~(Calm /\ t \in Workers)
  <2> SUFFICES ASSUME Calm, t \in Workers PROVE FALSE OBVIOUS
  <2>1. PICK k \in Index : pc[t].i <= k /\ k < pc[t].count BY <1>1, Facts DEF Finds
  <2> QED BY <1>1, <2>1, Facts, Constants
<1> QED BY <1>1, <1>2, <1>3, ReturnsOK, Constants

\* detachThread(): not with the main thread as the only writer.
LEMMA DetachOK == ASSUME IInv, NEW w \in Workers, Detach(w) PROVE IInv'
<1> DEFINE m == [at |-> "erase", i |-> 0, count |-> size, target |-> w]
<1>1. /\ w \notin joined /\ pc[w].at = "run" /\ pc' = [pc EXCEPT ![w] = m]
      /\ UNCHANGED <<slots, size, result, joined>>
  BY DEF Detach
<1>2. w \in Threads /\ w # Main BY Constants
<1>3. m \in Locals /\ m.at = "erase" /\ m.count = size /\ m.target = w BY <1>2, Facts DEF Locals, At
<1> HIDE DEF m
<1>4. RoleOK(w, m) BY <1>2, <1>3, Facts DEF RoleOK
<1>5. joined # Workers BY <1>1
<1>6. Finds(w, m) BY <1>3 DEF Finds
<1>7. pc[w].at # "blocked" /\ m.at # "grow" /\ pc[w].at \notin Leaves BY <1>1, <1>3 DEF Leaves
<1> QED BY <1>1, <1>2, <1>3, <1>4, <1>5, <1>6, <1>7, KeepsOK

\* A thread that is waited for returns.
LEMMA FinishOK == ASSUME IInv, NEW w \in Workers, Finish(w) PROVE IInv'
<1> DEFINE m == Place("gone")
<1>1. pc[w].at = "run" /\ pc' = [pc EXCEPT ![w] = m] /\ UNCHANGED <<slots, size, result, joined>>
  BY DEF Finish
<1>2. w \in Threads /\ w # Main BY Constants
<1>3. m \in Locals /\ m.at = "gone" /\ m.count = 0 BY PlaceType DEF At
<1> HIDE DEF m
<1>4. RoleOK(w, m) BY <1>2, <1>3, Constants DEF RoleOK
<1>5. Finds(w, m) /\ ReaderOK(m) BY <1>3 DEF Finds, ReaderOK
<1>6. pc[w].at # "blocked" /\ m.at # "grow" /\ pc[w].at \notin Leaves BY <1>1, <1>3 DEF Leaves
<1> QED BY <1>1, <1>2, <1>3, <1>4, <1>5, <1>6, KeepsOK

\* waitForThreadCompletion() begins.
LEMMA WaitOK == ASSUME IInv, NEW w \in Workers, WaitForThreadCompletion(w) PROVE IInv'
<1> DEFINE m == [at |-> "join", i |-> 0, count |-> 0, target |-> w]
<1>1. pc[Main].at = "run" /\ pc' = [pc EXCEPT ![Main] = m] /\ UNCHANGED <<slots, size, result, joined>>
  BY DEF WaitForThreadCompletion
<1>2. w \in Threads /\ Main \in Threads /\ Main \notin Workers BY Constants
<1>3. m \in Locals /\ m.at = "join" /\ m.count = 0 /\ m.target = w BY <1>2 DEF Locals, At
<1> HIDE DEF m
<1>4. RoleOK(Main, m) BY <1>2, <1>3, Constants DEF RoleOK
<1>5. WriterOK(m, size) BY <1>3 DEF WriterOK
<1>6. pc[Main].at # "blocked" /\ m.at # "grow" /\ pc[Main].at \notin Leaves BY <1>1, <1>3 DEF Leaves
<1> QED BY <1>1, <1>2, <1>3, <1>4, <1>5, <1>6, KeepsOK

\* The join is over; the main thread looks for the entry.
LEMMA JoinReturnsOK == ASSUME IInv, JoinReturns PROVE IInv'
<1> DEFINE r == pc[Main]
           m == [r EXCEPT !.at = "erase", !.count = size]
<1>1. r.at = "join" /\ pc' = [pc EXCEPT ![Main] = m] /\ UNCHANGED <<slots, size, result, joined>>
  <2>1. pc \in [Threads -> Locals] /\ Main \in Threads BY Constants DEF IInv, TypeOK
  <2> QED BY <2>1 DEF JoinReturns
<1>2. Main \in Threads /\ Main \notin Workers BY Constants
<1>3. r \in Locals /\ RoleOK(Main, r) /\ size \in Int /\ size <= Capacity BY <1>2, Facts
<1>4. m \in Locals /\ m.at = "erase" /\ m.count = size /\ m.target = r.target
  BY <1>3 DEF Locals, At
<1> HIDE DEF m
<1>5. RoleOK(Main, m) BY <1>1, <1>2, <1>3, <1>4 DEF RoleOK
<1>6. WriterOK(m, size) BY <1>4 DEF WriterOK
<1>7. r.at # "blocked" /\ m.at # "grow" /\ r.at \notin Leaves BY <1>1, <1>4 DEF Leaves
<1> QED BY <1>1, <1>2, <1>4, <1>5, <1>6, <1>7, KeepsOK

\* removeThreadIdentifier() looks at an element.
LEMMA EraseNextOK == ASSUME IInv, NEW t \in Threads, EraseNext(t) PROVE IInv'
<1> DEFINE r == pc[t]
           m == [r EXCEPT !.i = @ + 1]
<1>1. r.at = "erase" /\ pc' = [pc EXCEPT ![t] = m] /\ UNCHANGED <<slots, size, result, joined>>
  BY DEF EraseNext
<1>2. r \in Locals /\ r.i \in Nat /\ RoleOK(t, r) BY Facts
<1>3. m \in Locals /\ m.at = "erase" /\ m.count = r.count /\ m.target = r.target
  BY <1>1, <1>2 DEF Locals
<1> HIDE DEF m
<1>4. RoleOK(t, m) BY <1>1, <1>2, <1>3 DEF RoleOK
<1>5. joined = Workers => (t = Main => WriterOK(m, size)) /\ t \notin Workers
  BY <1>1, <1>3, Facts DEF WriterOK, ReaderOK
<1>6. Finds(t, m) BY <1>3 DEF Finds
<1>7. r.at # "blocked" /\ m.at # "grow" /\ r.at \notin Leaves BY <1>1, <1>3 DEF Leaves
<1> QED BY <1>1, <1>3, <1>4, <1>5, <1>6, <1>7, KeepsOK

\* It has found the entry; with the main thread as the only writer it is not the
\* first one, and another follows the main thread's.
LEMMA EraseMatchesOK == ASSUME IInv, NEW t \in Threads, EraseMatches(t) PROVE IInv'
<1> DEFINE r == pc[t]
           m == [r EXCEPT !.at = "found"]
<1>1. /\ r.at = "erase" /\ r.i < r.count /\ slots[r.i] = r.target
      /\ pc' = [pc EXCEPT ![t] = m] /\ UNCHANGED <<slots, size, result, joined>>
  BY DEF EraseMatches, Move
<1>2. r \in Locals /\ r.i \in Nat /\ r.count \in Int /\ RoleOK(t, r) BY Facts
<1>3. m \in Locals /\ m.at = "found" /\ m.i = r.i /\ m.count = r.count /\ m.target = r.target
  BY <1>1, <1>2 DEF Locals, At
<1> HIDE DEF m
<1>4. RoleOK(t, m) BY <1>1, <1>2, <1>3 DEF RoleOK
<1>5. joined = Workers => (t = Main => WriterOK(m, size)) /\ t \notin Workers
  <2> SUFFICES ASSUME joined = Workers PROVE (t = Main => WriterOK(m, size)) /\ t \notin Workers
    OBVIOUS
  <2>1. t \notin Workers /\ t = Main BY <1>1, Facts DEF ReaderOK
  <2>2. FirstIsMain /\ r.count = size BY <1>1, <2>1, Facts DEF WriterOK
  <2>3. r.target \in Workers BY <1>1, <1>2, <2>1 DEF RoleOK
  <2>4. r.i # 0 BY <1>1, <2>2, <2>3, Constants DEF FirstIsMain
  <2>5. size >= 2 BY <1>1, <1>2, <2>2, <2>4
  <2> QED BY <1>3, <2>1, <2>2, <2>4, <2>5 DEF WriterOK
<1>6. Finds(t, m) BY <1>3 DEF Finds
<1>7. r.at # "blocked" /\ m.at # "grow" /\ r.at \notin Leaves BY <1>1, <1>3 DEF Leaves
<1> QED BY <1>1, <1>3, <1>4, <1>5, <1>6, <1>7, KeepsOK

\* --m_size reads the size.
LEMMA ShrinkReadsOK == ASSUME IInv, NEW t \in Threads, ShrinkReads(t) PROVE IInv'
<1> DEFINE r == pc[t]
           m == [r EXCEPT !.at = "shrink", !.count = size]
<1>1. r.at = "shifted" /\ pc' = [pc EXCEPT ![t] = m] /\ UNCHANGED <<slots, size, result, joined>>
  <2>1. pc \in [Threads -> Locals] BY DEF IInv, TypeOK
  <2> QED BY <2>1 DEF ShrinkReads
<1>2. r \in Locals /\ RoleOK(t, r) /\ size \in Int /\ size <= Capacity BY Facts
<1>3. m \in Locals /\ m.at = "shrink" /\ m.count = size /\ m.target = r.target
  BY <1>2 DEF Locals, At
<1> HIDE DEF m
<1>4. RoleOK(t, m) BY <1>1, <1>2, <1>3 DEF RoleOK
<1>5. joined = Workers => (t = Main => WriterOK(m, size)) /\ t \notin Workers
  BY <1>1, <1>3, Facts DEF WriterOK, ReaderOK
<1>6. r.at # "blocked" /\ m.at # "grow" /\ m.at \in Leaves BY <1>1, <1>3 DEF Leaves
<1> QED BY <1>1, <1>3, <1>4, <1>5, <1>6, KeepsOK

----------------------------------------------------------------------------
(* Steps that change the table, or two threads.                             *)

\* Vector::remove() closes the gap: from then on something was removed.  With
\* the main thread as the only writer the first entry stays where it is.
LEMMA ShiftOK == ASSUME IInv, NEW t \in Threads, Shift(t) PROVE IInv'
<1> DEFINE r == pc[t]
           m == [r EXCEPT !.at = "shifted"]
<1>1. /\ r.at = "found" /\ pc' = [pc EXCEPT ![t] = m] /\ UNCHANGED <<size, result, joined>>
      /\ slots' = [i \in Index |-> IF r.i <= i /\ i + 1 < size THEN slots[i + 1] ELSE slots[i]]
  BY DEF Shift, Move
<1>2. r \in Locals /\ r.i \in Nat /\ RoleOK(t, r) /\ size \in Int /\ size <= Capacity BY Facts
<1>3. m \in Locals /\ m.at = "shifted" /\ m.count = r.count /\ m.target = r.target
  BY <1>1, <1>2 DEF Locals, At
<1>4. pc \in [Threads -> Locals] /\ slots \in [Index -> Threads \cup {Nobody}] /\ TypeOK /\ Shape
  BY DEF IInv, TypeOK
<1> HIDE DEF m
<1>5. RoleOK(t, m) BY <1>1, <1>2, <1>3 DEF RoleOK
<1>6. r.at # "blocked" /\ m.at # "grow" BY <1>1, <1>3
<1>7. pc' \in [Threads -> Locals] /\ Shape'
  <2>1. size' \in Int /\ size' <= Capacity BY <1>1, <1>2
  <2> QED BY <1>1, <1>3, <1>4, <1>5, <1>6, <2>1, ShapeOne
<1>8. \A i \in Index : i + 1 < size => i + 1 \in Index
  <2> SUFFICES ASSUME NEW i \in Index, i + 1 < size PROVE i + 1 \in Index OBVIOUS
  <2>1. i \in Nat /\ Capacity \in Nat BY Constants
  <2>2. i + 1 \in Nat /\ i + 1 < Capacity BY <1>2, <2>1
  <2> QED BY <2>2, Constants
<1>9. slots' \in [Index -> Threads \cup {Nobody}] BY <1>1, <1>4, <1>8
<1>10. TypeOK' BY <1>1, <1>4, <1>7, <1>9 DEF TypeOK
<1>11. \A u \in Threads : pc'[u] = IF u = t THEN m ELSE pc[u] BY <1>1, <1>4
<1>12. ~Calm' BY <1>3, <1>11 DEF Calm, Leaves
<1>13. Established' /\ FoundBeforeRemovals'
  BY <1>12 DEF Established, FoundBeforeRemovals, Calm, Leaves
<1>14. IsMainThreadRight' BY <1>1 DEF IInv, IsMainThreadRight
<1>15. SoleWriter'
  <2> SUFFICES ASSUME joined' = Workers
               PROVE  FirstIsMain' /\ WriterOK(pc'[Main], size') /\ \A w \in Workers : ReaderOK(pc'[w])
    BY DEF SoleWriter
  <2>1. joined = Workers BY <1>1
  <2>2. t = Main BY <1>1, <2>1, Facts DEF ReaderOK
  <2>3. FirstIsMain /\ r.i # 0 /\ size >= 2 BY <1>1, <2>1, <2>2, Facts DEF WriterOK
  <2>4. WriterOK(pc'[Main], size') BY <1>1, <1>3, <1>11, <2>2, <2>3 DEF WriterOK
  <2>5. \A w \in Workers : ReaderOK(pc'[w])
    <3>1. \A w \in Workers : ReaderOK(pc[w]) BY <2>1 DEF IInv, SoleWriter
    <3> QED BY <1>11, <2>2, <3>1, Constants
  <2>6. slots'[0] = slots[0] BY <1>1, <1>2, <2>3, Constants
  <2>7. ASSUME NEW i \in Index, i # 0 PROVE slots'[i] # Main
    <3>1. i \in Nat BY Constants
    <3>2. i + 1 < size => i + 1 \in Index /\ i + 1 # 0 BY <1>8, <3>1
    <3> QED BY <1>1, <2>3, <2>7, <3>2 DEF FirstIsMain
  <2>8. FirstIsMain' BY <1>1, <2>3, <2>6, <2>7 DEF FirstIsMain
  <2> QED BY <2>4, <2>5, <2>8
<1> QED BY <1>7, <1>10, <1>13, <1>14, <1>15 DEF IInv

\* removeThreadIdentifier() returns: its target is removed.
LEMMA RemovedOK ==
    ASSUME IInv, NEW t \in Threads, pc[t].at \in {"erase", "shrink"},
           pc' = [u \in Threads |-> CASE u = pc[t].target -> Place("removed")
                                      [] u = Main /\ t = Main -> Place("run")
                                      [] OTHER -> pc[u]],
           size' \in Int, size' <= Capacity, joined = Workers => size' >= 1,
           UNCHANGED <<slots, result, joined>>
    PROVE  IInv'
<1> DEFINE w == pc[t].target
<1>1. TypeOK /\ Shape /\ pc \in [Threads -> Locals] BY DEF IInv, TypeOK
<1>2. w \in Workers /\ (t \in Workers => w = t) /\ (t = Main \/ t \in Workers)
  BY Facts DEF RoleOK
<1>3. w \in Threads /\ w # Main /\ Main \in Threads BY <1>2, Constants
<1> HIDE DEF w
<1>4. /\ Place("removed") \in Locals /\ Place("removed").at = "removed" /\ Place("removed").count = 0
      /\ Place("run") \in Locals /\ Place("run").at = "run" /\ Place("run").count = 0
  BY PlaceType DEF At
<1>5. /\ pc'[w] = Place("removed")
      /\ \A u \in Threads : u # w /\ u # Main => pc'[u] = pc[u]
      /\ pc'[Main] = IF t = Main THEN Place("run") ELSE pc[Main]
  BY <1>3 DEF w
<1>6. pc' \in [Threads -> Locals]
  <2>1. \A u \in Threads : pc'[u] \in Locals BY <1>1, <1>3, <1>4, <1>5
  <2>2. pc' = [u \in Threads |-> pc'[u]] OBVIOUS
  <2> QED BY <2>1, <2>2
<1>7. TypeOK' BY <1>1, <1>6 DEF TypeOK
<1>8. Shape'
  <2>1. RoleOK(w, Place("removed")) /\ RoleOK(Main, Place("run"))
    BY <1>2, <1>3, <1>4, Constants DEF RoleOK
  <2>2. \A u \in Threads : RoleOK(u, pc[u]) BY <1>1 DEF Shape
  <2>3. \A u \in Threads : RoleOK(u, pc'[u]) BY <1>5, <2>1, <2>2
  <2>4. Creation'
    <3>1. CASE t = Main BY <1>4, <1>5, <3>1 DEF Creation
    <3>2. CASE t # Main
      <4>1. w = t /\ pc'[Main] = pc[Main] BY <1>2, <1>5, <3>2
      <4>2. Creation BY <1>1 DEF Shape
      <4>3. pc[Main].at = "grow" => pc[Main].target \in Workers BY <2>2, <1>3 DEF RoleOK
      <4>4. pc[Main].at = "grow" => pc[Main].target # w BY <4>1, <4>2 DEF Creation
      <4>5. pc[Main].at = "grow" => pc'[pc[Main].target] = pc[pc[Main].target]
        BY <1>5, <4>3, <4>4, Constants
      <4> QED BY <4>1, <4>2, <4>5 DEF Creation
    <3> QED BY <3>1, <3>2
  <2>5. (\A u \in Threads : RoleOK(u, pc[u]))' BY <2>3
  <2> QED BY <2>4, <2>5 DEF Shape
<1>9. ~Calm' BY <1>3, <1>4, <1>5 DEF Calm, Leaves
<1>10. Established' /\ FoundBeforeRemovals'
  BY <1>9 DEF Established, FoundBeforeRemovals, Calm, Leaves
<1>11. IsMainThreadRight' BY DEF IInv, IsMainThreadRight
<1>12. SoleWriter'
  <2> SUFFICES ASSUME joined' = Workers
               PROVE  FirstIsMain' /\ WriterOK(pc'[Main], size') /\ \A v \in Workers : ReaderOK(pc'[v])
    BY DEF SoleWriter
  <2>1. joined = Workers OBVIOUS
  <2>2. t = Main BY <1>2, <2>1, Facts DEF ReaderOK
  <2>3. FirstIsMain /\ \A v \in Workers : ReaderOK(pc[v]) BY <2>1 DEF IInv, SoleWriter
  <2>4. FirstIsMain' BY <2>1, <2>3 DEF FirstIsMain
  <2>5. WriterOK(pc'[Main], size') BY <1>4, <1>5, <2>2 DEF WriterOK
  <2>6. \A v \in Workers : ReaderOK(pc'[v])
    <3>1. ReaderOK(Place("removed")) BY <1>4 DEF ReaderOK
    <3> QED BY <1>5, <2>3, <3>1, Constants
  <2> QED BY <2>4, <2>5, <2>6
<1> QED BY <1>7, <1>8, <1>10, <1>11, <1>12 DEF IInv

\* --m_size writes the size.
LEMMA ShrinkWritesOK == ASSUME IInv, NEW t \in Threads, ShrinkWrites(t) PROVE IInv'
<1>1. /\ pc[t].at = "shrink" /\ size' = pc[t].count - 1 /\ UNCHANGED <<slots, result, joined>>
      /\ pc' = [u \in Threads |-> CASE u = pc[t].target -> Place("removed")
                                    [] u = Main /\ t = Main -> Place("run")
                                    [] OTHER -> pc[u]]
  BY DEF ShrinkWrites
<1>2. pc[t].count \in Int /\ pc[t].count <= Capacity BY Facts DEF RoleOK
<1>3. size' \in Int /\ size' <= Capacity BY <1>1, <1>2, Constants
<1>4. joined = Workers => size' >= 1
  <2> SUFFICES ASSUME joined = Workers PROVE size' >= 1 OBVIOUS
  <2>1. t = Main BY <1>1, Facts DEF ReaderOK
  <2>2. pc[t].count = size /\ size >= 2 BY <1>1, <2>1, Facts DEF WriterOK
  <2> QED BY <1>1, <1>2, <2>2
<1> QED BY <1>1, <1>3, <1>4, RemovedOK

\* The entry was not found.
LEMMA EraseFailsOK == ASSUME IInv, NEW t \in Threads, EraseFails(t) PROVE IInv'
<1>1. /\ pc[t].at = "erase" /\ UNCHANGED <<slots, size, result, joined>>
      /\ pc' = [u \in Threads |-> CASE u = pc[t].target -> Place("removed")
                                    [] u = Main /\ t = Main -> Place("run")
                                    [] OTHER -> pc[u]]
  BY DEF EraseFails
<1>2. size' \in Int /\ size' <= Capacity BY <1>1, Facts
<1>3. joined = Workers => size' >= 1 BY <1>1, Facts DEF FirstIsMain
<1> QED BY <1>1, <1>2, <1>3, RemovedOK

\* append() writes the entry behind all others and the new thread is blocked.
LEMMA CreateOK == ASSUME IInv, NEW w \in Workers, Create(w) PROVE IInv'
<1> DEFINE g == [at |-> "grow", i |-> 0, count |-> size, target |-> w]
           b == Place("blocked")
<1>1. /\ pc[Main].at = "run" /\ pc[w].at = "unborn" /\ size \in Index
      /\ slots' = [slots EXCEPT ![size] = w]
      /\ pc' = [pc EXCEPT ![Main] = g, ![w] = b]
      /\ UNCHANGED <<size, result, joined>>
  BY DEF Create
<1>2. TypeOK /\ Shape /\ pc \in [Threads -> Locals] /\ slots \in [Index -> Threads \cup {Nobody}]
  BY DEF IInv, TypeOK
<1>3. w \in Threads /\ w # Main /\ Main \in Threads /\ Main \notin Workers /\ 0 \in Index BY Constants
<1>4. size \in Nat /\ size \in Int /\ size < Capacity /\ Capacity \in Nat BY <1>1, Constants
<1>5. g \in Locals /\ g.at = "grow" /\ g.count = size /\ g.target = w
  BY <1>3, <1>4 DEF Locals, At
<1>6. b \in Locals /\ b.at = "blocked" /\ b.count = 0 BY PlaceType DEF At
<1> HIDE DEF g, b
<1>7. /\ pc' \in [Threads -> Locals] /\ pc'[Main] = g /\ pc'[w] = b
      /\ \A u \in Threads : u # Main /\ u # w => pc'[u] = pc[u]
  BY <1>1, <1>2, <1>3, <1>5, <1>6
<1>8. /\ slots' \in [Index -> Threads \cup {Nobody}] /\ slots'[size] = w
      /\ \A i \in Index : i # size => slots'[i] = slots[i]
  BY <1>1, <1>2, <1>3
<1>9. TypeOK' BY <1>1, <1>2, <1>7, <1>8 DEF TypeOK
<1>10. Shape'
  <2>1. RoleOK(Main, g) /\ RoleOK(w, b) BY <1>3, <1>4, <1>5, <1>6 DEF RoleOK
  <2>2. \A u \in Threads : RoleOK(u, pc[u]) BY <1>2 DEF Shape
  <2>3. \A u \in Threads : RoleOK(u, pc'[u]) BY <1>7, <2>1, <2>2
  <2>4. (\A u \in Threads : RoleOK(u, pc[u]))' BY <2>3
  <2>5. Creation' BY <1>4, <1>5, <1>6, <1>7 DEF Creation
  <2>6. size' <= Capacity BY <1>1, <1>4
  <2> QED BY <2>4, <2>5, <2>6 DEF Shape
<1>11. SoleWriter'
  <2> SUFFICES ASSUME joined' = Workers
               PROVE  FirstIsMain' /\ WriterOK(pc'[Main], size') /\ \A v \in Workers : ReaderOK(pc'[v])
    BY DEF SoleWriter
  <2>1. joined = Workers BY <1>1
  <2>2. FirstIsMain /\ \A v \in Workers : ReaderOK(pc[v]) BY <2>1 DEF IInv, SoleWriter
  <2>3. size # 0 BY <1>4, <2>2 DEF FirstIsMain
  <2>4. FirstIsMain' BY <1>1, <1>3, <1>8, <2>2, <2>3 DEF FirstIsMain
  <2>5. WriterOK(pc'[Main], size') BY <1>1, <1>5, <1>7 DEF WriterOK
  <2>6. ReaderOK(b) BY <1>6 DEF ReaderOK
  <2>7. \A v \in Workers : ReaderOK(pc'[v]) BY <1>3, <1>6, <1>7, <2>2, <2>6, Constants
  <2> QED BY <2>4, <2>5, <2>7
<1>12. Calm' => Calm
  BY <1>1, <1>7 DEF Calm, Leaves
<1>13. Established'
  <2> SUFFICES ASSUME Calm' PROVE Appended' /\ \A v \in Workers : Finds(v, pc[v])' BY DEF Established
  <2>1. \A v \in Workers : Finds(v, pc[v]) BY <1>12 DEF IInv, Established
  <2>2. Appended' BY <1>1, <1>5, <1>7, <1>8 DEF Appended
  <2>3. ASSUME NEW v \in Workers PROVE Finds(v, pc[v])'
    <3>1. CASE v = w BY <1>6, <1>7, <3>1 DEF Finds
    <3>2. CASE v # w
      <4>1. pc'[v] = pc[v] /\ Finds(v, pc[v]) BY <1>7, <2>1, <3>2, Constants
      <4>2. \A k \in Index : k < size => slots'[k] = slots[k] BY <1>4, <1>8, Constants
      <4>3. size' = size BY <1>1
      <4> QED BY <4>1, <4>2, <4>3 DEF Finds
    <3> QED BY <3>1, <3>2
  <2> QED BY <2>2, <2>3
<1>14. IsMainThreadRight' BY <1>1 DEF IInv, IsMainThreadRight
<1>15. FoundBeforeRemovals' BY <1>1, <1>12 DEF IInv, FoundBeforeRemovals, Calm, Leaves
<1> QED BY <1>9, <1>10, <1>11, <1>13, <1>14, <1>15 DEF IInv

\* append() counts the entry and the new thread runs.
LEMMA GrowOK == ASSUME IInv, Grow PROVE IInv'
<1> DEFINE g == pc[Main]
           w == g.target
           b == Place("run")
<1>1. /\ g.at = "grow" /\ size' = g.count + 1 /\ UNCHANGED <<slots, result, joined>>
      /\ pc' = [pc EXCEPT ![Main] = b, ![w] = b]
  BY DEF Grow
<1>2. TypeOK /\ Shape /\ pc \in [Threads -> Locals] BY DEF IInv, TypeOK
<1>3. Main \in Threads /\ Main \notin Workers /\ Capacity \in Nat BY Constants
<1>4. g.count \in Int /\ RoleOK(Main, g) /\ Creation BY <1>3, Facts DEF IInv, Shape
<1>5. w \in Workers /\ pc[w].at = "blocked" /\ g.count < Capacity BY <1>1, <1>4 DEF RoleOK, Creation
<1>6. w \in Threads /\ w # Main BY <1>5, Constants
<1>7. size' \in Int /\ size' <= Capacity BY <1>1, <1>3, <1>4, <1>5
<1>8. b \in Locals /\ b.at = "run" /\ b.count = 0 BY PlaceType DEF At
<1> HIDE DEF b, g, w
<1>9. /\ pc' \in [Threads -> Locals] /\ pc'[Main] = b /\ pc'[w] = b
      /\ \A u \in Threads : u # Main /\ u # w => pc'[u] = pc[u]
  BY <1>1, <1>2, <1>3, <1>6, <1>8
<1>10. TypeOK' BY <1>1, <1>2, <1>7, <1>9 DEF TypeOK
<1>11. Shape'
  <2>1. RoleOK(Main, b) /\ RoleOK(w, b) BY <1>3, <1>6, <1>8 DEF RoleOK
  <2>2. \A u \in Threads : RoleOK(u, pc[u]) BY <1>2 DEF Shape
  <2>3. \A u \in Threads : RoleOK(u, pc'[u]) BY <1>9, <2>1, <2>2
  <2>4. (\A u \in Threads : RoleOK(u, pc[u]))' BY <2>3
  <2>5. Creation' BY <1>8, <1>9 DEF Creation
  <2> QED BY <1>7, <2>4, <2>5 DEF Shape
<1>12. SoleWriter'
  <2> SUFFICES ASSUME joined' = Workers
               PROVE  FirstIsMain' /\ WriterOK(pc'[Main], size') /\ \A v \in Workers : ReaderOK(pc'[v])
    BY DEF SoleWriter
  <2>1. joined = Workers BY <1>1
  <2>2. FirstIsMain /\ WriterOK(g, size) /\ \A v \in Workers : ReaderOK(pc[v])
    BY <2>1 DEF IInv, SoleWriter, g
  <2>3. g.count = size /\ size >= 1 BY <1>1, <2>2 DEF WriterOK, FirstIsMain
  <2>4. size' >= 1 BY <1>1, <1>4, <2>3
  <2>5. FirstIsMain' BY <1>1, <2>2, <2>4 DEF FirstIsMain
  <2>6. WriterOK(b, size') /\ ReaderOK(b) BY <1>8 DEF WriterOK, ReaderOK
  <2>7. \A v \in Workers : ReaderOK(pc'[v]) BY <1>9, <2>2, <2>6, Constants
  <2> QED BY <1>9, <2>5, <2>6, <2>7
<1>13. Calm' => Calm
  BY <1>1, <1>5, <1>9 DEF Calm, Leaves, g
<1>14. Established'
  <2> SUFFICES ASSUME Calm' PROVE Appended' /\ \A v \in Workers : Finds(v, pc[v])' BY DEF Established
  <2>1. Appended /\ \A v \in Workers : Finds(v, pc[v]) BY <1>13 DEF IInv, Established
  <2>2. g.count = size /\ size \in Index /\ slots[size] = w BY <1>1, <2>1 DEF Appended, g, w
  <2>3. size \in Nat /\ size' = size + 1 BY <1>1, <2>2, Constants
  <2>4. Appended' BY <1>8, <1>9 DEF Appended
  <2>5. ASSUME NEW v \in Workers PROVE Finds(v, pc[v])'
    <3>1. CASE v = w
      <4>1. size < size' /\ slots'[size] = v BY <1>1, <2>2, <2>3, <3>1
      <4> QED BY <1>8, <1>9, <2>2, <3>1, <4>1 DEF Finds
    <3>2. CASE v # w
      <4>1. pc'[v] = pc[v] /\ Finds(v, pc[v]) BY <1>9, <2>1, <3>2, Constants
      <4>2. \A k \in Index : k < size => k < size' BY <2>3, Constants
      <4>3. slots' = slots BY <1>1
      <4> QED BY <4>1, <4>2, <4>3 DEF Finds
    <3> QED BY <3>1, <3>2
  <2> QED BY <2>4, <2>5
<1>15. IsMainThreadRight' BY <1>1 DEF IInv, IsMainThreadRight
<1>16. FoundBeforeRemovals' BY <1>1, <1>13 DEF IInv, FoundBeforeRemovals, Calm, Leaves
<1> QED BY <1>10, <1>11, <1>12, <1>14, <1>15, <1>16 DEF IInv

----------------------------------------------------------------------------
(* The theorems.                                                            *)

\* initializeThreading() has made the main thread's entry.
LEMMA InitOK == Init => IInv
<1> SUFFICES ASSUME Init PROVE IInv OBVIOUS
<1>1. /\ slots = [i \in Index |-> IF i = 0 THEN Main ELSE Nobody] /\ size = 1
      /\ pc = [t \in Threads |-> Place(IF t = Main THEN "run" ELSE "unborn")]
      /\ result = [t \in Threads |-> t] /\ joined \in Joinings
  BY DEF Init
<1>2. /\ Place("run") \in Locals /\ Place("run").at = "run" /\ Place("run").count = 0
      /\ Place("unborn") \in Locals /\ Place("unborn").at = "unborn" /\ Place("unborn").count = 0
  BY PlaceType DEF At
<1>3. pc[Main] = Place("run") /\ \A w \in Workers : pc[w] = Place("unborn") BY <1>1, Constants
<1>4. TypeOK
  <2>1. pc \in [Threads -> Locals] BY <1>1, <1>2
  <2>2. slots \in [Index -> Threads \cup {Nobody}] BY <1>1, Constants
  <2> QED BY <1>1, <2>1, <2>2 DEF TypeOK
<1>5. Shape
  <2>1. RoleOK(Main, pc[Main]) /\ \A w \in Workers : RoleOK(w, pc[w])
    BY <1>2, <1>3, Constants DEF RoleOK
  <2>2. Creation BY <1>2, <1>3 DEF Creation
  <2>3. size <= Capacity BY <1>1, ConstAssumption
  <2> QED BY <2>1, <2>2, <2>3, Constants DEF Shape
<1>6. SoleWriter
  <2>1. FirstIsMain BY <1>1, Constants DEF FirstIsMain
  <2>2. WriterOK(pc[Main], size) /\ \A w \in Workers : ReaderOK(pc[w])
    BY <1>2, <1>3 DEF WriterOK, ReaderOK
  <2> QED BY <2>1, <2>2 DEF SoleWriter
<1>7. Established BY <1>2, <1>3 DEF Established, Appended, Finds
<1>8. IsMainThreadRight /\ FoundBeforeRemovals
  BY <1>1, Constants DEF IsMainThreadRight, FoundBeforeRemovals
<1> QED BY <1>4, <1>5, <1>6, <1>7, <1>8 DEF IInv

\* Every access to the table keeps the invariant.
LEMMA NextOK == IInv /\ [Next]_vars => IInv'
<1> SUFFICES ASSUME IInv, [Next]_vars PROVE IInv' OBVIOUS
<1>1. CASE UNCHANGED vars
  BY <1>1 DEF vars, IInv, TypeOK, Shape, Creation, SoleWriter, FirstIsMain, Established, Calm,
              Appended, Finds, IsMainThreadRight, FoundBeforeRemovals
<1>2. CASE Grow BY <1>2, GrowOK
<1>3. CASE JoinReturns BY <1>3, JoinReturnsOK
<1>4. ASSUME NEW w \in Workers, Create(w) \/ Detach(w) \/ Finish(w) \/ WaitForThreadCompletion(w)
      PROVE  IInv'
  BY <1>4, CreateOK, DetachOK, FinishOK, WaitOK
<1>5. ASSUME NEW t \in Threads,
             CurrentThread(t) \/ ScanNext(t) \/ ScanMatches(t) \/ ScanReturns(t) \/ ScanFails(t)
      PROVE  IInv'
  BY <1>5, CurrentThreadOK, ScanNextOK, ScanMatchesOK, ScanReturnsOK, ScanFailsOK
<1>6. ASSUME NEW t \in Threads,
             \/ EraseNext(t) \/ EraseMatches(t) \/ Shift(t)
             \/ ShrinkReads(t) \/ ShrinkWrites(t) \/ EraseFails(t)
      PROVE  IInv'
  BY <1>6, EraseNextOK, EraseMatchesOK, ShiftOK, ShrinkReadsOK, ShrinkWritesOK, EraseFailsOK
<1> QED BY <1>1, <1>2, <1>3, <1>4, <1>5, <1>6 DEF Next

\* The invariant, with the types, holds in every reachable state.
THEOREM Invariance == Spec => []IInv
<1>1. Init => IInv BY InitOK
<1>2. IInv /\ [Next]_vars => IInv' BY NextOK
<1> QED BY <1>1, <1>2, PTL DEF Spec

\* IsMainThreadRight: with the main thread as the only writer no walk of
\* currentThread() mistakes a worker for the main thread or misses it.
THEOREM MainThreadIsKnown == Spec => []IsMainThreadRight
<1>1. IInv => IsMainThreadRight BY DEF IInv
<1> QED BY <1>1, Invariance, PTL

----------------------------------------------------------------------------
(* Entries last.                                                            *)

Running == {"run", "scan", "match"}

Removing == {"shifted", "shrink"}

\* The elements that stay when a removal that has closed its gap counts it.
Settled == IF pc[Main].at \in Removing THEN size - 1 ELSE size

\* With the main thread as the only writer: every running worker is among the
\* elements that stay, an entry that is made is behind all others, and what is
\* removed is the entry of a thread that ended.
Kept ==
    joined = Workers =>
        /\ \A w \in Workers : pc[w].at \in Running => \E k \in Index : k < Settled /\ slots[k] = w
        /\ pc[Main].at = "grow" => size \in Index /\ slots[size] = pc[Main].target
        /\ pc[Main].at = "found" => pc[Main].i \in Index /\ slots[pc[Main].i] = pc[Main].target
        /\ pc[Main].at \in {"erase", "found"} => pc[pc[Main].target].at = "gone"

\* A worker moves and the table stays.
LEMMA KeptByWorker ==
    ASSUME IInv, Kept, NEW w \in Workers, NEW m \in Locals, pc' = [pc EXCEPT ![w] = m],
           m.at \in Running => pc[w].at \in Running, pc[w].at # "gone",
           UNCHANGED <<slots, size, joined>>
    PROVE  Kept'
<1> SUFFICES ASSUME joined = Workers PROVE Kept' BY DEF Kept
<1>1. pc \in [Threads -> Locals] /\ w \in Threads /\ w # Main /\ Main \in Threads
  BY Constants DEF IInv, TypeOK
<1>2. pc'[w] = m /\ pc'[Main] = pc[Main] /\ \A u \in Threads : u # w => pc'[u] = pc[u] BY <1>1
<1>3. RoleOK(Main, pc[Main]) BY <1>1, Facts
<1>4. Settled' = Settled BY <1>2 DEF Settled
<1>5. ASSUME NEW v \in Workers, pc'[v].at \in Running
      PROVE  \E k \in Index : k < Settled' /\ slots'[k] = v
  <2>1. pc[v].at \in Running BY <1>2, <1>5, Constants
  <2> QED BY <1>4, <2>1 DEF Kept
<1>6. pc[Main].at \in {"erase", "found"} => pc'[pc[Main].target].at = "gone"
  <2> SUFFICES ASSUME pc[Main].at \in {"erase", "found"} PROVE pc'[pc[Main].target].at = "gone"
    OBVIOUS
  <2>1. pc[Main].target \in Workers BY <1>3, Constants DEF RoleOK
  <2>2. pc[pc[Main].target].at = "gone" BY DEF Kept
  <2> QED BY <1>2, <2>1, <2>2, Constants
<1> QED BY <1>2, <1>5, <1>6 DEF Kept

\* The main thread moves and the table stays.
LEMMA KeptByMain ==
    ASSUME IInv, Kept, NEW m \in Locals, pc' = [pc EXCEPT ![Main] = m],
           m.at \in Removing <=> pc[Main].at \in Removing, m.at # "grow",
           joined = Workers =>
             /\ m.at = "found" => m.i \in Index /\ slots[m.i] = m.target
             /\ m.at \in {"erase", "found"} => m.target \in Workers /\ pc[m.target].at = "gone",
           UNCHANGED <<slots, size, joined>>
    PROVE  Kept'
<1> SUFFICES ASSUME joined = Workers PROVE Kept' BY DEF Kept
<1>1. pc \in [Threads -> Locals] /\ Main \in Threads BY Constants DEF IInv, TypeOK
<1>2. pc'[Main] = m /\ \A w \in Workers : pc'[w] = pc[w] BY <1>1, Constants
<1>3. Settled' = Settled BY <1>2 DEF Settled
<1> QED BY <1>2, <1>3 DEF Kept

\* currentThread() changes nothing.
LEMMA KeptByScan ==
    ASSUME IInv, Kept, NEW t \in Threads,
           CurrentThread(t) \/ ScanNext(t) \/ ScanMatches(t) \/ ScanReturns(t) \/ ScanFails(t)
    PROVE  Kept'
<1>1. pc[t].at \in Running /\ UNCHANGED <<slots, size, joined>>
  BY DEF CurrentThread, ScanNext, ScanMatches, ScanReturns, ScanFails, Running
<1>2. pc[t] \in Locals /\ pc[t].i \in Nat /\ size \in Int BY Facts
<1>3. PICK m \in Locals : m.at \in Running /\ pc' = [pc EXCEPT ![t] = m]
  <2>1. CASE CurrentThread(t)
    <3> DEFINE m == [at |-> "scan", i |-> 0, count |-> size, target |-> t]
    <3>1. m \in Locals /\ m.at = "scan" BY <1>2 DEF Locals, At
    <3>2. pc' = [pc EXCEPT ![t] = m] BY <2>1 DEF CurrentThread
    <3> HIDE DEF m
    <3> QED BY <3>1, <3>2 DEF Running
  <2>2. CASE ScanNext(t)
    <3> DEFINE m == [pc[t] EXCEPT !.i = @ + 1]
    <3>1. m \in Locals /\ m.at = pc[t].at BY <1>2 DEF Locals
    <3>2. pc' = [pc EXCEPT ![t] = m] BY <2>2 DEF ScanNext
    <3> HIDE DEF m
    <3> QED BY <1>1, <3>1, <3>2
  <2>3. CASE ScanMatches(t)
    <3> DEFINE m == [pc[t] EXCEPT !.at = "match"]
    <3>1. m \in Locals /\ m.at = "match" BY <1>2 DEF Locals, At
    <3>2. pc' = [pc EXCEPT ![t] = m] BY <2>3 DEF ScanMatches, Move
    <3> HIDE DEF m
    <3> QED BY <3>1, <3>2 DEF Running
  <2>4. CASE ScanReturns(t) \/ ScanFails(t)
    <3>1. pc' = [pc EXCEPT ![t] = Place("run")] BY <2>4 DEF ScanReturns, ScanFails
    <3>2. Place("run") \in Locals /\ Place("run").at = "run" BY PlaceType DEF At
    <3> QED BY <3>1, <3>2 DEF Running
  <2> QED BY <2>1, <2>2, <2>3, <2>4
<1>4. CASE t \in Workers
  <2>1. pc[t].at # "gone" BY <1>1 DEF Running
  <2> QED BY <1>1, <1>3, <1>4, <2>1, KeptByWorker
<1>5. CASE t = Main
  <2>1. m.at \notin Removing /\ pc[Main].at \notin Removing /\ m.at \notin {"grow", "erase", "found"}
    BY <1>1, <1>3, <1>5 DEF Running, Removing
  <2>2. pc' = [pc EXCEPT ![Main] = m] BY <1>3, <1>5
  <2> QED BY <1>1, <2>1, <2>2, KeptByMain
<1> QED BY <1>4, <1>5, Constants

\* A thread ends, or the main thread waits for it.
LEMMA KeptByEnd ==
    ASSUME IInv, Kept, NEW w \in Workers, Detach(w) \/ Finish(w) \/ WaitForThreadCompletion(w)
    PROVE  Kept'
<1>1. CASE Detach(w)
  <2>1. w \notin joined /\ joined' = joined BY <1>1 DEF Detach
  <2> QED BY <2>1 DEF Kept
<1>2. CASE Finish(w)
  <2>1. Place("gone") \in Locals /\ Place("gone").at = "gone" BY PlaceType DEF At
  <2>2. Place("gone").at \notin Running /\ pc[w].at # "gone" BY <1>2, <2>1 DEF Running, Finish
  <2> QED BY <1>2, <2>1, <2>2, KeptByWorker DEF Finish
<1>3. CASE WaitForThreadCompletion(w)
  <2> DEFINE m == [at |-> "join", i |-> 0, count |-> 0, target |-> w]
  <2>1. m \in Locals /\ m.at = "join" BY Constants DEF Locals, At
  <2>2. pc' = [pc EXCEPT ![Main] = m] /\ pc[Main].at = "run" /\ UNCHANGED <<slots, size, joined>>
    BY <1>3 DEF WaitForThreadCompletion
  <2> HIDE DEF m
  <2> QED BY <2>1, <2>2, KeptByMain DEF Removing
<1> QED BY <1>1, <1>2, <1>3

\* The main thread goes on after the join, and looks for the entry to remove.
LEMMA KeptByErase ==
    ASSUME IInv, Kept, NEW t \in Threads,
           (JoinReturns /\ t = Main) \/ EraseNext(t) \/ EraseMatches(t)
    PROVE  Kept'
<1> SUFFICES ASSUME joined = Workers PROVE Kept'
  BY DEF Kept, JoinReturns, EraseNext, EraseMatches
<1> DEFINE r == pc[t]
<1>1. /\ r \in Locals /\ r.i \in Nat /\ r.count \in Int /\ size \in Int /\ RoleOK(t, r)
      /\ t \in Workers => ReaderOK(r)
  BY Facts
<1>2. t = Main BY <1>1, Facts DEF EraseNext, EraseMatches, ReaderOK
<1>3. CASE JoinReturns
  <2> DEFINE m == [r EXCEPT !.at = "erase", !.count = size]
  <2>1. m \in Locals /\ m.at = "erase" /\ m.target = r.target BY <1>1 DEF Locals, At
  <2>2. /\ pc' = [pc EXCEPT ![Main] = m] /\ r.at = "join" /\ pc[r.target].at = "gone"
        /\ UNCHANGED <<slots, size, joined>>
    BY <1>2, <1>3 DEF JoinReturns
  <2>3. r.target \in Workers BY <1>1, <1>2, <2>2 DEF RoleOK
  <2> HIDE DEF m
  <2> QED BY <1>2, <2>1, <2>2, <2>3, KeptByMain DEF Removing
<1>4. CASE EraseNext(t)
  <2> DEFINE m == [r EXCEPT !.i = @ + 1]
  <2>1. m \in Locals /\ m.at = r.at /\ m.target = r.target BY <1>1 DEF Locals
  <2>2. pc' = [pc EXCEPT ![Main] = m] /\ r.at = "erase" /\ UNCHANGED <<slots, size, joined>>
    BY <1>2, <1>4 DEF EraseNext
  <2>3. r.target \in Workers /\ pc[r.target].at = "gone" BY <1>1, <1>2, <2>2 DEF RoleOK, Kept
  <2> HIDE DEF m
  <2> QED BY <1>2, <2>1, <2>2, <2>3, KeptByMain DEF Removing
<1>5. CASE EraseMatches(t)
  <2> DEFINE m == [r EXCEPT !.at = "found"]
  <2>1. m \in Locals /\ m.at = "found" /\ m.target = r.target /\ m.i = r.i BY <1>1 DEF Locals, At
  <2>2. /\ pc' = [pc EXCEPT ![Main] = m] /\ r.at = "erase" /\ UNCHANGED <<slots, size, joined>>
        /\ r.i < r.count /\ slots[r.i] = r.target
    BY <1>2, <1>5 DEF EraseMatches, Move
  <2>3. r.target \in Workers /\ pc[r.target].at = "gone" BY <1>1, <1>2, <2>2 DEF RoleOK, Kept
  <2>4. r.i \in Index
    <3>1. r.count <= Capacity BY <1>1 DEF RoleOK
    <3>2. r.i < Capacity BY <1>1, <2>2, <3>1, Constants
    <3> QED BY <1>1, <3>2, Constants
  <2> HIDE DEF m
  <2> QED BY <1>2, <2>1, <2>2, <2>3, <2>4, KeptByMain DEF Removing
<1> QED BY <1>3, <1>4, <1>5

\* Closing the gap moves every other entry to an element that stays.
LEMMA KeptByShift == ASSUME IInv, Kept, NEW t \in Threads, Shift(t) PROVE Kept'
<1> SUFFICES ASSUME joined = Workers PROVE Kept' BY DEF Kept, Shift
<1> DEFINE r == pc[t]
           m == [r EXCEPT !.at = "shifted"]
<1>1. /\ r \in Locals /\ r.i \in Nat /\ size \in Int /\ RoleOK(t, r) /\ size <= Capacity
      /\ t \in Workers => ReaderOK(r)
  BY Facts
<1>2. /\ r.at = "found" /\ pc' = [pc EXCEPT ![t] = m] /\ UNCHANGED <<size, joined>>
      /\ slots' = [i \in Index |-> IF r.i <= i /\ i + 1 < size THEN slots[i + 1] ELSE slots[i]]
  BY DEF Shift, Move
<1>3. t = Main BY <1>1, <1>2, Constants DEF ReaderOK
<1>4. r.target \in Workers /\ pc[r.target].at = "gone" /\ r.i \in Index /\ slots[r.i] = r.target
  BY <1>1, <1>2, <1>3 DEF RoleOK, Kept
<1>5. r.count = size /\ r.i < r.count BY <1>1, <1>2, <1>3, Facts DEF WriterOK, RoleOK
<1>6. m.at = "shifted" BY <1>1 DEF Locals
<1>7. pc'[Main] = m /\ \A w \in Workers : pc'[w] = pc[w]
  BY <1>2, <1>3, Constants DEF IInv, TypeOK
<1>8. Settled' = size - 1 BY <1>2, <1>6, <1>7 DEF Settled, Removing
<1>9. ASSUME NEW w \in Workers, pc'[w].at \in Running
      PROVE  \E k \in Index : k < Settled' /\ slots'[k] = w
  <2>1. pc[w].at \in Running BY <1>7, <1>9
  <2>2. Settled = size BY <1>2, <1>3 DEF Settled, Removing
  <2>3. PICK k \in Index : k < size /\ slots[k] = w BY <2>1, <2>2 DEF Kept
  <2>4. w # r.target BY <1>4, <2>1 DEF Running
  <2>5. k # r.i /\ k \in Nat BY <1>4, <2>3, <2>4, Constants
  <2>6. CASE k < r.i
    <3>1. slots'[k] = slots[k] BY <1>1, <1>2, <2>3, <2>5, <2>6
    <3>2. k < size - 1 BY <1>1, <1>5, <2>5, <2>6
    <3> QED BY <1>8, <2>3, <3>1, <3>2
  <2>7. CASE k > r.i
    <3> DEFINE h == k - 1
    <3>1. h \in Nat /\ r.i <= h /\ h + 1 = k /\ h < size - 1 BY <1>1, <2>3, <2>5, <2>7
    <3>2. h < Capacity BY <1>1, <3>1, Constants
    <3>3. h \in Index BY <3>1, <3>2, Constants
    <3>4. slots'[h] = slots[h + 1] BY <1>2, <2>3, <3>1, <3>3
    <3> QED BY <1>8, <2>3, <3>1, <3>3, <3>4
  <2> QED BY <1>1, <2>5, <2>6, <2>7
<1> HIDE DEF m
<1> QED BY <1>6, <1>7, <1>9 DEF Kept

\* --m_size reads the size.
LEMMA KeptByShrinkReads == ASSUME IInv, Kept, NEW t \in Threads, ShrinkReads(t) PROVE Kept'
<1> SUFFICES ASSUME joined = Workers PROVE Kept' BY DEF Kept, ShrinkReads
<1> DEFINE r == pc[t]
           m == [r EXCEPT !.at = "shrink", !.count = size]
<1>1. r \in Locals /\ size \in Int /\ (t \in Workers => ReaderOK(r)) BY Facts
<1>2. r.at = "shifted" /\ pc' = [pc EXCEPT ![t] = m] /\ UNCHANGED <<slots, size, joined>>
  BY DEF ShrinkReads
<1>3. t = Main BY <1>1, <1>2, Constants DEF ReaderOK
<1>4. m \in Locals /\ m.at = "shrink" BY <1>1 DEF Locals, At
<1> HIDE DEF m
<1> QED BY <1>2, <1>3, <1>4, KeptByMain DEF Removing

\* removeThreadIdentifier() returns, with or without an entry less.
LEMMA KeptByRemoval ==
    ASSUME IInv, Kept, NEW t \in Threads, ShrinkWrites(t) \/ EraseFails(t)
    PROVE  Kept'
<1> SUFFICES ASSUME joined = Workers PROVE Kept' BY DEF Kept, ShrinkWrites, EraseFails
<1> DEFINE r == pc[t]
<1>1. /\ r \in Locals /\ size \in Int /\ RoleOK(t, r) /\ (t \in Workers => ReaderOK(r)) BY Facts
<1>2. r.at \in {"erase", "shrink"} /\ UNCHANGED <<slots, joined>>
      /\ pc' = [u \in Threads |-> CASE u = r.target -> Place("removed")
                                     [] u = Main /\ t = Main -> Place("run")
                                     [] OTHER -> pc[u]]
  BY DEF ShrinkWrites, EraseFails
<1>3. t = Main BY <1>1, <1>2, Constants DEF ReaderOK
<1>4. r.target \in Workers BY <1>1, <1>2, <1>3 DEF RoleOK
<1>5. Place("removed").at = "removed" /\ Place("run").at = "run" BY PlaceType DEF At
<1>6. /\ pc'[Main].at = "run" /\ pc'[r.target].at = "removed"
      /\ \A w \in Workers : w # r.target => pc'[w] = pc[w]
  BY <1>2, <1>3, <1>4, <1>5, Constants
<1>7. Settled' = size' BY <1>6 DEF Settled, Removing
<1>8. size' = Settled
  <2>1. CASE ShrinkWrites(t)
    <3>1. r.at = "shrink" /\ size' = r.count - 1 BY <2>1 DEF ShrinkWrites
    <3>2. r.count = size BY <1>3, <3>1, Facts DEF WriterOK
    <3> QED BY <1>3, <3>1, <3>2 DEF Settled, Removing
  <2>2. CASE EraseFails(t) BY <1>3, <2>2 DEF EraseFails, Settled, Removing
  <2> QED BY <2>1, <2>2
<1>9. ASSUME NEW w \in Workers, pc'[w].at \in Running
      PROVE  \E k \in Index : k < Settled' /\ slots'[k] = w
  <2>1. pc[w].at \in Running BY <1>6, <1>9 DEF Running
  <2> QED BY <1>2, <1>7, <1>8, <2>1 DEF Kept
<1> QED BY <1>6, <1>9 DEF Kept

\* append() writes behind the entries there are.
LEMMA KeptByCreate == ASSUME IInv, Kept, NEW w \in Workers, Create(w) PROVE Kept'
<1> SUFFICES ASSUME joined = Workers PROVE Kept' BY DEF Kept, Create
<1> DEFINE g == [at |-> "grow", i |-> 0, count |-> size, target |-> w]
<1>1. /\ pc[Main].at = "run" /\ size \in Index /\ slots' = [slots EXCEPT ![size] = w]
      /\ pc' = [pc EXCEPT ![Main] = g, ![w] = Place("blocked")] /\ UNCHANGED <<size, joined>>
  BY DEF Create
<1>2. /\ pc \in [Threads -> Locals] /\ slots \in [Index -> Threads \cup {Nobody}]
      /\ w \in Threads /\ w # Main /\ Main \in Threads
  BY Constants DEF IInv, TypeOK
<1>3. g.at = "grow" /\ g.target = w /\ Place("blocked").at = "blocked" BY PlaceType DEF At
<1> HIDE DEF g
<1>4. /\ pc'[Main] = g /\ pc'[w].at = "blocked"
      /\ \A v \in Workers : v # w => pc'[v] = pc[v]
  BY <1>1, <1>2, <1>3, Constants
<1>5. slots'[size] = w /\ \A k \in Index : k # size => slots'[k] = slots[k] BY <1>1, <1>2
<1>6. Settled = size /\ Settled' = size BY <1>1, <1>3, <1>4 DEF Settled, Removing
<1>7. ASSUME NEW v \in Workers, pc'[v].at \in Running
      PROVE  \E k \in Index : k < Settled' /\ slots'[k] = v
  <2>1. pc[v].at \in Running BY <1>4, <1>7 DEF Running
  <2>2. PICK k \in Index : k < size /\ slots[k] = v BY <1>6, <2>1 DEF Kept
  <2>3. k # size BY <1>1, <2>2, Constants
  <2> QED BY <1>5, <1>6, <2>2, <2>3
<1> QED BY <1>1, <1>3, <1>4, <1>5, <1>7 DEF Kept

\* append() counts the entry: the new thread runs and has it.
LEMMA KeptByGrow == ASSUME IInv, Kept, Grow PROVE Kept'
<1> SUFFICES ASSUME joined = Workers PROVE Kept' BY DEF Kept, Grow
<1> DEFINE g == pc[Main]
<1>1. /\ g.at = "grow" /\ size' = g.count + 1 /\ UNCHANGED <<slots, joined>>
      /\ pc' = [pc EXCEPT ![Main] = Place("run"), ![g.target] = Place("run")]
  BY DEF Grow
<1>2. pc \in [Threads -> Locals] /\ Main \in Threads BY Constants DEF IInv, TypeOK
<1>3. g.count = size /\ g.target \in Workers /\ size \in Int
  BY <1>1, <1>2, Facts DEF WriterOK, RoleOK
<1>4. size \in Index /\ slots[size] = g.target BY <1>1 DEF Kept
<1>5. Place("run").at = "run" BY PlaceType DEF At
<1>6. pc'[Main].at = "run" /\ \A v \in Workers : v # g.target => pc'[v] = pc[v]
  BY <1>1, <1>2, <1>3, <1>5, Constants
<1>7. Settled = size /\ Settled' = size + 1 BY <1>1, <1>3, <1>6 DEF Settled, Removing
<1>8. ASSUME NEW v \in Workers, pc'[v].at \in Running
      PROVE  \E k \in Index : k < Settled' /\ slots'[k] = v
  <2>1. CASE v = g.target BY <1>1, <1>3, <1>4, <1>7, <2>1
  <2>2. CASE v # g.target
    <3>1. pc[v].at \in Running BY <1>6, <1>8, <2>2
    <3>2. PICK k \in Index : k < size /\ slots[k] = v BY <1>7, <3>1 DEF Kept
    <3>3. k < size + 1 BY <1>3, <3>2, Constants
    <3> QED BY <1>1, <1>7, <3>2, <3>3
  <2> QED BY <2>1, <2>2
<1> QED BY <1>6, <1>8 DEF Kept

\* Entries last, in every reachable state.
LEMMA EntriesAreKept == Spec => []Kept
<1>1. Init => Kept
  <2> SUFFICES ASSUME Init PROVE Kept OBVIOUS
  <2>1. pc[Main] = Place("run") /\ \A w \in Workers : pc[w] = Place("unborn")
    BY Constants DEF Init
  <2>2. Place("run").at = "run" /\ Place("unborn").at = "unborn" BY PlaceType DEF At
  <2> QED BY <2>1, <2>2 DEF Kept, Running
<1>2. IInv /\ Kept /\ [Next]_vars => Kept'
  <2> SUFFICES ASSUME IInv, Kept, [Next]_vars PROVE Kept' OBVIOUS
  <2>1. CASE UNCHANGED vars BY <2>1 DEF vars, Kept, Settled
  <2>2. CASE Grow BY <2>2, KeptByGrow
  <2>3. CASE JoinReturns BY <2>3, KeptByErase, Constants
  <2>4. ASSUME NEW w \in Workers, Create(w) \/ Detach(w) \/ Finish(w) \/ WaitForThreadCompletion(w)
        PROVE  Kept'
    BY <2>4, KeptByCreate, KeptByEnd
  <2>5. ASSUME NEW t \in Threads,
               CurrentThread(t) \/ ScanNext(t) \/ ScanMatches(t) \/ ScanReturns(t) \/ ScanFails(t)
        PROVE  Kept'
    BY <2>5, KeptByScan
  <2>6. ASSUME NEW t \in Threads,
               \/ EraseNext(t) \/ EraseMatches(t) \/ Shift(t)
               \/ ShrinkReads(t) \/ ShrinkWrites(t) \/ EraseFails(t)
        PROVE  Kept'
    BY <2>6, KeptByErase, KeptByShift, KeptByShrinkReads, KeptByRemoval
  <2> QED BY <2>1, <2>2, <2>3, <2>4, <2>5, <2>6 DEF Next
<1> QED BY <1>1, <1>2, Invariance, PTL DEF Spec

\* EstablishedFirst: with the main thread as the only writer a thread that runs is
\* in the table whatever was removed before, and whoever writes, the creation mutex
\* is enough for a thread to find its identifier until an entry is removed.
THEOREM ThreadFindsItself == Spec => []EstablishedFirst
<1>1. IInv => FoundBeforeRemovals BY DEF IInv
<1>2. IInv /\ Kept => EntriesLast
  <2> SUFFICES ASSUME IInv, Kept, joined = Workers, NEW w \in Workers, pc[w].at \in Running
               PROVE  \E i \in Index : i < size /\ slots[i] = w
    BY DEF EntriesLast, Running
  <2>1. PICK k \in Index : k < Settled /\ slots[k] = w BY DEF Kept
  <2>2. size \in Int /\ Settled \in {size, size - 1} BY DEF IInv, TypeOK, Settled
  <2>3. k < size BY <2>1, <2>2, Constants
  <2> QED BY <2>1, <2>3
<1>3. IInv /\ Kept => EstablishedFirst BY <1>1, <1>2 DEF EstablishedFirst
<1> QED BY <1>3, Invariance, EntriesAreKept, PTL

=============================================================================

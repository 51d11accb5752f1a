----------------------------- MODULE ThreadTimers -----------------------------
(***************************************************************************)
(* All timers of the main thread over one timer of the platform: TimerBase *)
(* with its binary heap, ThreadTimers and the port's SharedTimer.  Timers  *)
(* fire in a loop that callbacks may leave by way of a nested event loop.  *)
(* Time is counted in ticks.  push_heap() is the sift-up that every        *)
(* standard library has; pop_heap() is any arrangement that its contract   *)
(* allows.                                                                 *)
(***************************************************************************)
EXTENDS Integers, Sequences, FiniteSets

CONSTANTS
    Timers,
    NoTimer,
    Delays,       \* intervals that timers are started with
    Repeats,      \* repeat intervals, 0 for a one-shot timer
    Unit,         \* ticks in a millisecond, the platform timer's resolution
    Limit,        \* maxDurationOfFiringTimers
    Width,        \* bits of m_heapInsertionOrder
    FirstOrder,   \* currentHeapInsertionOrder at the start
    MaxSets,      \* bound: starts, stops and changes of timers
    MaxNow,       \* bound: the clock
    MaxDepth      \* bound: nested firing loops

ASSUME ConstAssumption ==
    /\ NoTimer \notin Timers
    /\ Delays \subseteq Nat /\ Repeats \subseteq Nat
    /\ Unit \in Nat \ {0} /\ Limit \in Nat /\ Width \in Nat /\ FirstOrder \in Nat
    /\ MaxSets \in Nat /\ MaxNow \in Nat \ {0} /\ MaxDepth \in Nat

\* Arithmetic that the provers do not know.
ASSUME PowerAssumption == 2^Width \in Nat \ {0}

VARIABLES
    heap,        \* m_timerHeap
    time,        \* m_nextFireTime, 0 if inactive
    repeat,      \* m_repeatInterval
    order,       \* m_heapInsertionOrder, which the code keeps modulo 2^Width
    nextOrder,   \* currentHeapInsertionOrder, likewise
    sets,        \* starts, stops and changes so far
    now,         \* monotonicallyIncreasingTime()
    shared,      \* when the platform's one-shot timer is due, 0 if stopped
    firing,      \* m_firingTimers
    stack        \* sharedTimerFiredInternal() in progress, the innermost last

vars == <<heap, time, repeat, order, nextOrder, sets, now, shared, firing, stack>>

Frame == [fireTime : Nat, at : {"loop", "fired"}, timer : Timers \cup {NoTimer}]

Init ==
    /\ heap = <<>>
    /\ time = [t \in Timers |-> 0]
    /\ repeat = [t \in Timers |-> 0]
    /\ order = [t \in Timers |-> FirstOrder]
    /\ nextOrder = FirstOrder
    /\ sets = 0
    /\ now = 1
    /\ shared = 0
    /\ firing = FALSE
    /\ stack = <<>>

(***************************************************************************)
(* The heap.  Operators take the times and orders to compare with.         *)
(***************************************************************************)

\* As it would be if the orders were compared outright.
LaterOutright(a, b, tm, od) ==
    IF tm[a] # tm[b] THEN tm[b] < tm[a]
    ELSE od[b] % 2^Width < od[a] % 2^Width

\* operator<: timer a fires later than timer b.
Later(a, b, tm, od) ==
    IF tm[a] # tm[b] THEN tm[b] < tm[a]
    ELSE (od[a] - od[b]) % 2^Width < (2^Width - 1) \div 2

Parent(i) == i \div 2

IsHeap(h, tm, od) == \A i \in 2..Len(h) : ~Later(h[Parent(i)], h[i], tm, od)

\* Where the hole of a sift-up from i has been, if it moves up from positions up.
Path(i, up) ==
    {p \in 1..i : \A S \in SUBSET (1..i) :
        (i \in S /\ \A q \in S \cap up : Parent(q) \in S) => p \in S}

\* push_heap() of the first i elements: the i-th rises past parents that are later.
PushHeap(h, i, tm, od) ==
    LET path == Path(i, {p \in 2..i : Later(h[Parent(p)], h[i], tm, od)})
    IN  [p \in 1..Len(h) |->
           IF p \notin path THEN h[p]
           ELSE IF Parent(p) \in path THEN h[Parent(p)] ELSE h[i]]

\* pop_heap(): the first element becomes the last, the others form a heap.
PopHeap(h, tm, od) ==
    LET n == Len(h)
        others == {h[i] : i \in 2..n}
    IN  {Append(f, h[1]) : f \in {g \in [1..(n - 1) -> others] :
            /\ \A t \in others : \E i \in 1..(n - 1) : g[i] = t
            /\ IsHeap(g, tm, od)}}

Index(h, t) == CHOOSE i \in 1..Len(h) : h[i] = t
IsFirst(h, t) == h # <<>> /\ h[1] = t
RemoveLast(h) == SubSeq(h, 1, Len(h) - 1)

HeapDecreaseKey(h, t, tm, od) == PushHeap(h, Index(h, t), tm, od)

HeapInsert(h, t, tm, od) == PushHeap(Append(h, t), Len(h) + 1, tm, od)

\* The timer is given the least key for the time of the pop.
HeapPop(h, t, tm, od) ==
    LET least == [tm EXCEPT ![t] = -1]
    IN  PopHeap(HeapDecreaseKey(h, t, least, od), least, od)

HeapDelete(h, t, tm, od) == {RemoveLast(g) : g \in HeapPop(h, t, tm, od)}

\* As it would be if a timer that fires later stayed where it is.
HeapIncreaseKeyOnly(h, t, tm, od) == {HeapDecreaseKey(h, t, tm, od)}

HeapIncreaseKey(h, t, tm, od) ==
    {PushHeap(g, Len(g), tm, od) : g \in HeapPop(h, t, tm, od)}

HeapAfter(h, t, old, tm, od) ==
    CASE old = 0    -> {HeapInsert(h, t, tm, od)}
      [] tm[t] = 0  -> HeapDelete(h, t, tm, od)
      [] OTHER      -> IF tm[t] < old THEN {HeapDecreaseKey(h, t, tm, od)}
                       ELSE HeapIncreaseKey(h, t, tm, od)

(***************************************************************************)
(* The shared timer.                                                       *)
(***************************************************************************)

\* setSharedTimerFireInterval(): whole milliseconds, rounded down.
Interval(d) == IF d < 0 THEN 0 ELSE (d \div Unit) * Unit

\* updateSharedTimer().
UpdateSharedTimer(f, h, tm) ==
    shared' = IF f \/ h = <<>> THEN 0 ELSE now + Interval(tm[h[1]] - now)

\* As it would be if only a timer that was first mattered.
SetNextFireTimeWasFirst(h, t, old, new) ==
    IF old = new
    THEN /\ heap' = h /\ time' = [time EXCEPT ![t] = new]
         /\ UNCHANGED <<order, nextOrder, shared>>
    ELSE /\ time' = [time EXCEPT ![t] = new]
         /\ order' = [order EXCEPT ![t] = nextOrder]
         /\ nextOrder' = nextOrder + 1
         /\ heap' \in HeapAfter(h, t, old, time', order')
         /\ IF IsFirst(h, t) THEN UpdateSharedTimer(firing, heap', time') ELSE UNCHANGED shared

\* setNextFireTime() of timer t, in heap h with time old.
SetNextFireTime(h, t, old, new) ==
    IF old = new
    THEN /\ heap' = h /\ time' = [time EXCEPT ![t] = new]
         /\ UNCHANGED <<order, nextOrder, shared>>
    ELSE /\ time' = [time EXCEPT ![t] = new]
         /\ order' = [order EXCEPT ![t] = nextOrder]
         /\ nextOrder' = nextOrder + 1
         /\ heap' \in HeapAfter(h, t, old, time', order')
         /\ IF IsFirst(h, t) \/ IsFirst(heap', t)
            THEN UpdateSharedTimer(firing, heap', time') ELSE UNCHANGED shared

(***************************************************************************)
(* What code does, outside the loop or in a timer's callback.              *)
(***************************************************************************)

Top == stack[Len(stack)]
Pop == SubSeq(stack, 1, Len(stack) - 1)
AtTop(at) == stack # <<>> /\ Top.at = at
CodeRuns == ~AtTop("loop")

Sets == sets < MaxSets /\ sets' = sets + 1

Start(t, d, r) ==
    /\ CodeRuns
    /\ Sets
    /\ now + d <= MaxNow
    /\ repeat' = [repeat EXCEPT ![t] = r]
    /\ SetNextFireTime(heap, t, time[t], now + d)
    /\ UNCHANGED <<now, firing, stack>>

\* Also what the destructor does.
Stop(t) ==
    /\ CodeRuns
    /\ time[t] # 0 \/ repeat[t] # 0
    /\ Sets
    /\ repeat' = [repeat EXCEPT ![t] = 0]
    /\ SetNextFireTime(heap, t, time[t], 0)
    /\ UNCHANGED <<now, firing, stack>>

\* augmentRepeatInterval() of an active timer that repeats.  (Page's
\* setMinimumTimerInterval(), which nothing in this port calls, would also reach
\* suspended DOM timers and those that do not repeat.)
AugmentRepeatInterval(t, d) ==
    /\ CodeRuns
    /\ time[t] # 0 /\ repeat[t] # 0
    /\ time[t] + d <= MaxNow
    /\ Sets
    /\ repeat' = [repeat EXCEPT ![t] = @ + d]
    /\ SetNextFireTime(heap, t, time[t], time[t] + d)
    /\ UNCHANGED <<now, firing, stack>>

\* The callback, or code outside the loop, is about to run a nested event loop.
FireTimersInNestedEventLoop ==
    /\ CodeRuns
    /\ firing' = FALSE
    /\ UpdateSharedTimer(FALSE, heap, time)
    /\ UNCHANGED <<heap, time, repeat, order, nextOrder, sets, now, stack>>

Tick ==
    /\ now < MaxNow
    /\ now' = now + 1
    /\ UNCHANGED <<heap, time, repeat, order, nextOrder, sets, shared, firing, stack>>

(***************************************************************************)
(* sharedTimerFiredInternal().                                             *)
(***************************************************************************)

\* The event loop calls back, and the re-entrancy check is passed or not.
SharedTimerFires ==
    /\ CodeRuns
    /\ shared # 0 /\ shared <= now
    /\ shared' = 0
    /\ IF firing THEN UNCHANGED <<firing, stack>>
       ELSE /\ Len(stack) < MaxDepth
            /\ firing' = TRUE
            /\ stack' = Append(stack, [fireTime |-> now, at |-> "loop", timer |-> NoTimer])
    /\ UNCHANGED <<heap, time, repeat, order, nextOrder, sets, now>>

HeapDeleteMin == {RemoveLast(g) : g \in PopHeap(heap, [time EXCEPT ![heap[1]] = 0], order)}

\* The first timer leaves the heap, is put back if it repeats, and is called.
FireFirst ==
    /\ AtTop("loop")
    /\ heap # <<>>
    /\ time[heap[1]] <= Top.fireTime
    /\ LET t == heap[1] IN
         /\ \E h \in HeapDeleteMin :
              SetNextFireTime(h, t, 0, IF repeat[t] # 0 THEN Top.fireTime + repeat[t] ELSE 0)
         /\ stack' = Append(Pop, [Top EXCEPT !.at = "fired", !.timer = t])
    /\ UNCHANGED <<repeat, sets, now, firing>>

Leave ==
    /\ firing' = FALSE
    /\ UpdateSharedTimer(FALSE, heap, time)
    /\ stack' = Pop
    /\ UNCHANGED <<heap, time, repeat, order, nextOrder, sets, now>>

\* As it would be if the time limit were looked at before a timer has fired.
NothingDueOrLate ==
    /\ AtTop("loop")
    /\ Leave

NothingDue ==
    /\ AtTop("loop")
    /\ heap # <<>> => time[heap[1]] > Top.fireTime
    /\ Leave

\* A nested event loop was run, or the time is up.
CallbackReturnsLast ==
    /\ AtTop("fired")
    /\ ~firing \/ Top.fireTime + Limit < now
    /\ Leave

CallbackReturns ==
    /\ AtTop("fired")
    /\ firing /\ Top.fireTime + Limit >= now
    /\ stack' = Append(Pop, [Top EXCEPT !.at = "loop"])
    /\ UNCHANGED <<heap, time, repeat, order, nextOrder, sets, now, shared, firing>>

Loop == FireFirst \/ NothingDue
Returns == CallbackReturnsLast \/ CallbackReturns

Next ==
    \/ \E t \in Timers : \/ \E d \in Delays, r \in Repeats : Start(t, d, r)
                         \/ Stop(t)
                         \/ \E d \in Delays \ {0} : AugmentRepeatInterval(t, d)
    \/ FireTimersInNestedEventLoop
    \/ Tick
    \/ SharedTimerFires
    \/ Loop
    \/ Returns

Spec == Init /\ [][Next]_vars

\* Time passes, the event loop calls a timer that is due, the loop goes on and
\* callbacks return.
FairSpec ==
    /\ Spec
    /\ WF_vars(Tick) /\ WF_vars(Loop)
    /\ SF_vars(SharedTimerFires) /\ SF_vars(Returns)

(***************************************************************************)
(* Properties.                                                             *)
(***************************************************************************)

Active == {t \in Timers : time[t] # 0}

\* Every variable has its type.
TypeOK ==
    /\ heap \in Seq(Timers)
    /\ time \in [Timers -> Nat]
    /\ repeat \in [Timers -> Nat]
    /\ order \in [Timers -> Nat]
    /\ nextOrder \in Nat
    /\ sets \in 0..MaxSets
    /\ now \in 1..MaxNow
    /\ shared \in Nat
    /\ firing \in BOOLEAN
    /\ stack \in Seq(Frame)

\* The vector holds each active timer once and is a heap after every change of
\* a time, in whatever order the library leaves it: checkConsistency() and
\* checkHeapIndex(), which this port has compiled out.
HeapIsValid ==
    /\ Len(heap) = Cardinality(Active)
    /\ \A t \in Active : \E i \in 1..Len(heap) : heap[i] = t
    /\ IsHeap(heap, time, order)

\* No timer is forgotten: while there are active timers, the platform's timer is
\* due no later than the first of them, or a loop is in progress that will look
\* at the heap again, through nested loops, early calls and re-entrancy.
FirstIsScheduled ==
    heap # <<>> =>
        \/ ~firing /\ shared # 0 /\ (shared <= now \/ shared <= time[heap[1]])
        \/ firing /\ stack # <<>> /\ shared = 0

\* Timers fire in the order of their times and, at the same time, in the order
\* in which they were started, also when the counter of insertions wraps.
FiresInOrder ==
    [][\A t \in Timers :
         (AtTop("loop") /\ stack' # <<>> /\ Len(stack') = Len(stack)
            /\ stack'[Len(stack)].at = "fired" /\ stack'[Len(stack)].timer = t) =>
           \A u \in Active \ {t} : time[t] < time[u] \/ (time[t] = time[u] /\ order[t] < order[u])]_vars

\* A timer whose time comes fires, or is stopped or started anew.
TimersFire == \A t \in Timers : \A x \in 1..MaxNow : (time[t] = x) ~> (time[t] # x)
===============================================================================

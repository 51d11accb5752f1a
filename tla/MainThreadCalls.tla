--------------------------- MODULE MainThreadCalls ---------------------------
(***************************************************************************)
(* Functions that threads have the main thread run: callOnMainThread(),    *)
(* callOnMainThreadAndWait(), cancelCallOnMainThread(), the pause used by  *)
(* the script debugger and dispatchFunctionsFromMainThread(), which the    *)
(* platform's one-shot timer calls.  What is done under the queue's mutex  *)
(* is one step.  A function may run a nested event loop (a dialog, the     *)
(* debugger), in which the timer fires again: dispatches form a stack.     *)
(***************************************************************************)
EXTENDS Naturals, Sequences, FiniteSets

CONSTANTS
    Workers,     \* threads besides the main thread
    Main,
    Keys,        \* pairs of a function and its context
    MaxCalls,    \* bound: calls made
    MaxDepth     \* bound: nested event loops

ASSUME ConstAssumption ==
    /\ Main \notin Workers
    /\ MaxCalls \in Nat
    /\ MaxDepth \in Nat

VARIABLES
    queue,    \* functionQueue()
    calls,    \* what was queued: key, calling thread, whether it waits, how far it is
    num,      \* calls made so far
    timer,    \* the platform's timer is started
    paused,   \* callbacksPaused
    stack,    \* the dispatches in progress, the innermost last
    pc        \* where each thread is: between calls, about to schedule, waiting

vars == <<queue, calls, num, timer, paused, stack, pc>>

Threads == Workers \cup {Main}
Numbers == 1..MaxCalls

Call == [key : Keys, by : Threads, sync : BOOLEAN,
         state : {"queued", "running", "ended", "cancelled"}]

Frame == [call : Numbers \cup {0}, at : {"take", "run", "signal", "check"}]

Place == [at : {"idle", "schedule", "wait", "woken"}, call : Numbers \cup {0}]

Between == [at |-> "idle", call |-> 0]

Init ==
    /\ queue = <<>>
    /\ calls = <<>>
    /\ num = 0
    /\ timer = FALSE
    /\ paused = FALSE
    /\ stack = <<>>
    /\ pc = [t \in Threads |-> Between]

Top == stack[Len(stack)]
In(at) == stack # <<>> /\ Top.at = at
Pop == SubSeq(stack, 1, Len(stack) - 1)
SetTop(call, at) == stack' = Append(Pop, [call |-> call, at |-> at])

\* The main thread runs code of its own: outside a dispatch, or in a function.
MainRuns == pc[Main].at = "idle" /\ (stack = <<>> \/ In("run"))

Runs(t) == IF t = Main THEN MainRuns ELSE pc[t].at = "idle"

\* append() to the queue of a call by thread t.
Enqueue(t, k, sync) ==
    /\ num < MaxCalls
    /\ num' = num + 1
    /\ calls' = Append(calls, [key |-> k, by |-> t, sync |-> sync, state |-> "queued"])
    /\ queue' = Append(queue, num + 1)

SetState(n, s) == calls' = [calls EXCEPT ![n].state = s]

(***************************************************************************)
(* The callers.                                                            *)
(***************************************************************************)

\* Whether to schedule is decided under the mutex, scheduling happens after it.
CallOnMainThread(t, k) ==
    /\ Runs(t)
    /\ Enqueue(t, k, FALSE)
    /\ pc' = IF queue = <<>> THEN [pc EXCEPT ![t] = [at |-> "schedule", call |-> 0]] ELSE pc
    /\ UNCHANGED <<timer, paused, stack>>

Schedule(t) ==
    /\ pc[t].at = "schedule"
    /\ timer' = TRUE
    /\ pc' = [pc EXCEPT ![t] = Between]
    /\ UNCHANGED <<queue, calls, num, paused, stack>>

\* On the main thread this is a plain call.  The mutex is held from the append
\* to the wait.
CallOnMainThreadAndWait(t, k) ==
    /\ t \in Workers
    /\ Runs(t)
    /\ Enqueue(t, k, TRUE)
    /\ timer' = (timer \/ Len(queue') = 1)
    /\ pc' = [pc EXCEPT ![t] = [at |-> "wait", call |-> num + 1]]
    /\ UNCHANGED <<paused, stack>>

\* The wait is not in a loop: that the platform's condition wait returns only
\* when it is signalled is assumed of the peer.
WaitReturns(t) ==
    /\ pc[t].at = "woken"
    /\ pc' = [pc EXCEPT ![t] = Between]
    /\ UNCHANGED <<queue, calls, num, timer, paused, stack>>

\* As it would be if the comparison left the condition out.
Matches(n, k) == calls[n].key = k

\* As it would be if only the first equal entry were removed.
CancelsFirst(n, k) ==
    /\ Matches(n, k) /\ ~calls[n].sync
    /\ \A i \in 1..Len(queue) : (Matches(queue[i], k) /\ ~calls[queue[i]].sync) => n <= queue[i]

\* cancelCallOnMainThread(), as the main thread uses it: equal entries have the
\* same function and context and no condition to signal.
Cancels(n, k) == calls[n].key = k /\ ~calls[n].sync

Kept(k) == {i \in 1..Len(queue) : ~Cancels(queue[i], k)}

\* Entries that stay keep their order: f lists their positions.
CancelCallOnMainThread(k) ==
    /\ MainRuns
    /\ \E f \in [1..Cardinality(Kept(k)) -> Kept(k)] :
         /\ \A i, j \in DOMAIN f : i < j => f[i] < f[j]
         /\ \A p \in Kept(k) : \E i \in DOMAIN f : f[i] = p
         /\ queue' = [i \in DOMAIN f |-> queue[f[i]]]
    /\ calls' = [n \in DOMAIN calls |->
                   IF calls[n].state = "queued" /\ Cancels(n, k)
                   THEN [calls[n] EXCEPT !.state = "cancelled"] ELSE calls[n]]
    /\ UNCHANGED <<num, timer, paused, stack, pc>>

\* As it would be if the end of a pause waited for the next call.
SetPausedOnly(b) ==
    /\ MainRuns
    /\ paused # b
    /\ paused' = b
    /\ UNCHANGED <<queue, calls, num, timer, stack, pc>>

SetMainThreadCallbacksPaused(b) ==
    /\ MainRuns
    /\ paused # b
    /\ paused' = b
    /\ timer' = (timer \/ ~b)
    /\ UNCHANGED <<queue, calls, num, stack, pc>>

(***************************************************************************)
(* dispatchFunctionsFromMainThread().                                      *)
(***************************************************************************)

TimerFires ==
    /\ timer
    /\ MainRuns
    /\ Len(stack) < MaxDepth
    /\ timer' = FALSE
    /\ stack' = IF paused THEN stack ELSE Append(stack, [call |-> 0, at |-> "take"])
    /\ UNCHANGED <<queue, calls, num, paused, pc>>

Take ==
    /\ In("take")
    /\ queue # <<>>
    /\ SetState(Head(queue), "running")
    /\ SetTop(Head(queue), "run")
    /\ queue' = Tail(queue)
    /\ UNCHANGED <<num, timer, paused, pc>>

\* As it would be if the time were looked at before a function is taken.
TakesNothingLate ==
    /\ In("take")
    /\ timer' = (timer \/ queue # <<>>)
    /\ stack' = Pop
    /\ UNCHANGED <<queue, calls, num, paused, pc>>

TakesNothing ==
    /\ In("take")
    /\ queue = <<>>
    /\ stack' = Pop
    /\ UNCHANGED <<queue, calls, num, timer, paused, pc>>

FunctionReturns ==
    /\ MainRuns
    /\ stack # <<>>
    /\ SetState(Top.call, "ended")
    /\ SetTop(Top.call, IF calls[Top.call].sync THEN "signal" ELSE "check")
    /\ UNCHANGED <<queue, num, timer, paused, pc>>

Waits(t, n) == pc[t] = [at |-> "wait", call |-> n]

\* A signal on a condition that is gone is not modelled further: it wakes nobody.
Signal ==
    /\ In("signal")
    /\ pc' = [t \in Threads |->
                IF Waits(t, Top.call) THEN [pc[t] EXCEPT !.at = "woken"] ELSE pc[t]]
    /\ SetTop(Top.call, "check")
    /\ UNCHANGED <<queue, calls, num, timer, paused>>

Continues ==
    /\ In("check")
    /\ SetTop(0, "take")
    /\ UNCHANGED <<queue, calls, num, timer, paused, pc>>

\* The dispatch has taken more than 50 ms.
Yields ==
    /\ In("check")
    /\ timer' = TRUE
    /\ stack' = Pop
    /\ UNCHANGED <<queue, calls, num, paused, pc>>

Dispatch == Take \/ TakesNothing \/ FunctionReturns \/ Signal \/ Continues \/ Yields

Next ==
    \/ \E t \in Threads :
         \/ Schedule(t) \/ WaitReturns(t)
         \/ \E k \in Keys : CallOnMainThread(t, k) \/ CallOnMainThreadAndWait(t, k)
    \/ \E k \in Keys : CancelCallOnMainThread(k)
    \/ \E b \in BOOLEAN : SetMainThreadCallbacksPaused(b)
    \/ TimerFires
    \/ Dispatch

Spec == Init /\ [][Next]_vars

\* Threads are scheduled, a started timer fires and not only during pauses,
\* functions return, and a pause of the debugger ends.
FairSpec ==
    /\ Spec
    /\ \A t \in Threads : WF_vars(Schedule(t)) /\ WF_vars(WaitReturns(t))
    /\ SF_vars(TimerFires /\ ~paused)
    /\ WF_vars(Dispatch) /\ SF_vars(FunctionReturns)
    /\ SF_vars(SetMainThreadCallbacksPaused(FALSE))

(***************************************************************************)
(* Refinement: the queue, the timer and the conditions implement the       *)
(* abstract order of calls.                                                *)
(***************************************************************************)

Waiting == [t \in Threads |-> IF pc[t].at \in {"wait", "woken"} THEN pc[t].call ELSE 0]

Abstract == INSTANCE CallOrder WITH waiting <- Waiting

(***************************************************************************)
(* Properties.                                                             *)
(***************************************************************************)

\* Every variable has its type.
TypeOK ==
    /\ num \in 0..MaxCalls
    /\ queue \in Seq(1..num)
    /\ calls \in [1..num -> Call]
    /\ timer \in BOOLEAN
    /\ paused \in BOOLEAN
    /\ stack \in Seq(Frame)
    /\ pc \in [Threads -> Place]

\* No lost wake-up: while functions wait and nothing pauses them, the timer is
\* started, a thread is about to start it, or a dispatch is in progress.  Only
\* the first caller schedules, and decides so before it has scheduled.
NoLostDispatch ==
    (queue # <<>> /\ ~paused) =>
        \/ timer
        \/ \E t \in Threads : pc[t].at = "schedule"
        \/ stack # <<>>

\* The condition that dispatch will signal is a local variable of a thread that
\* still waits for it: for every queued or running call with a condition its
\* caller is in wait().
SignalFindsWaiter ==
    /\ \A i \in 1..Len(queue) : calls[queue[i]].sync => Waits(calls[queue[i]].by, queue[i])
    /\ \A i \in 1..Len(stack) :
         (stack[i].at \in {"run", "signal"} /\ calls[stack[i].call].sync) =>
             Waits(calls[stack[i].call].by, stack[i].call)

\* A thread that waits for a call will be woken: the call is queued or runs,
\* whatever the main thread cancels meanwhile.
WaiterHasCall ==
    \A t \in Threads : pc[t].at = "wait" =>
        \/ \E i \in 1..Len(queue) : queue[i] = pc[t].call
        \/ \E i \in 1..Len(stack) : /\ stack[i].call = pc[t].call
                                    /\ stack[i].at \in {"run", "signal"}

\* Functions start in the order of the calls, across yields, pauses, nested
\* dispatches and cancelled calls: nothing that waits was called before
\* something that has started.
StartsInOrder ==
    \A n, m \in 1..num :
        (n < m /\ calls[n].state = "queued") => calls[m].state \in {"queued", "cancelled"}

\* Every call is run or cancelled, and the thread that waits for it goes on.
CallsEnd ==
    \A n \in Numbers :
        (n <= num) ~> /\ n <= num
                      /\ calls[n].state \in {"ended", "cancelled"}
                      /\ \A t \in Threads : Waiting[t] # n

\* Every step is a step of CallOrder or leaves it alone: functions start in the
\* order of the calls whatever yields, nests, pauses or cancels, the innermost
\* returns first, and a waiting caller goes on only after its own function.
ImplementsCallOrder == Abstract!Spec
==============================================================================

------------------------ MODULE MainThreadCallsProofs ------------------------
(* Proofs about MainThreadCalls, for any threads, functions and bounds.     *)
EXTENDS MainThreadCalls, SequenceTheorems, FiniteSetTheorems, TLAPS

\* The queue holds exactly the calls that have not started, oldest first.
QueueInv ==
    /\ \A i, j \in 1..Len(queue) : i < j => queue[i] < queue[j]
    /\ \A i \in 1..Len(queue) : calls[queue[i]].state = "queued"
    /\ \A n \in 1..num : calls[n].state = "queued" => \E i \in 1..Len(queue) : queue[i] = n

\* The stack holds exactly the running calls, oldest first; only the innermost
\* dispatch is between functions.
StackInv ==
    /\ \A i \in 1..Len(stack) :
         /\ i < Len(stack) => stack[i].at = "run"
         /\ stack[i].at \in {"run", "signal"} => stack[i].call \in 1..num
         /\ stack[i].at = "run" => calls[stack[i].call].state = "running"
         /\ stack[i].at = "signal" => calls[stack[i].call].state = "ended"
         /\ stack[i].at = "signal" => calls[stack[i].call].sync
    /\ \A i, j \in 1..Len(stack) :
         (i < j /\ stack[j].at = "run") => stack[i].call < stack[j].call
    /\ \A n \in 1..num : calls[n].state = "running" =>
         \E i \in 1..Len(stack) : stack[i].at = "run" /\ stack[i].call = n

\* A thread waits for a call of its own that has not ended, or whose condition
\* is about to be signalled; once woken, the call has ended.
PcInv ==
    /\ pc[Main].at \in {"idle", "schedule"}
    /\ \A n \in 1..num : calls[n].sync => calls[n].by \in Workers /\ calls[n].state # "cancelled"
    /\ \A t \in Threads : pc[t].at \in {"wait", "woken"} =>
         /\ pc[t].call \in 1..num
         /\ calls[pc[t].call].sync
         /\ calls[pc[t].call].by = t
    /\ \A t \in Threads : pc[t].at = "wait" =>
         \/ calls[pc[t].call].state \in {"queued", "running"}
         \/ \E i \in 1..Len(stack) : stack[i].at = "signal" /\ stack[i].call = pc[t].call
    /\ \A t \in Threads : pc[t].at = "woken" => calls[pc[t].call].state = "ended"

\* The caller of a call with a condition is there.
WaitInv ==
    \A n \in 1..num : calls[n].sync =>
        /\ calls[n].state \in {"queued", "running"} => Waits(calls[n].by, n)
        /\ \A i \in 1..Len(stack) :
             stack[i].at = "signal" /\ stack[i].call = n => Waits(calls[n].by, n)

IInv == TypeOK /\ QueueInv /\ StackInv /\ StartsInOrder /\ PcInv

----------------------------------------------------------------------------
(* What the sequence operations do, position by position.                   *)

ATs == {"take", "run", "signal", "check"}

\* All but the last element of a sequence.
LEMMA FrontFields ==
    ASSUME NEW S, NEW s \in Seq(S), NEW m \in Nat, Len(s) = m + 1
    PROVE  /\ SubSeq(s, 1, m) \in Seq(S)
           /\ Len(SubSeq(s, 1, m)) = m
           /\ \A i \in 1..m : SubSeq(s, 1, m)[i] = s[i]
<1>1. \A i \in 1..m : s[i] \in S BY ElementOfSeq
<1> DEFINE p == SubSeq(s, 1, m)
<1>2. /\ p \in Seq(S)
      /\ Len(p) = IF 1 <= m THEN m - 1 + 1 ELSE 0
      /\ \A i \in 1..(m - 1 + 1) : p[i] = s[1 + i - 1]
  BY <1>1, SubSeqProperties
<1> HIDE DEF p
<1>3. Len(p) = m BY <1>2
<1>4. \A i \in 1..m : p[i] = s[i]
  <2> SUFFICES ASSUME NEW i \in 1..m PROVE p[i] = s[i] OBVIOUS
  <2>1. 1 + i - 1 = i /\ m - 1 + 1 = m OBVIOUS
  <2> QED BY <2>1, <1>2
<1> QED BY <1>2, <1>3, <1>4 DEF p

\* Leaving a dispatch.
LEMMA PopFields ==
    ASSUME TypeOK, stack # <<>>
    PROVE  /\ Len(stack) \in Nat \ {0}
           /\ Top \in Frame
           /\ Pop \in Seq(Frame)
           /\ Len(Pop) = Len(stack) - 1
           /\ \A i \in 1..(Len(stack) - 1) : Pop[i] = stack[i]
<1>1. stack \in Seq(Frame) BY DEF TypeOK
<1>2. Len(stack) \in Nat \ {0} BY <1>1, EmptySeq
<1>3. Top \in Frame BY <1>1, <1>2, ElementOfSeq DEF Top
<1>4. PICK m \in Nat : Len(stack) = m + 1 /\ Len(stack) - 1 = m
  <2> DEFINE n == Len(stack)
  <2>1. n \in Nat \ {0} BY <1>2
  <2> HIDE DEF n
  <2>2. n - 1 \in Nat /\ n = (n - 1) + 1 BY <2>1
  <2> QED BY <2>2 DEF n
<1>5. Pop = SubSeq(stack, 1, m) BY <1>4 DEF Pop
<1> QED BY <1>1, <1>2, <1>3, <1>4, <1>5, FrontFields

\* Going on in a dispatch.
LEMMA SetTopFields ==
    ASSUME TypeOK, stack # <<>>, NEW c \in Numbers \cup {0}, NEW a \in ATs, SetTop(c, a)
    PROVE  /\ Len(stack) \in Nat \ {0}
           /\ Top \in Frame
           /\ stack' \in Seq(Frame)
           /\ Len(stack') = Len(stack)
           /\ \A i \in 1..(Len(stack) - 1) : stack'[i] = stack[i]
           /\ stack'[Len(stack)] = [call |-> c, at |-> a]
<1>1. [call |-> c, at |-> a] \in Frame BY DEF Frame, ATs
<1>2. /\ stack' \in Seq(Frame)
      /\ Len(stack') = Len(Pop) + 1
      /\ \A i \in 1..Len(Pop) : stack'[i] = Pop[i]
      /\ stack'[Len(Pop) + 1] = [call |-> c, at |-> a]
  BY <1>1, PopFields, AppendProperties DEF SetTop
<1> QED BY <1>2, PopFields

\* The innermost dispatch is where In() says.
LEMMA InFields ==
    ASSUME TypeOK, NEW a, In(a)
    PROVE  /\ stack # <<>>
           /\ Len(stack) \in Nat \ {0}
           /\ Top = stack[Len(stack)]
           /\ Top \in Frame
           /\ Top.at = a
BY PopFields DEF In, Top

\* Call c is counted and appended to calls and queue.
Enqueued(c) ==
    /\ num \in Nat /\ num' = num + 1 /\ num' \in 0..MaxCalls
    /\ calls' \in [1..num' -> Call]
    /\ \A n \in 1..num : calls'[n] = calls[n]
    /\ calls'[num + 1] = c
    /\ queue' \in Seq(1..num')
    /\ Len(queue) \in Nat /\ Len(queue') = Len(queue) + 1
    /\ \A i \in 1..Len(queue) : queue'[i] = queue[i] /\ queue[i] \in 1..num
    /\ queue'[Len(queue) + 1] = num + 1

NewCall(t, k, b) == [key |-> k, by |-> t, sync |-> b, state |-> "queued"]

\* append() does that.
LEMMA EnqueueFields ==
    ASSUME TypeOK, NEW t \in Threads, NEW k \in Keys, NEW b \in BOOLEAN, Enqueue(t, k, b)
    PROVE  Enqueued(NewCall(t, k, b))
<1> DEFINE c == [key |-> k, by |-> t, sync |-> b, state |-> "queued"]
<1>1. num \in Nat /\ num' = num + 1 /\ num' \in 0..MaxCalls
  BY ConstAssumption DEF TypeOK, Enqueue
<1>2. c \in Call BY DEF Call
<1>3. calls \in Seq(Call) /\ Len(calls) = num
  BY <1>1, SeqDef, LenProperties DEF TypeOK
<1>4. /\ calls' \in Seq(Call) /\ Len(calls') = num + 1
      /\ \A n \in 1..num : calls'[n] = calls[n]
      /\ calls'[num + 1] = c
  BY <1>2, <1>3, AppendProperties DEF Enqueue
<1>5. calls' \in [1..num' -> Call] BY <1>1, <1>4, LenProperties
<1>6. queue \in Seq(1..num) BY DEF TypeOK
<1>7. queue \in Seq(1..num') BY <1>1, <1>6, SeqMonotonic
<1>8. num + 1 \in 1..num' BY <1>1
<1>9. /\ queue' \in Seq(1..num') /\ Len(queue') = Len(queue) + 1
      /\ \A i \in 1..Len(queue) : queue'[i] = queue[i]
      /\ queue'[Len(queue) + 1] = num + 1
  BY <1>7, <1>8, AppendProperties DEF Enqueue
<1>10. Len(queue) \in Nat /\ \A i \in 1..Len(queue) : queue[i] \in 1..num
  BY <1>6, LenProperties, ElementOfSeq
<1> QED BY <1>1, <1>4, <1>5, <1>9, <1>10 DEF Enqueued, NewCall

\* The oldest call is taken from the queue.
LEMMA HeadFields ==
    ASSUME TypeOK, queue # <<>>
    PROVE  /\ Len(queue) \in Nat \ {0}
           /\ Head(queue) = queue[1]
           /\ \A i \in 1..Len(queue) : queue[i] \in 1..num
           /\ Tail(queue) \in Seq(1..num)
           /\ Len(Tail(queue)) = Len(queue) - 1
           /\ \A i \in 1..(Len(queue) - 1) : Tail(queue)[i] = queue[i + 1]
<1>1. queue \in Seq(1..num) BY DEF TypeOK
<1>2. Len(queue) \in Nat \ {0} BY <1>1, EmptySeq
<1>3. Head(queue) = queue[1] BY <1>1
<1> QED BY <1>1, <1>2, <1>3, HeadTailProperties, ElementOfSeq

\* What the type invariant says of the elements.
LEMMA Elements ==
    ASSUME TypeOK
    PROVE  /\ num \in Nat /\ num <= MaxCalls
           /\ Len(queue) \in Nat
           /\ \A i \in 1..Len(queue) : queue[i] \in 1..num
           /\ Len(stack) \in Nat
           /\ \A i \in 1..Len(stack) : stack[i] \in Frame
           /\ \A n \in 1..num : calls[n] \in Call
BY ConstAssumption, LenProperties, ElementOfSeq DEF TypeOK

----------------------------------------------------------------------------
(* The invariant, action by action.                                         *)

\* A call made: it is the youngest, and it has not started.
LEMMA EnqueueKeeps ==
    ASSUME IInv, NEW t \in Threads, NEW k \in Keys, NEW b \in BOOLEAN, Enqueue(t, k, b),
           stack' = stack
    PROVE  QueueInv' /\ StackInv' /\ StartsInOrder'
<1>1. Enqueued(NewCall(t, k, b)) BY EnqueueFields DEF IInv
<1>2. \A n \in 1..num' : n \in 1..num \/ n = num + 1 BY <1>1 DEF Enqueued
<1>3. calls'[num + 1].state = "queued" BY <1>1 DEF Enqueued, NewCall
<1>4. QueueInv'
  <2>1. \A i \in 1..Len(queue') : i \in 1..Len(queue) \/ i = Len(queue) + 1
    BY <1>1 DEF Enqueued
  <2>2. ASSUME NEW i \in 1..Len(queue'), NEW j \in 1..Len(queue'), i < j
        PROVE  queue'[i] < queue'[j]
    <3>1. i \in 1..Len(queue) /\ queue'[i] = queue[i] /\ queue[i] \in 1..num
      BY <1>1, <2>1, <2>2 DEF Enqueued
    <3>2. CASE j \in 1..Len(queue)
      BY <1>1, <2>2, <3>1, <3>2 DEF Enqueued, QueueInv, IInv
    <3>3. CASE j = Len(queue) + 1
      BY <1>1, <3>1, <3>3 DEF Enqueued
    <3> QED BY <2>1, <3>2, <3>3
  <2>3. ASSUME NEW i \in 1..Len(queue') PROVE calls'[queue'[i]].state = "queued"
    <3>1. CASE i \in 1..Len(queue)
      <4>1. queue'[i] = queue[i] /\ queue[i] \in 1..num /\ calls[queue[i]].state = "queued"
        BY <1>1, <3>1 DEF Enqueued, QueueInv, IInv
      <4> QED BY <1>1, <4>1 DEF Enqueued
    <3>2. CASE i = Len(queue) + 1 BY <1>1, <1>3, <3>2 DEF Enqueued
    <3> QED BY <2>1, <3>1, <3>2
  <2>4. \A n \in 1..num' : calls'[n].state = "queued" => \E i \in 1..Len(queue') : queue'[i] = n
    <3>1. Len(queue) + 1 \in 1..Len(queue') /\ \A i \in 1..Len(queue) : i \in 1..Len(queue')
      BY <1>1 DEF Enqueued
    <3>2. \A n \in 1..num : calls[n].state = "queued" => \E i \in 1..Len(queue) : queue[i] = n
      BY DEF IInv, QueueInv
    <3>3. \A n \in 1..num : calls'[n] = calls[n] BY <1>1 DEF Enqueued
    <3>4. queue'[Len(queue) + 1] = num + 1 /\ \A i \in 1..Len(queue) : queue'[i] = queue[i]
      BY <1>1 DEF Enqueued
    <3> QED BY <1>2, <3>1, <3>2, <3>3, <3>4
  <2> QED BY <2>2, <2>3, <2>4 DEF QueueInv
<1>5. StackInv'
  <2>1. \A n \in 1..num' : calls'[n].state = "running" => n \in 1..num
    BY <1>2, <1>3
  <2>2. num \in Nat /\ num' = num + 1 /\ \A n \in 1..num : calls'[n] = calls[n] /\ n \in 1..num'
    BY <1>1 DEF Enqueued
  <2> QED BY <2>1, <2>2 DEF StackInv, IInv
<1>6. StartsInOrder'
  <2> SUFFICES ASSUME NEW n \in 1..num', NEW m \in 1..num', n < m, calls'[n].state = "queued"
               PROVE  calls'[m].state \in {"queued", "cancelled"}
    BY DEF StartsInOrder
  <2>1. CASE m = num + 1 BY <2>1, <1>3
  <2>2. CASE m \in 1..num
    <3>1. n \in 1..num BY <2>2, <1>1 DEF Enqueued
    <3> QED BY <2>2, <3>1, <1>1 DEF Enqueued, StartsInOrder, IInv
  <2> QED BY <1>2, <2>1, <2>2
<1> QED BY <1>4, <1>5, <1>6

LEMMA CallKeeps ==
    ASSUME IInv, NEW t \in Threads, NEW k \in Keys, CallOnMainThread(t, k)
    PROVE  IInv'
<1>1. Enqueue(t, k, FALSE) /\ stack' = stack BY DEF CallOnMainThread
<1>2. TypeOK /\ PcInv BY DEF IInv
<1>3. Enqueued(NewCall(t, k, FALSE)) BY <1>1, <1>2, EnqueueFields
<1>4. pc' \in [Threads -> Place]
  BY <1>2 DEF TypeOK, CallOnMainThread, Place
<1>5. TypeOK'
  BY <1>1, <1>2, <1>3, <1>4 DEF TypeOK, CallOnMainThread, Enqueued
<1>6. \A u \in Threads : pc'[u].at \in {"wait", "woken"} => pc'[u] = pc[u]
  BY <1>2 DEF TypeOK, CallOnMainThread
<1>7. PcInv'
  <2>1. pc'[Main].at \in {"idle", "schedule"}
    BY <1>2 DEF TypeOK, CallOnMainThread, PcInv, Threads
  <2>2. /\ num \in Nat /\ \A n \in 1..num : calls'[n] = calls[n] /\ n \in 1..num'
        /\ ~calls'[num + 1].sync
        /\ \A n \in 1..num' : n \in 1..num \/ n = num + 1
    BY <1>3 DEF Enqueued, NewCall
  <2> QED BY <1>1, <1>2, <1>6, <2>1, <2>2 DEF PcInv
<1> QED BY <1>1, <1>5, <1>7, EnqueueKeeps DEF IInv

LEMMA CallAndWaitKeeps ==
    ASSUME IInv, NEW t \in Threads, NEW k \in Keys, CallOnMainThreadAndWait(t, k)
    PROVE  IInv'
<1>1. Enqueue(t, k, TRUE) /\ stack' = stack /\ t \in Workers BY DEF CallOnMainThreadAndWait
<1>2. TypeOK /\ PcInv BY DEF IInv
<1>3. Enqueued(NewCall(t, k, TRUE)) BY <1>1, <1>2, EnqueueFields
<1>4. /\ num \in Nat /\ \A n \in 1..num : calls'[n] = calls[n] /\ n \in 1..num'
      /\ num + 1 \in 1..num'
      /\ calls'[num + 1] = NewCall(t, k, TRUE)
      /\ \A n \in 1..num' : n \in 1..num \/ n = num + 1
  BY <1>3 DEF Enqueued
<1>5. num + 1 \in Numbers BY <1>3, ConstAssumption DEF Enqueued, Numbers
<1>6. /\ pc' \in [Threads -> Place]
      /\ \A u \in Threads : pc'[u] = IF u = t THEN [at |-> "wait", call |-> num + 1] ELSE pc[u]
  BY <1>2, <1>5 DEF TypeOK, CallOnMainThreadAndWait, Place
<1>7. TypeOK'
  BY <1>1, <1>2, <1>3, <1>6 DEF TypeOK, CallOnMainThreadAndWait, Enqueued
<1>8. t # Main BY <1>1, ConstAssumption
<1>9. PcInv'
  <2>1. pc'[Main].at \in {"idle", "schedule"}
    BY <1>2, <1>6, <1>8 DEF PcInv, Threads
  <2>2. \A n \in 1..num' : calls'[n].sync => calls'[n].by \in Workers /\ calls'[n].state # "cancelled"
    BY <1>1, <1>2, <1>4 DEF PcInv, NewCall
  <2>3. \A u \in Threads : pc'[u].at \in {"wait", "woken"} =>
          /\ pc'[u].call \in 1..num'
          /\ calls'[pc'[u].call].sync
          /\ calls'[pc'[u].call].by = u
    BY <1>2, <1>4, <1>6 DEF PcInv, NewCall
  <2>4. \A u \in Threads : pc'[u].at = "wait" =>
          \/ calls'[pc'[u].call].state \in {"queued", "running"}
          \/ \E i \in 1..Len(stack') : stack'[i].at = "signal" /\ stack'[i].call = pc'[u].call
    BY <1>1, <1>2, <1>4, <1>6 DEF PcInv, NewCall
  <2>5. \A u \in Threads : pc'[u].at = "woken" => calls'[pc'[u].call].state = "ended"
    BY <1>2, <1>4, <1>6 DEF PcInv
  <2> QED BY <2>1, <2>2, <2>3, <2>4, <2>5 DEF PcInv
<1> QED BY <1>1, <1>7, <1>9, EnqueueKeeps DEF IInv

\* A step of a thread between calls: only its place, the timer and the pause
\* may change, and it does not begin to wait.
LEMMA PlaceKeeps ==
    ASSUME IInv, UNCHANGED <<queue, calls, num, stack>>,
           pc' \in [Threads -> Place], timer' \in BOOLEAN, paused' \in BOOLEAN,
           pc'[Main].at \in {"idle", "schedule"},
           \A t \in Threads : pc'[t].at \in {"wait", "woken"} => pc'[t] = pc[t]
    PROVE  IInv'
<1>1. TypeOK' /\ QueueInv' /\ StackInv' /\ StartsInOrder'
  BY DEF IInv, TypeOK, QueueInv, StackInv, StartsInOrder
<1>2. PcInv' BY DEF IInv, PcInv
<1> QED BY <1>1, <1>2 DEF IInv

LEMMA PlaceActionsKeep ==
    ASSUME IInv,
           \/ \E t \in Threads : Schedule(t) \/ WaitReturns(t)
           \/ \E b \in BOOLEAN : SetMainThreadCallbacksPaused(b)
    PROVE  IInv'
<1>1. ASSUME NEW t \in Threads, Schedule(t) \/ WaitReturns(t)
      PROVE  IInv'
  <2>1. /\ UNCHANGED <<queue, calls, num, stack, paused>>
        /\ timer' \in BOOLEAN /\ paused' \in BOOLEAN
        /\ pc' = [pc EXCEPT ![t] = Between]
    BY <1>1 DEF Schedule, WaitReturns, IInv, TypeOK
  <2>2. Between \in Place BY DEF Between, Place
  <2>3. pc \in [Threads -> Place] BY DEF IInv, TypeOK
  <2>4. /\ pc' \in [Threads -> Place]
        /\ \A u \in Threads : pc'[u] = IF u = t THEN Between ELSE pc[u]
    BY <2>1, <2>2, <2>3
  <2>5. pc'[Main].at \in {"idle", "schedule"}
    BY <2>4 DEF Between, IInv, PcInv, Threads
  <2>6. \A u \in Threads : pc'[u].at \in {"wait", "woken"} => pc'[u] = pc[u]
    BY <2>4 DEF Between
  <2> QED BY <2>1, <2>4, <2>5, <2>6, PlaceKeeps
<1>2. ASSUME NEW b \in BOOLEAN, SetMainThreadCallbacksPaused(b) PROVE IInv'
  <2>1. UNCHANGED <<queue, calls, num, stack, pc>> /\ timer' \in BOOLEAN /\ paused' \in BOOLEAN
    BY <1>2 DEF SetMainThreadCallbacksPaused, IInv, TypeOK
  <2> QED BY <2>1, PlaceKeeps DEF IInv, TypeOK, PcInv
<1> QED BY <1>1, <1>2

\* A dispatch begins, in a function or outside all of them.
LEMMA TimerFiresKeeps ==
    ASSUME IInv, TimerFires PROVE IInv'
<1> USE DEF IInv
<1>1. UNCHANGED <<queue, calls, num, paused, pc>> /\ timer' \in BOOLEAN
  BY DEF TimerFires
<1>2. CASE paused
  <2>1. stack' = stack BY <1>2 DEF TimerFires
  <2> QED BY <1>1, <2>1, PlaceKeeps DEF TypeOK, PcInv
<1>3. CASE ~paused
  <2> DEFINE f == [call |-> 0, at |-> "take"]  N == Len(stack)
  <2>1. f \in Frame BY DEF Frame
  <2>2. stack' = Append(stack, f) /\ stack \in Seq(Frame) BY <1>3 DEF TimerFires, TypeOK
  <2>3. /\ stack' \in Seq(Frame) /\ Len(stack') = N + 1
        /\ \A i \in 1..N : stack'[i] = stack[i]
        /\ stack'[N + 1] = f
    BY <2>1, <2>2, AppendProperties
  <2>4. N \in Nat BY <2>2, LenProperties
  <2>5. N # 0 => stack[N].at = "run"
    BY <2>2, EmptySeq DEF TimerFires, MainRuns, In, Top
  <2> HIDE DEF N
  <2>6. \A i \in 1..(N + 1) : i \in 1..N \/ (i = N + 1 /\ stack'[i].at = "take")
    BY <2>3, <2>4
  <2>7. \A i \in 1..N : i \in 1..(N + 1) BY <2>4
  <2>8. StackInv'
    <3>1. \A i \in 1..N :
            /\ stack[i].at = "run"
            /\ stack[i].call \in 1..num
            /\ calls[stack[i].call].state = "running"
      BY <2>4, <2>5 DEF N, StackInv
    <3>2. \A i, j \in 1..N : i < j => stack[i].call < stack[j].call
      BY <3>1 DEF N, StackInv
    <3>3. \A n \in 1..num : calls[n].state = "running" =>
            \E i \in 1..N : stack[i].at = "run" /\ stack[i].call = n
      BY DEF N, StackInv
    <3>4. \A i \in 1..(N + 1) : 
         /\ i < N + 1 => stack'[i].at = "run"
         /\ stack'[i].at \in {"run", "signal"} => stack'[i].call \in 1..num
         /\ stack'[i].at = "run" => calls[stack'[i].call].state = "running"
         /\ stack'[i].at # "signal"
      BY <2>3, <2>4, <2>6, <3>1
    <3>5. \A i, j \in 1..(N + 1) :
         (i < j /\ stack'[j].at = "run") => stack'[i].call < stack'[j].call
      BY <2>3, <2>4, <2>6, <3>2
    <3>6. \A n \in 1..num : calls[n].state = "running" =>
         \E i \in 1..(N + 1) : stack'[i].at = "run" /\ stack'[i].call = n
      BY <2>3, <2>7, <3>3
    <3> QED BY <1>1, <2>3, <3>4, <3>5, <3>6 DEF StackInv
  <2>9. PcInv'
    <3>1. \A n : (\E i \in 1..N : stack[i].at = "signal" /\ stack[i].call = n) =>
             \E i \in 1..(N + 1) : stack'[i].at = "signal" /\ stack'[i].call = n
      BY <2>3, <2>7
    <3> QED BY <1>1, <2>3, <3>1 DEF PcInv, N
  <2> QED BY <1>1, <2>3, <2>8, <2>9 DEF TypeOK, QueueInv, StartsInOrder
<1> QED BY <1>2, <1>3

\* A dispatch that is between functions ends.
LEMMA PopKeeps ==
    ASSUME IInv, stack # <<>>, Top.at \in {"take", "check"}, stack' = Pop,
           UNCHANGED <<queue, calls, num, paused, pc>>, timer' \in BOOLEAN
    PROVE  IInv'
<1> USE DEF IInv
<1>1. PICK N \in Nat : Len(stack) = N + 1 /\ N = Len(stack) - 1
  <2>1. Len(stack) \in Nat \ {0} BY PopFields
  <2> QED BY <2>1
<1>2. /\ stack' \in Seq(Frame) /\ Len(stack') = N
      /\ \A i \in 1..N : stack'[i] = stack[i]
  BY <1>1, PopFields
<1>3. stack[N + 1].at \in {"take", "check"} BY <1>1 DEF Top
<1>4. \A i \in 1..N : i \in 1..(N + 1) /\ i < N + 1 OBVIOUS
<1>5. \A i \in 1..(N + 1) : i \in 1..N \/ i = N + 1 OBVIOUS
<1>6. StackInv'
  <2>1. \A n \in 1..num : calls[n].state = "running" =>
          \E i \in 1..N : stack'[i].at = "run" /\ stack'[i].call = n
    BY <1>1, <1>2, <1>3, <1>5 DEF StackInv
  <2> QED BY <1>1, <1>2, <1>4, <2>1 DEF StackInv
<1>7. PcInv'
  <2>1. \A n : (\E i \in 1..(N + 1) : stack[i].at = "signal" /\ stack[i].call = n) =>
           \E i \in 1..N : stack'[i].at = "signal" /\ stack'[i].call = n
    BY <1>2, <1>3, <1>5
  <2>2. \A t \in Threads : pc'[t].at = "wait" =>
          \/ calls'[pc'[t].call].state \in {"queued", "running"}
          \/ \E i \in 1..Len(stack') : stack'[i].at = "signal" /\ stack'[i].call = pc'[t].call
    <3> SUFFICES ASSUME NEW t \in Threads, pc[t].at = "wait",
                        calls[pc[t].call].state \notin {"queued", "running"}
                 PROVE  \E i \in 1..N : stack'[i].at = "signal" /\ stack'[i].call = pc[t].call
      BY <1>2
    <3>1. \E i \in 1..(N + 1) : stack[i].at = "signal" /\ stack[i].call = pc[t].call
      BY <1>1 DEF PcInv
    <3> QED BY <2>1, <3>1
  <2> QED BY <2>2 DEF PcInv
<1> QED BY <1>2, <1>6, <1>7 DEF TypeOK, QueueInv, StartsInOrder

\* The innermost dispatch moves on; N dispatches enclose it.
Moved(N, c, a) ==
    /\ N \in Nat
    /\ Len(stack) = N + 1 /\ Len(stack') = N + 1
    /\ stack' \in Seq(Frame)
    /\ Top = stack[N + 1] /\ Top \in Frame
    /\ \A i \in 1..N : stack'[i] = stack[i] /\ i \in 1..(N + 1) /\ i < N + 1
    /\ stack'[N + 1] = [call |-> c, at |-> a]
    /\ \A i \in 1..(N + 1) : i \in 1..N \/ i = N + 1

LEMMA SetTopMoves ==
    ASSUME TypeOK, stack # <<>>, NEW c \in Numbers \cup {0}, NEW a \in ATs, SetTop(c, a)
    PROVE  \E N \in Nat : Moved(N, c, a)
<1>1. PICK N \in Nat : Len(stack) = N + 1 /\ N = Len(stack) - 1
  <2>1. Len(stack) \in Nat \ {0} BY PopFields
  <2> QED BY <2>1
<1>2. /\ stack' \in Seq(Frame) /\ Len(stack') = Len(stack) /\ Top \in Frame
      /\ \A i \in 1..(Len(stack) - 1) : stack'[i] = stack[i]
      /\ stack'[Len(stack)] = [call |-> c, at |-> a]
  BY SetTopFields
<1>3. Top = stack[N + 1] BY <1>1 DEF Top
<1> WITNESS N \in Nat
<1> QED BY <1>1, <1>2, <1>3 DEF Moved

\* The state of call n changes.
LEMMA SetStateFields ==
    ASSUME TypeOK, NEW n \in 1..num, NEW s \in {"queued", "running", "ended", "cancelled"},
           SetState(n, s)
    PROVE  /\ calls' \in [1..num -> Call]
           /\ \A m \in 1..num : m # n => calls'[m] = calls[m]
           /\ \A m \in 1..num : calls'[m].by = calls[m].by /\ calls'[m].sync = calls[m].sync
           /\ calls'[n].state = s
<1>1. calls \in [1..num -> Call] BY DEF TypeOK
<1>2. calls[n] \in Call BY <1>1
<1>3. [calls[n] EXCEPT !.state = s] \in Call BY <1>2 DEF Call
<1>4. calls' = [calls EXCEPT ![n] = [calls[n] EXCEPT !.state = s]] BY DEF SetState
<1>5. /\ [calls[n] EXCEPT !.state = s].state = s
      /\ [calls[n] EXCEPT !.state = s].by = calls[n].by
      /\ [calls[n] EXCEPT !.state = s].sync = calls[n].sync
  BY <1>2 DEF Call
<1> QED BY <1>1, <1>3, <1>4, <1>5

\* A running call has started, so no queued call is older.
LEMMA RunningIsOlder ==
    ASSUME IInv, queue # <<>>, NEW n \in 1..num, calls[n].state = "running"
    PROVE  n < Head(queue)
<1>1. Head(queue) \in 1..num /\ Head(queue) = queue[1] /\ 1 \in 1..Len(queue)
  BY HeadFields DEF IInv
<1>2. calls[Head(queue)].state = "queued" BY <1>1 DEF IInv, QueueInv
<1>3. num \in Nat BY Elements DEF IInv
<1>4. n # Head(queue) BY <1>2
<1>5. ~ Head(queue) < n BY <1>1, <1>2 DEF IInv, StartsInOrder
<1> QED BY <1>1, <1>3, <1>4, <1>5

\* The oldest call starts.
LEMMA TakeKeeps ==
    ASSUME IInv, Take PROVE IInv'
<1> DEFINE h == Head(queue)
<1>1. TypeOK /\ QueueInv /\ StackInv /\ StartsInOrder /\ PcInv BY DEF IInv
<1>2. /\ In("take") /\ queue # <<>> /\ SetState(h, "running") /\ SetTop(h, "run")
      /\ queue' = Tail(queue) /\ UNCHANGED <<num, timer, paused, pc>>
  BY DEF Take
<1>3. stack # <<>> /\ Top.at = "take" BY <1>1, <1>2 DEF In
<1>4. PICK Q \in Nat : Len(queue) = Q + 1 /\ Q = Len(queue) - 1
  <2>1. Len(queue) \in Nat \ {0} BY <1>1, <1>2, HeadFields
  <2> QED BY <2>1
<1>5. /\ h = queue[1]
      /\ \A i \in 1..(Q + 1) : queue[i] \in 1..num
      /\ queue' \in Seq(1..num) /\ Len(queue') = Q
      /\ \A i \in 1..Q : queue'[i] = queue[i + 1]
  BY <1>1, <1>2, <1>4, HeadFields
<1>6. num \in Nat /\ num <= MaxCalls BY <1>1, Elements
<1>7. h \in 1..num BY <1>4, <1>5
<1>8. h \in Numbers \cup {0} BY <1>6, <1>7, ConstAssumption DEF Numbers
<1>9. /\ calls' \in [1..num -> Call]
      /\ \A m \in 1..num : m # h => calls'[m] = calls[m]
      /\ \A m \in 1..num : calls'[m].by = calls[m].by /\ calls'[m].sync = calls[m].sync
      /\ calls'[h].state = "running"
  BY <1>1, <1>2, <1>7, SetStateFields
<1>10. calls[h].state = "queued" BY <1>1, <1>4, <1>5 DEF QueueInv
<1>11. PICK N \in Nat : Moved(N, h, "run")
  BY <1>1, <1>2, <1>3, <1>8, SetTopMoves DEF ATs
<1>12. \A n \in 1..num : calls[n].state = "running" => n < h
  BY <1>2, RunningIsOlder
<1> HIDE DEF h
<1>13. TypeOK'
  BY <1>1, <1>2, <1>5, <1>9, <1>11 DEF TypeOK, Moved
<1>14. QueueInv'
  <2>1. \A i \in 1..Q : i + 1 \in 1..(Q + 1) /\ 1 \in 1..(Q + 1) /\ 1 < i + 1 OBVIOUS
  <2>2. \A i \in 1..Q : queue'[i] \in 1..num /\ h < queue'[i]
    BY <1>1, <1>4, <1>5, <2>1 DEF QueueInv
  <2>3. \A i \in 1..Q : calls'[queue'[i]].state = "queued"
    <3>1. \A i \in 1..Q : calls[queue'[i]].state = "queued"
      BY <1>1, <1>4, <1>5, <2>1 DEF QueueInv
    <3>2. \A i \in 1..Q : queue'[i] # h BY <2>2, <1>6, <1>7
    <3> QED BY <3>1, <3>2, <2>2, <1>9
  <2>4. \A i, j \in 1..Q : i < j => queue'[i] < queue'[j]
    <3> SUFFICES ASSUME NEW i \in 1..Q, NEW j \in 1..Q, i < j PROVE queue'[i] < queue'[j]
      OBVIOUS
    <3>1. i + 1 < j + 1 /\ i + 1 \in 1..(Q + 1) /\ j + 1 \in 1..(Q + 1) OBVIOUS
    <3>2. queue[i + 1] < queue[j + 1] BY <3>1, <1>1, <1>4 DEF QueueInv
    <3> QED BY <3>2, <1>5
  <2>5. ASSUME NEW n \in 1..num, calls'[n].state = "queued"
        PROVE  \E i \in 1..Q : queue'[i] = n
    <3>1. n # h /\ calls[n].state = "queued" BY <2>5, <1>9
    <3>2. PICK i \in 1..(Q + 1) : queue[i] = n BY <3>1, <1>1, <1>4 DEF QueueInv
    <3>3. i # 1 BY <3>1, <3>2, <1>5
    <3>4. i - 1 \in 1..Q /\ (i - 1) + 1 = i BY <3>3
    <3> QED BY <3>2, <3>4, <1>5
  <2> QED BY <1>2, <1>5, <2>3, <2>4, <2>5 DEF QueueInv
<1>15. StackInv'
  <2>1. \A i \in 1..N : /\ stack'[i] = stack[i] /\ stack[i].at = "run"
                        /\ stack[i].call \in 1..num /\ calls[stack[i].call].state = "running"
    BY <1>1, <1>11 DEF Moved, StackInv
  <2>2. \A i \in 1..N : stack[i].call < h /\ calls'[stack[i].call].state = "running"
    <3>1. \A i \in 1..N : stack[i].call < h BY <2>1, <1>12
    <3>2. \A i \in 1..N : stack[i].call # h BY <3>1, <2>1, <1>7, <1>6
    <3> QED BY <3>1, <3>2, <2>1, <1>9
  <2>3. stack'[N + 1].call = h /\ stack'[N + 1].at = "run" BY <1>11 DEF Moved
  <2>4. \A i \in 1..(N + 1) : i \in 1..N \/ i = N + 1 BY <1>11 DEF Moved
  <2>5. \A i \in 1..(N + 1) :
         /\ stack'[i].at = "run"
         /\ stack'[i].call \in 1..num
         /\ calls'[stack'[i].call].state = "running"
    BY <1>7, <1>9, <2>1, <2>2, <2>3, <2>4
  <2>6. \A i, j \in 1..(N + 1) : i < j => stack'[i].call < stack'[j].call
    <3> SUFFICES ASSUME NEW i \in 1..(N + 1), NEW j \in 1..(N + 1), i < j
                 PROVE  stack'[i].call < stack'[j].call
      OBVIOUS
    <3>1. i \in 1..N OBVIOUS
    <3>2. CASE j = N + 1 BY <3>1, <3>2, <2>1, <2>2, <2>3
    <3>3. CASE j \in 1..N
      <4>1. Len(stack) = N + 1 /\ i \in 1..(N + 1) /\ j \in 1..(N + 1) BY <1>11 DEF Moved
      <4>2. stack[j].at = "run" BY <3>3, <2>1
      <4>3. stack[i].call < stack[j].call BY <4>1, <4>2, <1>1 DEF StackInv
      <4> QED BY <4>3, <3>1, <3>3, <2>1
    <3> QED BY <2>4, <3>2, <3>3
  <2>7. ASSUME NEW n \in 1..num, calls'[n].state = "running"
        PROVE  \E i \in 1..(N + 1) : stack'[i].at = "run" /\ stack'[i].call = n
    <3>1. CASE n = h
      <4>1. N + 1 \in 1..(N + 1) OBVIOUS
      <4> QED BY <3>1, <4>1, <2>3
    <3>2. CASE n # h
      <4>1. calls[n].state = "running" BY <3>2, <2>7, <1>9
      <4>2. PICK i \in 1..(N + 1) : stack[i].at = "run" /\ stack[i].call = n
        BY <4>1, <1>1, <1>11 DEF StackInv, Moved
      <4>3. i # N + 1 BY <4>2, <1>3, <1>11 DEF Moved
      <4> QED BY <4>2, <4>3, <2>1, <2>4
    <3> QED BY <3>1, <3>2
  <2> QED BY <1>2, <1>11, <2>5, <2>6, <2>7 DEF StackInv, Moved
<1>16. StartsInOrder'
  <2> SUFFICES ASSUME NEW n \in 1..num, NEW m \in 1..num, n < m, calls'[n].state = "queued"
               PROVE  calls'[m].state \in {"queued", "cancelled"}
    BY <1>2 DEF StartsInOrder
  <2>1. n # h /\ calls[n].state = "queued" BY <1>9
  <2>2. h < n
    <3>1. PICK i \in 1..(Q + 1) : queue[i] = n BY <2>1, <1>1, <1>4 DEF QueueInv
    <3>2. i # 1 BY <3>1, <2>1, <1>5
    <3>3. 1 < i /\ 1 \in 1..(Q + 1) BY <3>2
    <3> QED BY <3>1, <3>3, <1>1, <1>4, <1>5 DEF QueueInv
  <2>3. m # h BY <2>2, <1>7
  <2> QED BY <2>1, <2>3, <1>1, <1>9 DEF StartsInOrder
<1>17. PcInv'
  <2>1. pc'[Main].at \in {"idle", "schedule"} BY <1>1, <1>2 DEF PcInv
  <2>2. \A n \in 1..num : calls'[n].sync => calls'[n].by \in Workers /\ calls'[n].state # "cancelled"
    BY <1>1, <1>9 DEF PcInv
  <2>3. \A t \in Threads : pc'[t].at \in {"wait", "woken"} =>
         /\ pc'[t].call \in 1..num /\ calls'[pc'[t].call].sync /\ calls'[pc'[t].call].by = t
    BY <1>1, <1>2, <1>9 DEF PcInv
  <2>4. ASSUME NEW t \in Threads, pc'[t].at = "wait"
        PROVE  calls'[pc'[t].call].state \in {"queued", "running"}
    <3>1. pc[t].at = "wait" /\ pc[t].call \in 1..num BY <2>4, <1>1, <1>2 DEF PcInv
    <3>2. \A i \in 1..Len(stack) : stack[i].at # "signal"
      BY <1>1, <1>3, <1>11 DEF Moved, StackInv
    <3>3. calls[pc[t].call].state \in {"queued", "running"} BY <3>1, <3>2, <1>1 DEF PcInv
    <3> QED BY <3>1, <3>3, <1>2, <1>9
  <2>5. \A t \in Threads : pc'[t].at = "woken" => calls'[pc'[t].call].state = "ended"
    <3>1. \A t \in Threads : pc[t].at = "woken" => pc[t].call \in 1..num /\ calls[pc[t].call].state = "ended"
      BY <1>1 DEF PcInv
    <3> QED BY <3>1, <1>2, <1>9, <1>10
  <2> QED BY <1>2, <2>1, <2>2, <2>3, <2>4, <2>5 DEF PcInv
<1> QED BY <1>13, <1>14, <1>15, <1>16, <1>17 DEF IInv

\* The innermost function returns; its caller is about to be signalled if it waits.
LEMMA FunctionReturnsKeeps ==
    ASSUME IInv, FunctionReturns PROVE IInv'
<1> DEFINE c == Top.call
           a == IF calls[c].sync THEN "signal" ELSE "check"
<1>1. TypeOK /\ QueueInv /\ StackInv /\ StartsInOrder /\ PcInv BY DEF IInv
<1>2. /\ In("run") /\ stack # <<>> /\ SetState(c, "ended") /\ SetTop(c, a)
      /\ UNCHANGED <<queue, num, timer, paused, pc>>
  BY DEF FunctionReturns, MainRuns
<1>3. Top.at = "run" BY <1>2 DEF In
<1>4. Top \in Frame BY <1>1, <1>2, PopFields
<1>5. PICK N \in Nat : Moved(N, c, a)
  <2>1. c \in Numbers \cup {0} BY <1>4 DEF Frame
  <2>2. a \in ATs BY DEF ATs
  <2> QED BY <1>1, <1>2, <2>1, <2>2, SetTopMoves
<1>6. c \in 1..num /\ calls[c].state = "running"
  BY <1>1, <1>3, <1>5 DEF Moved, StackInv
<1>7. /\ calls' \in [1..num -> Call]
      /\ \A m \in 1..num : m # c => calls'[m] = calls[m]
      /\ \A m \in 1..num : calls'[m].by = calls[m].by /\ calls'[m].sync = calls[m].sync
      /\ calls'[c].state = "ended"
  BY <1>1, <1>2, <1>6, SetStateFields
<1>8. num \in Nat BY <1>1, Elements
<1>9. /\ stack'[N + 1].call = c /\ stack'[N + 1].at = a
      /\ stack[N + 1].call = c /\ stack[N + 1].at = "run"
  BY <1>3, <1>5 DEF Moved
<1>10. \A i \in 1..N : /\ stack'[i] = stack[i] /\ stack[i].at = "run"
                       /\ stack[i].call \in 1..num /\ calls[stack[i].call].state = "running"
                       /\ stack[i].call < c
  <2>1. \A i \in 1..N : i \in 1..Len(stack) /\ i < Len(stack) /\ N + 1 \in 1..Len(stack)
    BY <1>5 DEF Moved
  <2>2. \A i \in 1..N : stack'[i] = stack[i] BY <1>5 DEF Moved
  <2>3. Len(stack) = N + 1 BY <1>5 DEF Moved
  <2> QED BY <1>1, <1>9, <2>1, <2>2, <2>3 DEF StackInv
<1>11. (a = "signal") = calls[c].sync
  <2>1. calls[c] \in Call BY <1>1, <1>6, Elements
  <2>2. calls[c].sync \in BOOLEAN BY <2>1 DEF Call
  <2> QED BY <2>2
<1>12. a \in {"signal", "check"} OBVIOUS
<1> HIDE DEF c, a
<1>13. TypeOK'
  BY <1>1, <1>2, <1>5, <1>7 DEF TypeOK, Moved
<1>14. QueueInv'
  <2>1. \A i \in 1..Len(queue) : queue[i] \in 1..num /\ queue[i] # c
    BY <1>1, <1>6, Elements DEF QueueInv
  <2>2. \A n \in 1..num : calls'[n].state = "queued" => calls[n].state = "queued"
    BY <1>7
  <2> QED BY <1>1, <1>2, <1>7, <2>1, <2>2 DEF QueueInv
<1>15. StackInv'
  <2>1. \A i \in 1..(N + 1) : i \in 1..N \/ i = N + 1 BY <1>5 DEF Moved
  <2>2. \A i \in 1..N : stack'[i].call # c /\ calls'[stack'[i].call].state = "running"
    <3>1. \A i \in 1..N : stack[i].call # c BY <1>10, <1>6
    <3> QED BY <3>1, <1>10, <1>7
  <2>3. \A i \in 1..(N + 1) :
         /\ i < N + 1 => stack'[i].at = "run"
         /\ stack'[i].at \in {"run", "signal"} => stack'[i].call \in 1..num
         /\ stack'[i].at = "run" => calls'[stack'[i].call].state = "running"
         /\ stack'[i].at = "signal" => calls'[stack'[i].call].state = "ended"
         /\ stack'[i].at = "signal" => calls'[stack'[i].call].sync
    <3>1. \A i \in 1..N :
         /\ stack'[i].at = "run" /\ stack'[i].call \in 1..num
         /\ calls'[stack'[i].call].state = "running"
      BY <1>10, <2>2
    <3>2. a = "signal" => calls'[c].sync BY <1>6, <1>7, <1>11
    <3>3. ~ N + 1 < N + 1 OBVIOUS
    <3> QED BY <1>6, <1>7, <1>9, <1>12, <2>1, <3>1, <3>2, <3>3
  <2>4. \A i, j \in 1..(N + 1) :
         (i < j /\ stack'[j].at = "run") => stack'[i].call < stack'[j].call
    <3> SUFFICES ASSUME NEW i \in 1..(N + 1), NEW j \in 1..(N + 1), i < j, stack'[j].at = "run"
                 PROVE  stack'[i].call < stack'[j].call
      OBVIOUS
    <3>1. j # N + 1 BY <1>9, <1>12
    <3>2. i \in 1..N /\ j \in 1..N BY <3>1
    <3>3. Len(stack) = N + 1 BY <1>5 DEF Moved
    <3>4. stack[i].call < stack[j].call BY <3>2, <3>3, <1>1, <1>10 DEF StackInv
    <3> QED BY <3>2, <3>4, <1>10
  <2>5. ASSUME NEW n \in 1..num, calls'[n].state = "running"
        PROVE  \E i \in 1..(N + 1) : stack'[i].at = "run" /\ stack'[i].call = n
    <3>1. n # c /\ calls[n].state = "running" BY <2>5, <1>7
    <3>2. PICK i \in 1..(N + 1) : stack[i].at = "run" /\ stack[i].call = n
      BY <3>1, <1>1, <1>5 DEF StackInv, Moved
    <3>3. i # N + 1 BY <3>1, <3>2, <1>9
    <3> QED BY <3>2, <3>3, <2>1, <1>10
  <2>6. Len(stack') = N + 1 BY <1>5 DEF Moved
  <2> QED BY <1>2, <2>3, <2>4, <2>5, <2>6 DEF StackInv
<1>16. StartsInOrder'
  <2> SUFFICES ASSUME NEW n \in 1..num, NEW m \in 1..num, n < m, calls'[n].state = "queued"
               PROVE  calls'[m].state \in {"queued", "cancelled"}
    BY <1>2 DEF StartsInOrder
  <2>1. calls[n].state = "queued" BY <1>7
  <2>2. calls[m].state \in {"queued", "cancelled"} BY <2>1, <1>1 DEF StartsInOrder
  <2>3. m # c BY <2>2, <1>6
  <2> QED BY <2>2, <2>3, <1>7
<1>17. PcInv'
  <2>1. pc'[Main].at \in {"idle", "schedule"} BY <1>1, <1>2 DEF PcInv
  <2>2. \A n \in 1..num : calls'[n].sync => calls'[n].by \in Workers /\ calls'[n].state # "cancelled"
    BY <1>1, <1>7 DEF PcInv
  <2>3. \A t \in Threads : pc'[t].at \in {"wait", "woken"} =>
         /\ pc'[t].call \in 1..num /\ calls'[pc'[t].call].sync /\ calls'[pc'[t].call].by = t
    BY <1>1, <1>2, <1>7 DEF PcInv
  <2>4. ASSUME NEW t \in Threads, pc'[t].at = "wait"
        PROVE  \/ calls'[pc'[t].call].state \in {"queued", "running"}
               \/ \E i \in 1..Len(stack') : stack'[i].at = "signal" /\ stack'[i].call = pc'[t].call
    <3>1. pc'[t] = pc[t] /\ pc[t].at = "wait" /\ pc[t].call \in 1..num /\ calls[pc[t].call].sync
      BY <2>4, <1>1, <1>2 DEF PcInv
    <3>2. \A i \in 1..Len(stack) : stack[i].at # "signal"
      BY <1>9, <1>10, <1>5 DEF Moved
    <3>3. calls[pc[t].call].state \in {"queued", "running"} BY <3>1, <3>2, <1>1 DEF PcInv
    <3>4. CASE pc[t].call = c
      <4>1. N + 1 \in 1..Len(stack') BY <1>5 DEF Moved
      <4> QED BY <3>1, <3>4, <4>1, <1>9, <1>11
    <3>5. CASE pc[t].call # c BY <3>1, <3>3, <3>5, <1>7
    <3> QED BY <3>4, <3>5
  <2>5. \A t \in Threads : pc'[t].at = "woken" => calls'[pc'[t].call].state = "ended"
    <3>1. \A t \in Threads : pc[t].at = "woken" => pc[t].call \in 1..num /\ calls[pc[t].call].state = "ended"
      BY <1>1 DEF PcInv
    <3> QED BY <3>1, <1>2, <1>7
  <2> QED BY <1>2, <2>1, <2>2, <2>3, <2>4, <2>5 DEF PcInv
<1> QED BY <1>13, <1>14, <1>15, <1>16, <1>17 DEF IInv

\* A dispatch that runs no function any more moves on: the stack of running
\* functions stays as it is.
LEMMA MovedKeeps ==
    ASSUME IInv, stack # <<>>, Top.at \in {"signal", "check"},
           NEW c \in Numbers \cup {0}, NEW a \in {"take", "check"}, SetTop(c, a),
           UNCHANGED <<queue, calls, num>>
    PROVE  QueueInv' /\ StackInv' /\ StartsInOrder' /\ stack' \in Seq(Frame)
<1>1. PICK N \in Nat : Moved(N, c, a)
  BY SetTopMoves DEF IInv, ATs
<1>2. Len(stack) = N + 1 /\ Len(stack') = N + 1 /\ stack' \in Seq(Frame) BY <1>1 DEF Moved
<1>3. \A i \in 1..N : stack'[i] = stack[i] /\ i \in 1..(N + 1) /\ i < N + 1 BY <1>1 DEF Moved
<1>4. stack[N + 1].at \in {"signal", "check"} /\ stack'[N + 1].at = a BY <1>1 DEF Moved
<1>5. \A i \in 1..(N + 1) : i \in 1..N \/ i = N + 1 BY <1>1 DEF Moved
<1>6. \A i \in 1..N : stack[i].at = "run" BY <1>2, <1>3 DEF IInv, StackInv
<1>7. \A i \in 1..(N + 1) :
         /\ i < N + 1 => stack'[i].at = "run"
         /\ stack'[i].at \in {"run", "signal"} => stack'[i].call \in 1..num
         /\ stack'[i].at = "run" => calls[stack'[i].call].state = "running"
         /\ stack'[i].at # "signal"
  <2>1. \A i \in 1..N : stack[i].call \in 1..num /\ calls[stack[i].call].state = "running"
    BY <1>2, <1>3, <1>6 DEF IInv, StackInv
  <2>2. ~ N + 1 < N + 1 OBVIOUS
  <2> QED BY <1>3, <1>4, <1>5, <1>6, <2>1, <2>2
<1>8. \A i, j \in 1..(N + 1) :
         (i < j /\ stack'[j].at = "run") => stack'[i].call < stack'[j].call
  <2> SUFFICES ASSUME NEW i \in 1..(N + 1), NEW j \in 1..(N + 1), i < j, stack'[j].at = "run"
               PROVE  stack'[i].call < stack'[j].call
    OBVIOUS
  <2>1. j # N + 1 BY <1>4
  <2>2. i \in 1..N /\ j \in 1..N BY <2>1
  <2>3. stack[i].call < stack[j].call BY <2>2, <1>2, <1>6 DEF IInv, StackInv
  <2> QED BY <2>2, <2>3, <1>3
<1>9. \A n \in 1..num : calls[n].state = "running" =>
         \E i \in 1..(N + 1) : stack'[i].at = "run" /\ stack'[i].call = n
  <2> SUFFICES ASSUME NEW n \in 1..num, calls[n].state = "running"
               PROVE  \E i \in 1..(N + 1) : stack'[i].at = "run" /\ stack'[i].call = n
    OBVIOUS
  <2>1. PICK i \in 1..(N + 1) : stack[i].at = "run" /\ stack[i].call = n
    BY <1>2 DEF IInv, StackInv
  <2>2. i \in 1..N BY <2>1, <1>4, <1>5
  <2> QED BY <2>1, <2>2, <1>3
<1>10. StackInv' BY <1>2, <1>7, <1>8, <1>9 DEF StackInv
<1>11. QueueInv' /\ StartsInOrder' BY DEF IInv, QueueInv, StartsInOrder
<1> QED BY <1>2, <1>10, <1>11

LEMMA ContinuesKeeps ==
    ASSUME IInv, Continues PROVE IInv'
<1>1. TypeOK /\ PcInv BY DEF IInv
<1>2. /\ stack # <<>> /\ Top.at = "check" /\ SetTop(0, "take")
      /\ UNCHANGED <<queue, calls, num, timer, paused, pc>>
  BY DEF Continues, In
<1>3. QueueInv' /\ StackInv' /\ StartsInOrder' /\ stack' \in Seq(Frame)
  BY <1>2, MovedKeeps
<1>4. TypeOK' BY <1>1, <1>2, <1>3 DEF TypeOK
<1>5. PICK N \in Nat : Moved(N, 0, "take") BY <1>1, <1>2, SetTopMoves DEF ATs
<1>6. \A i \in 1..Len(stack) : stack[i].at # "signal"
  BY <1>2, <1>5 DEF Moved, IInv, StackInv
<1>7. PcInv' BY <1>1, <1>2, <1>6 DEF PcInv
<1> QED BY <1>3, <1>4, <1>7 DEF IInv

LEMMA SignalKeeps ==
    ASSUME IInv, Signal PROVE IInv'
<1> DEFINE c == Top.call
<1>1. TypeOK /\ PcInv /\ StackInv BY DEF IInv
<1>2. /\ stack # <<>> /\ Top.at = "signal" /\ SetTop(c, "check")
      /\ UNCHANGED <<queue, calls, num, timer, paused>>
  BY DEF Signal, In
<1>3. c \in Numbers \cup {0} BY <1>1, <1>2, PopFields DEF Frame
<1>4. QueueInv' /\ StackInv' /\ StartsInOrder' /\ stack' \in Seq(Frame)
  BY <1>2, <1>3, MovedKeeps
<1>5. PICK N \in Nat : Moved(N, c, "check") BY <1>1, <1>2, <1>3, SetTopMoves DEF ATs
<1>6. calls[c].state = "ended" BY <1>1, <1>2, <1>5 DEF Moved, StackInv
<1>7. /\ pc' \in [Threads -> Place]
      /\ \A t \in Threads : pc'[t].call = pc[t].call
      /\ \A t \in Threads : pc'[t] = pc[t] \/ (pc[t].at = "wait" /\ pc[t].call = c /\ pc'[t].at = "woken")
      /\ \A t \in Threads : pc'[t].at = "wait" => pc[t].at = "wait" /\ pc[t].call # c
  <2>1. pc' = [t \in Threads |-> IF Waits(t, c) THEN [pc[t] EXCEPT !.at = "woken"] ELSE pc[t]]
    BY DEF Signal
  <2>2. \A t \in Threads : /\ pc[t] \in Place
                           /\ [pc[t] EXCEPT !.at = "woken"] \in Place
                           /\ [pc[t] EXCEPT !.at = "woken"].at = "woken"
                           /\ [pc[t] EXCEPT !.at = "woken"].call = pc[t].call
    BY <1>1 DEF TypeOK, Place
  <2>3. \A t \in Threads : Waits(t, c) => pc[t].at = "wait" /\ pc[t].call = c
    BY DEF Waits
  <2>4. \A t \in Threads : pc[t].at = "wait" /\ pc[t].call = c => Waits(t, c)
    BY <2>2 DEF Waits, Place
  <2> HIDE DEF c
  <2>5. \A t \in Threads : pc'[t] = IF Waits(t, c) THEN [pc[t] EXCEPT !.at = "woken"] ELSE pc[t]
    BY <2>1
  <2>6. pc' \in [Threads -> Place] BY <2>1, <2>2
  <2> QED BY <2>2, <2>3, <2>4, <2>5, <2>6
<1> HIDE DEF c
<1>8. TypeOK' BY <1>1, <1>2, <1>4, <1>7 DEF TypeOK
<1>9. PcInv'
  <2>1. pc'[Main].at \in {"idle", "schedule"} BY <1>1, <1>7 DEF PcInv, Threads
  <2>2. \A n \in 1..num : calls'[n].sync => calls'[n].by \in Workers /\ calls'[n].state # "cancelled"
    BY <1>1, <1>2 DEF PcInv
  <2>3. \A t \in Threads : pc'[t].at \in {"wait", "woken"} =>
         /\ pc'[t].call \in 1..num /\ calls[pc'[t].call].sync /\ calls[pc'[t].call].by = t
    BY <1>1, <1>7 DEF PcInv
  <2>4. \A t \in Threads : pc'[t].at = "wait" => calls[pc'[t].call].state \in {"queued", "running"}
    <3>1. \A i \in 1..Len(stack) : stack[i].at = "signal" => stack[i].call = c
      BY <1>1, <1>5 DEF Moved, StackInv, c
    <3> QED BY <3>1, <1>1, <1>7 DEF PcInv
  <2>5. \A t \in Threads : pc'[t].at = "woken" => calls[pc'[t].call].state = "ended"
    BY <1>1, <1>6, <1>7 DEF PcInv
  <2> QED BY <1>2, <2>1, <2>2, <2>3, <2>4, <2>5 DEF PcInv
<1> QED BY <1>4, <1>8, <1>9 DEF IInv

\* What a cancel leaves in the queue: f lists the positions that stay, in order.
Filtered(k, C, f) ==
    /\ C \in Nat
    /\ f \in [1..C -> Kept(k)]
    /\ \A i, j \in 1..C : i < j => f[i] < f[j]
    /\ \A p \in Kept(k) : \E i \in 1..C : f[i] = p
    /\ queue' \in Seq(1..num) /\ Len(queue') = C
    /\ \A i \in 1..C : queue'[i] = queue[f[i]]

LEMMA CancelFilters ==
    ASSUME TypeOK, NEW k \in Keys, CancelCallOnMainThread(k)
    PROVE  \E C, f : Filtered(k, C, f)
<1> DEFINE K == Kept(k)  C == Cardinality(K)
<1>1. Len(queue) \in Nat /\ \A i \in 1..Len(queue) : queue[i] \in 1..num BY Elements
<1>2. K \subseteq 1..Len(queue) BY DEF Kept
<1>3. IsFiniteSet(1..Len(queue)) BY <1>1, FS_Interval
<1>4. C \in Nat BY <1>2, <1>3, FS_Subset, FS_CardinalityType
<1>5. PICK f \in [1..C -> K] :
         /\ \A i, j \in DOMAIN f : i < j => f[i] < f[j]
         /\ \A p \in K : \E i \in DOMAIN f : f[i] = p
         /\ queue' = [i \in DOMAIN f |-> queue[f[i]]]
  BY DEF CancelCallOnMainThread
<1> HIDE DEF C
<1>6. DOMAIN f = 1..C BY <1>5
<1>7. \A i \in 1..C : queue[f[i]] \in 1..num BY <1>1, <1>2, <1>5
<1>8. queue' \in [1..C -> 1..num] /\ \A i \in 1..C : queue'[i] = queue[f[i]]
  BY <1>5, <1>6, <1>7
<1>9. queue' \in Seq(1..num) /\ Len(queue') = C
  <2> DEFINE S == 1..num  q == queue'
  <2>1. q \in [1..C -> S] BY <1>8
  <2> HIDE DEF S, q
  <2>2. q \in Seq(S) BY <1>4, <2>1, SeqDef
  <2>3. Len(q) = C BY <1>4, <2>1, <2>2, LenProperties
  <2> QED BY <2>2, <2>3 DEF S, q
<1>10. Filtered(k, C, f) BY <1>4, <1>5, <1>6, <1>8, <1>9 DEF Filtered
<1> QED BY <1>10

\* The calls a cancel gives up, and the others.
LEMMA CancelStates ==
    ASSUME TypeOK, NEW k \in Keys, CancelCallOnMainThread(k)
    PROVE  /\ calls' \in [1..num -> Call]
           /\ \A n \in 1..num :
                /\ calls'[n].by = calls[n].by /\ calls'[n].sync = calls[n].sync
                /\ ~(calls[n].state = "queued" /\ Cancels(n, k)) => calls'[n] = calls[n]
                /\ calls[n].state = "queued" /\ Cancels(n, k) => calls'[n].state = "cancelled"
<1>1. calls \in [1..num -> Call] BY DEF TypeOK
<1>2. calls' = [n \in 1..num |->
                   IF calls[n].state = "queued" /\ Cancels(n, k)
                   THEN [calls[n] EXCEPT !.state = "cancelled"] ELSE calls[n]]
  BY <1>1 DEF CancelCallOnMainThread
<1>3. \A n \in 1..num :
        /\ calls[n] \in Call
        /\ [calls[n] EXCEPT !.state = "cancelled"] \in Call
        /\ [calls[n] EXCEPT !.state = "cancelled"].by = calls[n].by
        /\ [calls[n] EXCEPT !.state = "cancelled"].sync = calls[n].sync
        /\ [calls[n] EXCEPT !.state = "cancelled"].state = "cancelled"
  BY <1>1 DEF Call
<1> QED BY <1>2, <1>3

LEMMA CancelKeeps ==
    ASSUME IInv, NEW k \in Keys, CancelCallOnMainThread(k)
    PROVE  IInv'
<1>1. TypeOK /\ QueueInv /\ StackInv /\ StartsInOrder /\ PcInv BY DEF IInv
<1>2. UNCHANGED <<num, timer, paused, stack, pc>> BY DEF CancelCallOnMainThread
<1>3. PICK C, f : Filtered(k, C, f) BY <1>1, CancelFilters
<1>4. /\ calls' \in [1..num -> Call]
      /\ \A n \in 1..num :
                /\ calls'[n].by = calls[n].by /\ calls'[n].sync = calls[n].sync
                /\ ~(calls[n].state = "queued" /\ Cancels(n, k)) => calls'[n] = calls[n]
                /\ calls[n].state = "queued" /\ Cancels(n, k) => calls'[n].state = "cancelled"
  BY <1>1, CancelStates
<1>5. /\ C \in Nat /\ queue' \in Seq(1..num) /\ Len(queue') = C
      /\ \A i, j \in 1..C : i < j => f[i] < f[j]
      /\ \A i \in 1..C : f[i] \in 1..Len(queue) /\ ~Cancels(queue[f[i]], k)
      /\ \A i \in 1..C : queue'[i] = queue[f[i]]
      /\ \A p \in Kept(k) : \E i \in 1..C : f[i] = p
  BY <1>3 DEF Filtered, Kept
<1>6. \A i \in 1..Len(queue) : queue[i] \in 1..num /\ calls[queue[i]].state = "queued"
  BY <1>1, Elements DEF QueueInv
<1>7. \A n \in 1..num : calls'[n].state = "queued" => calls[n].state = "queued" /\ ~Cancels(n, k)
  BY <1>4
<1>8. \A n \in 1..num : calls[n].state # "queued" => calls'[n] = calls[n] BY <1>4
<1>9. TypeOK' BY <1>1, <1>2, <1>4, <1>5 DEF TypeOK
<1>10. QueueInv'
  <2>1. \A i, j \in 1..C : i < j => queue'[i] < queue'[j] BY <1>1, <1>5 DEF QueueInv
  <2>2. \A i \in 1..C : calls'[queue'[i]].state = "queued" BY <1>4, <1>5, <1>6
  <2>3. ASSUME NEW n \in 1..num, calls'[n].state = "queued"
        PROVE  \E i \in 1..C : queue'[i] = n
    <3>1. PICK p \in 1..Len(queue) : queue[p] = n BY <2>3, <1>1, <1>7 DEF QueueInv
    <3>2. p \in Kept(k) BY <2>3, <3>1, <1>7 DEF Kept
    <3> QED BY <3>1, <3>2, <1>5
  <2> QED BY <1>2, <1>5, <2>1, <2>2, <2>3 DEF QueueInv
<1>11. StackInv'
  <2>1. \A i \in 1..Len(stack) : stack[i].at \in {"run", "signal"} =>
           stack[i].call \in 1..num /\ calls'[stack[i].call] = calls[stack[i].call]
    BY <1>1, <1>8 DEF StackInv
  <2>2. \A n \in 1..num : calls'[n].state = "running" => calls[n].state = "running"
    BY <1>4
  <2> QED BY <1>1, <1>2, <2>1, <2>2 DEF StackInv
<1>12. StartsInOrder'
  <2> SUFFICES ASSUME NEW n \in 1..num, NEW m \in 1..num, n < m, calls'[n].state = "queued"
               PROVE  calls'[m].state \in {"queued", "cancelled"}
    BY <1>2 DEF StartsInOrder
  <2>1. calls[m].state \in {"queued", "cancelled"} BY <1>1, <1>7 DEF StartsInOrder
  <2> QED BY <2>1, <1>4
<1>13. PcInv'
  <2>1. \A n \in 1..num : calls[n].sync => calls'[n] = calls[n] BY <1>4 DEF Cancels
  <2> QED BY <1>1, <1>2, <1>4, <2>1 DEF PcInv
<1> QED BY <1>9, <1>10, <1>11, <1>12, <1>13 DEF IInv

----------------------------------------------------------------------------
(* The theorems.                                                            *)

LEMMA InitIInv == Init => IInv
<1> SUFFICES ASSUME Init PROVE IInv OBVIOUS
<1>1. /\ num = 0 /\ queue = <<>> /\ stack = <<>> /\ Len(queue) = 0 /\ Len(stack) = 0
      /\ timer = FALSE /\ paused = FALSE
      /\ pc \in [Threads -> Place] /\ pc[Main].at = "idle"
      /\ \A t \in Threads : pc[t].at = "idle"
  BY DEF Init, Between, Place, Threads
<1>2. 1..0 = {} OBVIOUS
<1>3. calls \in [1..num -> Call]
  BY <1>1, <1>2, SeqDef DEF Init
<1>4. queue \in Seq(1..num) BY <1>1
<1>5. stack \in Seq(Frame) BY <1>1
<1>6. TypeOK
  <2>1. num \in 0..MaxCalls BY <1>1, ConstAssumption
  <2>2. timer \in BOOLEAN /\ paused \in BOOLEAN BY <1>1
  <2>3. pc \in [Threads -> Place] BY <1>1
  <2> QED BY <1>3, <1>4, <1>5, <2>1, <2>2, <2>3 DEF TypeOK
<1>7. QueueInv /\ StackInv /\ StartsInOrder BY <1>1, <1>2 DEF QueueInv, StackInv, StartsInOrder
<1>8. PcInv BY <1>1, <1>2 DEF PcInv
<1> QED BY <1>6, <1>7, <1>8 DEF IInv

LEMMA StepIInv == IInv /\ [Next]_vars => IInv'
<1> SUFFICES ASSUME IInv, [Next]_vars PROVE IInv' OBVIOUS
<1>1. ASSUME NEW t \in Threads, Schedule(t) \/ WaitReturns(t) PROVE IInv'
  BY <1>1, PlaceActionsKeep
<1>2. ASSUME NEW t \in Threads, NEW k \in Keys, CallOnMainThread(t, k) PROVE IInv'
  BY <1>2, CallKeeps
<1>3. ASSUME NEW t \in Threads, NEW k \in Keys, CallOnMainThreadAndWait(t, k) PROVE IInv'
  BY <1>3, CallAndWaitKeeps
<1>4. ASSUME NEW k \in Keys, CancelCallOnMainThread(k) PROVE IInv'
  BY <1>4, CancelKeeps
<1>5. ASSUME NEW b \in BOOLEAN, SetMainThreadCallbacksPaused(b) PROVE IInv'
  BY <1>5, PlaceActionsKeep
<1>6. CASE TimerFires BY <1>6, TimerFiresKeeps
<1>7. CASE Take BY <1>7, TakeKeeps
<1>8. CASE TakesNothing
  <2>1. stack # <<>> /\ Top.at \in {"take", "check"} /\ stack' = Pop
        /\ UNCHANGED <<queue, calls, num, paused, pc>> /\ timer' \in BOOLEAN
    BY <1>8 DEF TakesNothing, In, IInv, TypeOK
  <2> QED BY <2>1, PopKeeps
<1>9. CASE FunctionReturns BY <1>9, FunctionReturnsKeeps
<1>10. CASE Signal BY <1>10, SignalKeeps
<1>11. CASE Continues BY <1>11, ContinuesKeeps
<1>12. CASE Yields
  <2>1. stack # <<>> /\ Top.at \in {"take", "check"} /\ stack' = Pop
        /\ UNCHANGED <<queue, calls, num, paused, pc>> /\ timer' \in BOOLEAN
    BY <1>12 DEF Yields, In
  <2> QED BY <2>1, PopKeeps
<1>13. CASE UNCHANGED vars
  <2>1. UNCHANGED <<queue, calls, num, timer, paused, stack, pc>> BY <1>13 DEF vars
  <2>2. TypeOK' /\ QueueInv' /\ StackInv' /\ StartsInOrder' /\ PcInv'
    BY <2>1 DEF IInv, TypeOK, QueueInv, StackInv, StartsInOrder, PcInv
  <2> QED BY <2>2 DEF IInv
<1> QED
  BY <1>1, <1>2, <1>3, <1>4, <1>5, <1>6, <1>7, <1>8, <1>9, <1>10, <1>11, <1>12, <1>13
  DEF Next, Dispatch

\* The inductive invariant holds: the queue and the stack say of each call what
\* its state says, whoever calls, cancels or nests meanwhile.
THEOREM QueueAndStack == Spec => []IInv
BY InitIInv, StepIInv, PTL DEF Spec

\* Every variable keeps its type.
THEOREM TypeCorrect == Spec => []TypeOK
<1>1. IInv => TypeOK BY DEF IInv
<1> QED BY <1>1, QueueAndStack, PTL

\* Functions start in the order of the calls.
THEOREM Ordered == Spec => []StartsInOrder
<1>1. IInv => StartsInOrder BY DEF IInv
<1> QED BY <1>1, QueueAndStack, PTL

\* A thread in callOnMainThreadAndWait() waits for a call that is still queued or
\* running, so a cancel never leaves it waiting for ever.
THEOREM NobodyForgotten == Spec => []WaiterHasCall
<1>1. ASSUME IInv PROVE WaiterHasCall
  <2> SUFFICES ASSUME NEW t \in Threads, pc[t].at = "wait"
               PROVE  \/ \E i \in 1..Len(queue) : queue[i] = pc[t].call
                      \/ \E i \in 1..Len(stack) : /\ stack[i].call = pc[t].call
                                                  /\ stack[i].at \in {"run", "signal"}
    BY DEF WaiterHasCall
  <2>1. pc[t].call \in 1..num BY <1>1 DEF IInv, PcInv
  <2>2. CASE calls[pc[t].call].state = "queued" BY <1>1, <2>1, <2>2 DEF IInv, QueueInv
  <2>3. CASE calls[pc[t].call].state = "running" BY <1>1, <2>1, <2>3 DEF IInv, StackInv
  <2>4. CASE \E i \in 1..Len(stack) : stack[i].at = "signal" /\ stack[i].call = pc[t].call
    BY <2>4
  <2> QED BY <1>1, <2>2, <2>3, <2>4 DEF IInv, PcInv
<1> QED BY <1>1, QueueAndStack, PTL

\* A dispatch in progress stays in progress while it moves on.
LEMMA SetTopNotEmpty ==
    ASSUME TypeOK, stack # <<>>, NEW c, NEW a, SetTop(c, a)
    PROVE  stack' # <<>>
BY PopFields, AppendProperties DEF SetTop

\* No wake-up is lost: only the caller that finds the queue empty schedules, and a
\* dispatch that yields, a pause that ends or a function that nests keeps that enough.
THEOREM DispatchScheduled == Spec => []NoLostDispatch
<1>1. Init => NoLostDispatch BY DEF Init, NoLostDispatch
<1>2. ASSUME IInv, NoLostDispatch, [Next]_vars PROVE NoLostDispatch'
  <2>1. TypeOK BY <1>2 DEF IInv
  <2>2. ASSUME NEW t \in Threads, Schedule(t) PROVE NoLostDispatch'
    BY <2>2 DEF Schedule, NoLostDispatch
  <2>3. ASSUME NEW t \in Threads, WaitReturns(t) PROVE NoLostDispatch'
    <3>1. /\ UNCHANGED <<queue, timer, paused, stack>> /\ pc[t].at # "schedule"
          /\ pc' = [pc EXCEPT ![t] = Between]
      BY <2>3 DEF WaitReturns
    <3>2. \A u \in Threads : u # t => pc'[u] = pc[u] BY <2>1, <3>1 DEF TypeOK
    <3> QED BY <1>2, <3>1, <3>2 DEF NoLostDispatch
  <2>4. ASSUME NEW t \in Threads, NEW k \in Keys, CallOnMainThread(t, k) PROVE NoLostDispatch'
    <3>1. CASE queue = <<>>
      <4>1. pc'[t].at = "schedule" BY <2>1, <2>4, <3>1 DEF CallOnMainThread, TypeOK
      <4> QED BY <4>1 DEF NoLostDispatch
    <3>2. CASE queue # <<>> BY <1>2, <2>4, <3>2 DEF CallOnMainThread, NoLostDispatch
    <3> QED BY <3>1, <3>2
  <2>5. ASSUME NEW t \in Threads, NEW k \in Keys, CallOnMainThreadAndWait(t, k) PROVE NoLostDispatch'
    <3>1. Enqueued(NewCall(t, k, TRUE))
      BY <2>1, <2>5, EnqueueFields DEF CallOnMainThreadAndWait
    <3>2. t # Main BY <2>5, ConstAssumption DEF CallOnMainThreadAndWait
    <3>3. /\ pc[t].at = "idle" /\ timer' = (timer \/ Len(queue') = 1) /\ UNCHANGED <<paused, stack>>
          /\ pc' = [pc EXCEPT ![t] = [at |-> "wait", call |-> num + 1]]
      BY <2>5, <3>2 DEF CallOnMainThreadAndWait, Runs
    <3>4. \A u \in Threads : u # t => pc'[u] = pc[u] BY <2>1, <3>3 DEF TypeOK
    <3>5. CASE queue = <<>>
      <4>1. Len(queue') = 1 BY <3>1, <3>5 DEF Enqueued
      <4> QED BY <3>3, <4>1 DEF NoLostDispatch
    <3>6. CASE queue # <<>> BY <1>2, <3>3, <3>4, <3>6 DEF NoLostDispatch
    <3> QED BY <3>5, <3>6
  <2>6. ASSUME NEW k \in Keys, CancelCallOnMainThread(k) PROVE NoLostDispatch'
    <3>1. PICK C, f : Filtered(k, C, f) BY <2>1, <2>6, CancelFilters
    <3>2. CASE queue' # <<>>
      <4>1. C # 0 BY <3>1, <3>2, EmptySeq DEF Filtered
      <4>2. 1 \in 1..C /\ f[1] \in Kept(k) BY <3>1, <4>1 DEF Filtered
      <4>3. Len(queue) # 0 BY <4>2 DEF Kept
      <4>4. queue # <<>> BY <4>3
      <4> QED BY <1>2, <2>6, <4>4 DEF CancelCallOnMainThread, NoLostDispatch
    <3>3. CASE queue' = <<>> BY <3>3 DEF NoLostDispatch
    <3> QED BY <3>2, <3>3
  <2>7. ASSUME NEW b \in BOOLEAN, SetMainThreadCallbacksPaused(b) PROVE NoLostDispatch'
    BY <2>7 DEF SetMainThreadCallbacksPaused, NoLostDispatch
  <2>8. CASE TimerFires
    <3>1. CASE paused BY <2>8, <3>1 DEF TimerFires, NoLostDispatch
    <3>2. CASE ~paused
      <4>1. stack' # <<>>
        BY <2>1, <2>8, <3>2, AppendProperties DEF TimerFires, TypeOK
      <4> QED BY <4>1 DEF NoLostDispatch
    <3> QED BY <3>1, <3>2
  <2>9. CASE Take \/ FunctionReturns \/ Signal \/ Continues
    <3>1. stack # <<>> /\ \E c, a : SetTop(c, a)
      BY <2>9 DEF Take, FunctionReturns, Signal, Continues, In
    <3>2. stack' # <<>> BY <2>1, <3>1, SetTopNotEmpty
    <3> QED BY <3>2 DEF NoLostDispatch
  <2>10. CASE TakesNothing BY <2>10 DEF TakesNothing, NoLostDispatch
  <2>11. CASE Yields BY <2>11 DEF Yields, NoLostDispatch
  <2>12. CASE UNCHANGED vars BY <1>2, <2>12 DEF vars, NoLostDispatch
  <2> QED
    BY <1>2, <2>2, <2>3, <2>4, <2>5, <2>6, <2>7, <2>8, <2>9, <2>10, <2>11, <2>12 DEF Next, Dispatch
<1> QED BY <1>1, <1>2, QueueAndStack, PTL DEF Spec

----------------------------------------------------------------------------
(* The callers that wait.                                                  *)

\* The caller of n is there, after the step.
Stays(n) == pc'[calls'[n].by] = [at |-> "wait", call |-> n]

\* WaitInv after a step, call by call.
LEMMA WaitInvPrime ==
    ASSUME \A n \in 1..num' : calls'[n].sync =>
             /\ calls'[n].state \in {"queued", "running"} => Stays(n)
             /\ \A i \in 1..Len(stack') : stack'[i].at = "signal" /\ stack'[i].call = n => Stays(n)
    PROVE  WaitInv'
BY DEF WaitInv, Waits, Stays

\* A step that starts, ends and signals nothing, and in which nobody who waits
\* stops waiting.
LEMMA WaitUnmoved ==
    ASSUME WaitInv, num' = num,
           \A n \in 1..num : calls[n].sync => calls'[n] = calls[n],
           \A n \in 1..num : calls'[n].sync => calls[n].sync,
           \A t, n : Waits(t, n) => pc'[t] = [at |-> "wait", call |-> n],
           \A n : (\E i \in 1..Len(stack') : stack'[i].at = "signal" /\ stack'[i].call = n) =>
                  \E i \in 1..Len(stack) : stack[i].at = "signal" /\ stack[i].call = n
    PROVE  WaitInv'
<1> SUFFICES ASSUME NEW n \in 1..num', calls'[n].sync
             PROVE  /\ calls'[n].state \in {"queued", "running"} => Stays(n)
                    /\ \A i \in 1..Len(stack') :
                         stack'[i].at = "signal" /\ stack'[i].call = n => Stays(n)
  BY WaitInvPrime
<1>1. n \in 1..num /\ calls[n].sync /\ calls'[n] = calls[n] OBVIOUS
<1>2. calls[n].state \in {"queued", "running"} => Waits(calls[n].by, n) BY <1>1 DEF WaitInv
<1>3. (\E i \in 1..Len(stack) : stack[i].at = "signal" /\ stack[i].call = n) => Waits(calls[n].by, n)
  BY <1>1 DEF WaitInv
<1>4. Waits(calls[n].by, n) => Stays(n) BY <1>1 DEF Stays
<1>5. calls'[n].state \in {"queued", "running"} => Stays(n) BY <1>1, <1>2, <1>4
<1>6. ASSUME NEW i \in 1..Len(stack'), stack'[i].at = "signal", stack'[i].call = n PROVE Stays(n)
  <2>1. \E j \in 1..Len(stack') : stack'[j].at = "signal" /\ stack'[j].call = n BY <1>6
  <2>2. \E j \in 1..Len(stack) : stack[j].at = "signal" /\ stack[j].call = n BY <2>1
  <2> QED BY <2>2, <1>3, <1>4
<1> QED BY <1>5, <1>6

\* The thread whose place changes did not wait.
LEMMA WaitsKept ==
    ASSUME TypeOK, NEW t \in Threads, NEW p \in Place, pc[t].at # "wait", pc' = [pc EXCEPT ![t] = p]
    PROVE  \A u, n : Waits(u, n) => pc'[u] = [at |-> "wait", call |-> n]
<1> SUFFICES ASSUME NEW u, NEW n, pc[u] = [at |-> "wait", call |-> n] PROVE pc'[u] = pc[u]
  BY DEF Waits
<1>1. u # t OBVIOUS
<1>2. pc \in [Threads -> Place] BY DEF TypeOK
<1> QED BY <1>1, <1>2

LEMMA StepWaitInv ==
    ASSUME IInv, WaitInv, [Next]_vars
    PROVE  WaitInv'
<1>1. TypeOK /\ StackInv /\ PcInv BY DEF IInv
<1>2. Between \in Place BY DEF Between, Place
<1>3. ASSUME NEW t \in Threads, Schedule(t) \/ WaitReturns(t) PROVE WaitInv'
  <2>1. pc[t].at # "wait" /\ pc' = [pc EXCEPT ![t] = Between] /\ UNCHANGED <<calls, num, stack>>
    BY <1>3 DEF Schedule, WaitReturns
  <2>2. \A u, n : Waits(u, n) => pc'[u] = [at |-> "wait", call |-> n] BY <1>1, <1>2, <2>1, WaitsKept
  <2> QED BY <2>1, <2>2, WaitUnmoved
<1>4. ASSUME NEW t \in Threads, NEW k \in Keys, CallOnMainThread(t, k) PROVE WaitInv'
  <2>1. Enqueued(NewCall(t, k, FALSE)) BY <1>1, <1>4, EnqueueFields DEF CallOnMainThread
  <2>2. \A u, n : Waits(u, n) => pc'[u] = [at |-> "wait", call |-> n]
    <3>1. pc[t].at # "wait" /\ stack' = stack
      BY <1>1, <1>4 DEF CallOnMainThread, Runs, MainRuns
    <3>2. [at |-> "schedule", call |-> 0] \in Place BY DEF Place
    <3>3. pc' = pc \/ pc' = [pc EXCEPT ![t] = [at |-> "schedule", call |-> 0]]
      BY <1>4 DEF CallOnMainThread
    <3>4. CASE pc' = pc BY <3>4 DEF Waits
    <3>5. CASE pc' = [pc EXCEPT ![t] = [at |-> "schedule", call |-> 0]]
      <4>1. \A u, n : Waits(u, n) => pc'[u] = [at |-> "wait", call |-> n] BY <1>1, <3>1, <3>2, <3>5, WaitsKept
      <4> QED BY <4>1 DEF Waits
    <3> QED BY <3>3, <3>4, <3>5
  <2>3. /\ \A n \in 1..num : calls'[n] = calls[n]
        /\ ~calls'[num + 1].sync
        /\ \A n \in 1..num' : n \in 1..num \/ n = num + 1
    BY <2>1 DEF Enqueued, NewCall
  <2>4. stack' = stack BY <1>4 DEF CallOnMainThread
  <2> SUFFICES ASSUME NEW n \in 1..num', calls'[n].sync
               PROVE  /\ calls'[n].state \in {"queued", "running"} => Stays(n)
                      /\ \A i \in 1..Len(stack') :
                           stack'[i].at = "signal" /\ stack'[i].call = n => Stays(n)
    BY WaitInvPrime
  <2>5. n \in 1..num /\ calls'[n] = calls[n] BY <2>3
  <2>6. Waits(calls[n].by, n) => Stays(n) BY <2>2, <2>5 DEF Stays
  <2> QED BY <2>4, <2>5, <2>6 DEF WaitInv
<1>5. ASSUME NEW t \in Threads, NEW k \in Keys, CallOnMainThreadAndWait(t, k) PROVE WaitInv'
  <2>1. Enqueued(NewCall(t, k, TRUE)) BY <1>1, <1>5, EnqueueFields DEF CallOnMainThreadAndWait
  <2>2. t # Main BY <1>5, ConstAssumption DEF CallOnMainThreadAndWait
  <2>3. pc[t].at = "idle" /\ stack' = stack
    BY <1>5, <2>2 DEF CallOnMainThreadAndWait, Runs
  <2>4. \A u \in Threads : pc'[u] = IF u = t THEN [at |-> "wait", call |-> num + 1] ELSE pc[u]
    BY <1>1, <1>5 DEF CallOnMainThreadAndWait, TypeOK
  <2>5. /\ \A n \in 1..num : calls'[n] = calls[n]
        /\ num \in Nat
        /\ calls'[num + 1] = NewCall(t, k, TRUE)
        /\ \A n \in 1..num' : n \in 1..num \/ n = num + 1
    BY <2>1 DEF Enqueued
  <2> SUFFICES ASSUME NEW n \in 1..num', calls'[n].sync
               PROVE  /\ calls'[n].state \in {"queued", "running"} => Stays(n)
                      /\ \A i \in 1..Len(stack') :
                           stack'[i].at = "signal" /\ stack'[i].call = n => Stays(n)
    BY WaitInvPrime
  <2>6. CASE n = num + 1 BY <2>4, <2>5, <2>6 DEF NewCall, Stays
  <2>7. CASE n \in 1..num
    <3>1. calls'[n] = calls[n] /\ calls[n] \in Call /\ calls[n].by \in Threads
      BY <1>1, <2>5, <2>7, Elements DEF Call
    <3>2. Waits(calls[n].by, n) => Stays(n)
      BY <2>3, <2>4, <3>1 DEF Waits, Stays
    <3> QED BY <2>3, <2>7, <3>1, <3>2 DEF WaitInv
  <2> QED BY <2>5, <2>6, <2>7
<1>6. ASSUME NEW k \in Keys, CancelCallOnMainThread(k) PROVE WaitInv'
  <2>1. UNCHANGED <<num, stack, pc>> BY <1>6 DEF CancelCallOnMainThread
  <2>2. \A n \in 1..num : /\ calls[n].sync => calls'[n] = calls[n]
                          /\ calls'[n].sync => calls[n].sync
    BY <1>1, <1>6, CancelStates DEF Cancels
  <2>3. \A u, n : Waits(u, n) => pc'[u] = [at |-> "wait", call |-> n] BY <2>1 DEF Waits
  <2> QED BY <2>1, <2>2, <2>3, WaitUnmoved
<1>7. ASSUME NEW b \in BOOLEAN, SetMainThreadCallbacksPaused(b) PROVE WaitInv'
  BY <1>7 DEF SetMainThreadCallbacksPaused, WaitInv, Waits
<1>8. CASE TimerFires
  <2>1. UNCHANGED <<calls, num, pc>> BY <1>8 DEF TimerFires
  <2>2. \A n : (\E i \in 1..Len(stack') : stack'[i].at = "signal" /\ stack'[i].call = n) =>
                  \E i \in 1..Len(stack) : stack[i].at = "signal" /\ stack[i].call = n
    <3>1. CASE paused BY <1>8, <3>1 DEF TimerFires
    <3>2. CASE ~paused
      <4> DEFINE f == [call |-> 0, at |-> "take"]
      <4>1. f \in Frame /\ f.at # "signal" BY DEF Frame
      <4>2. stack' = Append(stack, f) /\ stack \in Seq(Frame) BY <1>1, <1>8, <3>2 DEF TimerFires, TypeOK
      <4> HIDE DEF f
      <4>3. /\ Len(stack') = Len(stack) + 1 /\ Len(stack) \in Nat
            /\ \A i \in 1..Len(stack) : stack'[i] = stack[i]
            /\ stack'[Len(stack) + 1] = f
        BY <4>1, <4>2, AppendProperties
      <4>4. \A i \in 1..Len(stack') : i \in 1..Len(stack) \/ i = Len(stack) + 1 BY <4>3
      <4> QED BY <4>1, <4>3, <4>4
    <3> QED BY <3>1, <3>2
  <2>3. \A u, n : Waits(u, n) => pc'[u] = [at |-> "wait", call |-> n] BY <2>1 DEF Waits
  <2> QED BY <2>1, <2>2, <2>3, WaitUnmoved
<1>9. CASE TakesNothing \/ Yields
  <2>1. UNCHANGED <<calls, num, pc>> /\ stack # <<>> /\ stack' = Pop
    BY <1>9 DEF TakesNothing, Yields, In
  <2>2. /\ Len(stack) \in Nat /\ Len(stack') = Len(stack) - 1
        /\ \A i \in 1..(Len(stack) - 1) : stack'[i] = stack[i]
    BY <1>1, <2>1, PopFields
  <2>3. \A i \in 1..Len(stack') : i \in 1..Len(stack) /\ stack'[i] = stack[i] BY <2>2
  <2>4. \A u, n : Waits(u, n) => pc'[u] = [at |-> "wait", call |-> n] BY <2>1 DEF Waits
  <2>5. \A n : (\E i \in 1..Len(stack') : stack'[i].at = "signal" /\ stack'[i].call = n) =>
                  \E i \in 1..Len(stack) : stack[i].at = "signal" /\ stack[i].call = n
    BY <2>3
  <2> QED BY <2>1, <2>4, <2>5, WaitUnmoved
<1>10. CASE Continues
  <2>1. UNCHANGED <<calls, num, pc>> /\ stack # <<>> /\ SetTop(0, "take")
    BY <1>10 DEF Continues, In
  <2>2. PICK N \in Nat : Moved(N, 0, "take") BY <1>1, <2>1, SetTopMoves DEF ATs
  <2>3. \A u, n : Waits(u, n) => pc'[u] = [at |-> "wait", call |-> n] BY <2>1 DEF Waits
  <2>4. \A n : (\E i \in 1..Len(stack') : stack'[i].at = "signal" /\ stack'[i].call = n) =>
                  \E i \in 1..Len(stack) : stack[i].at = "signal" /\ stack[i].call = n
    BY <2>2 DEF Moved
  <2> QED BY <2>1, <2>3, <2>4, WaitUnmoved
<1>11. CASE Take
  <2> DEFINE h == Head(queue)
  <2>1. /\ queue # <<>> /\ SetState(h, "running") /\ UNCHANGED <<num, pc>>
        /\ stack # <<>> /\ SetTop(h, "run")
    BY <1>11 DEF Take, In
  <2>2. h \in 1..num
    BY <1>1, <2>1, HeadFields
  <2>3. num \in Nat /\ num <= MaxCalls BY <1>1, Elements
  <2>4. h \in Numbers \cup {0} BY <2>2, <2>3, ConstAssumption DEF Numbers
  <2>5. PICK N \in Nat : Moved(N, h, "run") BY <1>1, <2>1, <2>4, SetTopMoves DEF ATs
  <2>6. \A i \in 1..Len(stack') : stack'[i].at # "signal"
    BY <1>1, <2>5 DEF Moved, StackInv
  <2>7. calls[h].state = "queued" BY <2>1, HeadFields DEF IInv, QueueInv
  <2>8. /\ \A m \in 1..num : m # h => calls'[m] = calls[m]
        /\ \A m \in 1..num : calls'[m].by = calls[m].by /\ calls'[m].sync = calls[m].sync
    BY <1>1, <2>1, <2>2, SetStateFields
  <2>9. \A m \in 1..num : calls'[m].state \in {"queued", "running"} =>
                             calls[m].state \in {"queued", "running"}
    BY <2>7, <2>8
  <2> HIDE DEF h
  <2>10. \A m \in 1..num : Waits(calls[m].by, m) => Stays(m) BY <2>1, <2>8 DEF Waits, Stays
  <2> QED BY <2>1, <2>6, <2>8, <2>9, <2>10, WaitInvPrime DEF WaitInv
<1>12. CASE FunctionReturns
  <2> DEFINE c == Top.call
             a == IF calls[c].sync THEN "signal" ELSE "check"
  <2>1. /\ In("run") /\ stack # <<>> /\ SetState(c, "ended") /\ SetTop(c, a)
        /\ UNCHANGED <<num, pc>>
    BY <1>12 DEF FunctionReturns, MainRuns
  <2>2. c \in Numbers \cup {0} BY <1>1, <2>1, PopFields DEF Frame
  <2>3. a \in ATs BY DEF ATs
  <2>4. PICK N \in Nat : Moved(N, c, a) BY <1>1, <2>1, <2>2, <2>3, SetTopMoves
  <2>5. c \in 1..num /\ calls[c].state = "running"
    BY <1>1, <2>1, <2>4 DEF Moved, StackInv, In
  <2>6. /\ \A m \in 1..num : m # c => calls'[m] = calls[m]
        /\ \A m \in 1..num : calls'[m].by = calls[m].by /\ calls'[m].sync = calls[m].sync
        /\ calls'[c].state = "ended"
    BY <1>1, <2>1, <2>5, SetStateFields
  <2>7. \A i \in 1..Len(stack') : stack'[i].at = "signal" => stack'[i].call = c
    BY <1>1, <2>4 DEF Moved, StackInv
  <2> HIDE DEF c, a
  <2>8. \A m \in 1..num : calls'[m].state \in {"queued", "running"} => calls'[m] = calls[m]
    BY <2>6
  <2>9. \A m \in 1..num : Waits(calls[m].by, m) => Stays(m) BY <2>1, <2>6 DEF Waits, Stays
  <2> QED BY <2>1, <2>5, <2>6, <2>7, <2>8, <2>9, WaitInvPrime DEF WaitInv
<1>13. CASE Signal
  <2> DEFINE c == Top.call
  <2>1. /\ In("signal") /\ stack # <<>> /\ SetTop(c, "check") /\ UNCHANGED <<calls, num>>
        /\ pc' = [t \in Threads |-> IF Waits(t, c) THEN [pc[t] EXCEPT !.at = "woken"] ELSE pc[t]]
    BY <1>13 DEF Signal, In
  <2>2. c \in Numbers \cup {0} BY <1>1, <2>1, PopFields DEF Frame
  <2>3. PICK N \in Nat : Moved(N, c, "check") BY <1>1, <2>1, <2>2, SetTopMoves DEF ATs
  <2>4. calls[c].state = "ended"
    BY <1>1, <2>1, <2>3 DEF Moved, StackInv, In
  <2>5. \A i \in 1..Len(stack') : stack'[i].at # "signal"
    BY <1>1, <2>3 DEF Moved, StackInv
  <2> HIDE DEF c
  <2> SUFFICES ASSUME NEW n \in 1..num, calls[n].sync, calls[n].state \in {"queued", "running"}
               PROVE  Stays(n)
    BY <2>1, <2>5, WaitInvPrime
  <2>6. Waits(calls[n].by, n) /\ n # c BY <2>4 DEF WaitInv
  <2>7. calls[n].by \in Threads BY <1>1, Elements DEF Call
  <2>8. ~Waits(calls[n].by, c) BY <2>6 DEF Waits
  <2> QED BY <2>1, <2>6, <2>7, <2>8 DEF Waits, Stays
<1>14. CASE UNCHANGED vars BY <1>14 DEF vars, WaitInv, Waits
<1> QED
  BY <1>3, <1>4, <1>5, <1>6, <1>7, <1>8, <1>9, <1>10, <1>11, <1>12, <1>13, <1>14
  DEF Next, Dispatch

\* Every condition that dispatch signals is one that its caller is still waiting
\* on: the caller's frame, where the condition lives, exists.
THEOREM SignalSafe == Spec => []SignalFindsWaiter
<1>1. Init => WaitInv
  <2>1. 1..0 = {} OBVIOUS
  <2> QED BY <2>1 DEF Init, WaitInv
<1>2. IInv /\ WaitInv /\ [Next]_vars => WaitInv' BY StepWaitInv
<1>3. ASSUME IInv, WaitInv PROVE SignalFindsWaiter
  <2>1. \A i \in 1..Len(queue) : queue[i] \in 1..num /\ calls[queue[i]].state = "queued"
    BY <1>3, Elements DEF IInv, QueueInv
  <2>2. \A i \in 1..Len(queue) : calls[queue[i]].sync => Waits(calls[queue[i]].by, queue[i])
    BY <1>3, <2>1 DEF WaitInv
  <2>3. \A i \in 1..Len(stack) : stack[i].at \in {"run", "signal"} =>
           /\ stack[i].call \in 1..num
           /\ stack[i].at = "run" => calls[stack[i].call].state = "running"
    BY <1>3 DEF IInv, StackInv
  <2>4. \A i \in 1..Len(stack) :
         (stack[i].at \in {"run", "signal"} /\ calls[stack[i].call].sync) =>
             Waits(calls[stack[i].call].by, stack[i].call)
    BY <1>3, <2>3 DEF WaitInv
  <2> QED BY <2>2, <2>4 DEF SignalFindsWaiter
<1> QED BY <1>1, <1>2, <1>3, QueueAndStack, PTL DEF Spec

----------------------------------------------------------------------------
(* Refinement.                                                              *)

\* Where a thread is decides what it waits for in CallOrder.
LEMMA WaitingOf ==
    ASSUME NEW t \in Threads
    PROVE  /\ Waiting[t] = IF pc[t].at \in {"wait", "woken"} THEN pc[t].call ELSE 0
           /\ Waiting'[t] = IF pc'[t].at \in {"wait", "woken"} THEN pc'[t].call ELSE 0
BY DEF Waiting

\* Threads that wait for the same before and after leave CallOrder alone.
LEMMA WaitingUnchanged ==
    ASSUME \A t \in Threads :
             \/ pc'[t] = pc[t]
             \/ pc[t].at \notin {"wait", "woken"} /\ pc'[t].at \notin {"wait", "woken"}
             \/ pc[t].at = "wait" /\ pc'[t].at = "woken" /\ pc'[t].call = pc[t].call
    PROVE  Waiting' = Waiting
<1>1. \A t \in Threads : (IF pc'[t].at \in {"wait", "woken"} THEN pc'[t].call ELSE 0)
                       = (IF pc[t].at \in {"wait", "woken"} THEN pc[t].call ELSE 0)
  OBVIOUS
<1> QED BY <1>1 DEF Waiting

\* The calls of CallOrder are those counted.
LEMMA MadeIs ==
    ASSUME TypeOK PROVE Abstract!Made = 1..num
BY DEF TypeOK, Abstract!Made

\* A call is a Make.
LEMMA CallIsMake ==
    ASSUME IInv, NEW t \in Threads, NEW k \in Keys, CallOnMainThread(t, k)
    PROVE  Abstract!Make(t, k, FALSE)
<1>1. TypeOK BY DEF IInv
<1>2. pc[t].at = "idle" /\ Enqueue(t, k, FALSE)
  BY DEF CallOnMainThread, Runs, MainRuns
<1>3. Waiting[t] = 0 BY <1>2, WaitingOf
<1>4. Waiting' = Waiting
  <2>1. \A u \in Threads :
          pc'[u] = pc[u] \/ (pc[u].at \notin {"wait", "woken"} /\ pc'[u].at \notin {"wait", "woken"})
    BY <1>1, <1>2 DEF CallOnMainThread, TypeOK
  <2> QED BY <2>1, WaitingUnchanged
<1> QED BY <1>2, <1>3, <1>4 DEF Enqueue, Abstract!Make

\* A call that waits is a Make.
LEMMA CallAndWaitIsMake ==
    ASSUME IInv, NEW t \in Threads, NEW k \in Keys, CallOnMainThreadAndWait(t, k)
    PROVE  Abstract!Make(t, k, TRUE)
<1>1. TypeOK BY DEF IInv
<1>2. t # Main /\ Enqueue(t, k, TRUE) /\ pc' = [pc EXCEPT ![t] = [at |-> "wait", call |-> num + 1]]
  BY ConstAssumption DEF CallOnMainThreadAndWait
<1>3. pc[t].at = "idle" BY <1>2 DEF CallOnMainThreadAndWait, Runs
<1>4. Waiting[t] = 0 BY <1>3, WaitingOf
<1>5. Len(calls') = num + 1
  <2>1. num \in Nat BY <1>1, Elements
  <2>2. calls \in Seq(Call) /\ Len(calls) = num
    BY <1>1, <2>1, SeqDef, LenProperties DEF TypeOK
  <2>3. [key |-> k, by |-> t, sync |-> TRUE, state |-> "queued"] \in Call BY DEF Call
  <2> QED BY <1>2, <2>2, <2>3, AppendProperties DEF Enqueue
<1>6. Waiting' = [Waiting EXCEPT ![t] = Len(calls')]
  <2>1. \A u \in Threads : pc'[u] = IF u = t THEN [at |-> "wait", call |-> num + 1] ELSE pc[u]
    BY <1>1, <1>2 DEF TypeOK
  <2>2. \A u \in Threads : Waiting'[u] = IF u = t THEN num + 1 ELSE Waiting[u]
    BY <2>1 DEF Waiting
  <2>3. Waiting = [u \in Threads |-> Waiting[u]] /\ Waiting' = [u \in Threads |-> Waiting'[u]]
    BY DEF Waiting
  <2> HIDE DEF Waiting
  <2> QED BY <1>5, <2>2, <2>3
<1> QED BY <1>2, <1>4, <1>6 DEF Enqueue, Abstract!Make

\* A wait that returns is a GoOn.
LEMMA WaitReturnsIsGoOn ==
    ASSUME IInv, NEW t \in Threads, WaitReturns(t)
    PROVE  Abstract!GoOn(t)
<1>1. TypeOK /\ PcInv BY DEF IInv
<1>2. pc[t].at = "woken" /\ pc' = [pc EXCEPT ![t] = Between] /\ calls' = calls
  BY DEF WaitReturns
<1>3. Waiting[t] = pc[t].call BY <1>2, WaitingOf
<1>4. pc[t].call \in 1..num /\ calls[pc[t].call].state = "ended" BY <1>1, <1>2 DEF PcInv
<1>5. Waiting' = [Waiting EXCEPT ![t] = 0]
  <2>1. \A u \in Threads : pc'[u] = IF u = t THEN Between ELSE pc[u]
    BY <1>1, <1>2 DEF TypeOK
  <2>2. \A u \in Threads : Waiting'[u] = IF u = t THEN 0 ELSE Waiting[u]
    BY <2>1 DEF Waiting, Between
  <2>3. Waiting = [u \in Threads |-> Waiting[u]] /\ Waiting' = [u \in Threads |-> Waiting'[u]]
    BY DEF Waiting
  <2> HIDE DEF Waiting
  <2> QED BY <2>2, <2>3
<1> QED BY <1>1, <1>2, <1>3, <1>4, <1>5, MadeIs DEF Abstract!GoOn

\* A cancel is a Cancel.
LEMMA CancelIsCancel ==
    ASSUME IInv, NEW k \in Keys, CancelCallOnMainThread(k)
    PROVE  Abstract!Cancel(k)
<1>1. Waiting' = Waiting BY DEF CancelCallOnMainThread, Waiting
<1>2. calls' = [n \in DOMAIN calls |->
                 IF calls[n].state = "queued" /\ calls[n].key = k /\ ~calls[n].sync
                 THEN [calls[n] EXCEPT !.state = "cancelled"] ELSE calls[n]]
  BY DEF CancelCallOnMainThread, Cancels
<1> QED BY <1>1, <1>2 DEF Abstract!Cancel, Abstract!Made

\* A call taken from the queue is a Begin: nothing older is queued.
LEMMA TakeIsBegin ==
    ASSUME IInv, Take
    PROVE  \E n \in Abstract!Made : Abstract!Begin(n)
<1> DEFINE h == Head(queue)
<1>1. TypeOK /\ QueueInv BY DEF IInv
<1>2. queue # <<>> /\ SetState(h, "running") /\ pc' = pc BY DEF Take
<1>3. /\ Len(queue) \in Nat \ {0} /\ h = queue[1]
      /\ \A i \in 1..Len(queue) : queue[i] \in 1..num
  BY <1>1, <1>2, HeadFields
<1>4. h \in 1..num /\ calls[h].state = "queued" BY <1>1, <1>3 DEF QueueInv
<1>5. \A m \in 1..num : m < h => calls[m].state # "queued"
  <2> SUFFICES ASSUME NEW m \in 1..num, m < h, calls[m].state = "queued" PROVE FALSE OBVIOUS
  <2>1. PICK i \in 1..Len(queue) : queue[i] = m BY <1>1 DEF QueueInv
  <2>2. 1 \in 1..Len(queue) /\ (i = 1 \/ 1 < i) BY <1>3
  <2>3. h <= m BY <2>1, <2>2, <1>1, <1>3, <1>4 DEF QueueInv
  <2>4. num \in Nat BY <1>1, Elements
  <2> QED BY <2>3, <2>4, <1>4
<1>6. Waiting' = Waiting BY <1>2 DEF Waiting
<1>7. calls' = [calls EXCEPT ![h].state = "running"] BY <1>2 DEF SetState
<1>8. Abstract!Begin(h) BY <1>1, <1>4, <1>5, <1>6, <1>7, MadeIs DEF Abstract!Begin
<1> QED BY <1>1, <1>4, <1>8, MadeIs

\* A function that returns is an End: nothing younger runs.
LEMMA FunctionReturnsIsEnd ==
    ASSUME IInv, FunctionReturns
    PROVE  \E n \in Abstract!Made : Abstract!End(n)
<1> DEFINE c == Top.call
<1>1. TypeOK /\ StackInv BY DEF IInv
<1>2. In("run") /\ SetState(c, "ended") /\ pc' = pc BY DEF FunctionReturns, MainRuns
<1>3. /\ Len(stack) \in Nat \ {0} /\ Top = stack[Len(stack)] /\ Top.at = "run"
  BY <1>1, <1>2, InFields
<1>4. c \in 1..num /\ calls[c].state = "running" BY <1>1, <1>3 DEF StackInv
<1>5. \A m \in 1..num : m > c => calls[m].state # "running"
  <2> SUFFICES ASSUME NEW m \in 1..num, m > c, calls[m].state = "running" PROVE FALSE OBVIOUS
  <2>1. PICK i \in 1..Len(stack) : stack[i].at = "run" /\ stack[i].call = m BY <1>1 DEF StackInv
  <2>2. Len(stack) \in 1..Len(stack) /\ (i = Len(stack) \/ i < Len(stack)) BY <1>3
  <2>3. m <= c BY <2>1, <2>2, <1>1, <1>3, <1>4 DEF StackInv
  <2>4. num \in Nat BY <1>1, Elements
  <2> QED BY <2>3, <2>4, <1>4
<1>6. Waiting' = Waiting BY <1>2 DEF Waiting
<1>7. calls' = [calls EXCEPT ![c].state = "ended"] BY <1>2 DEF SetState
<1> HIDE DEF c
<1>8. Abstract!End(c) BY <1>1, <1>4, <1>5, <1>6, <1>7, MadeIs DEF Abstract!End
<1> QED BY <1>1, <1>4, <1>8, MadeIs

\* Every step is a step of CallOrder or leaves its variables alone.
LEMMA StepRefines ==
    ASSUME IInv, [Next]_vars
    PROVE  [Abstract!Next]_(Abstract!vars)
<1>1. TypeOK BY DEF IInv
<1>2. ASSUME NEW t \in Threads, WaitReturns(t) PROVE Abstract!Next
  BY <1>2, WaitReturnsIsGoOn DEF Abstract!Next
<1>3. ASSUME NEW t \in Threads, NEW k \in Keys, CallOnMainThread(t, k) PROVE Abstract!Next
  BY <1>3, CallIsMake DEF Abstract!Next
<1>4. ASSUME NEW t \in Threads, NEW k \in Keys, CallOnMainThreadAndWait(t, k) PROVE Abstract!Next
  BY <1>4, CallAndWaitIsMake DEF Abstract!Next
<1>5. ASSUME NEW k \in Keys, CancelCallOnMainThread(k) PROVE Abstract!Next
  BY <1>5, CancelIsCancel DEF Abstract!Next
<1>6. CASE Take BY <1>6, TakeIsBegin DEF Abstract!Next
<1>7. CASE FunctionReturns BY <1>7, FunctionReturnsIsEnd DEF Abstract!Next
<1>8. ASSUME NEW t \in Threads, Schedule(t) PROVE UNCHANGED Abstract!vars
  <2>1. pc[t].at = "schedule" /\ pc' = [pc EXCEPT ![t] = Between] /\ calls' = calls
    BY <1>8 DEF Schedule
  <2>2. \A u \in Threads :
          pc'[u] = pc[u] \/ (pc[u].at \notin {"wait", "woken"} /\ pc'[u].at \notin {"wait", "woken"})
    BY <1>1, <2>1 DEF TypeOK, Between
  <2> QED BY <2>1, <2>2, WaitingUnchanged DEF Abstract!vars
<1>9. CASE Signal
  <2>1. /\ calls' = calls
        /\ pc' = [t \in Threads |->
                    IF Waits(t, Top.call) THEN [pc[t] EXCEPT !.at = "woken"] ELSE pc[t]]
    BY <1>9 DEF Signal
  <2>2. \A t \in Threads : /\ [pc[t] EXCEPT !.at = "woken"].at = "woken"
                           /\ [pc[t] EXCEPT !.at = "woken"].call = pc[t].call
    BY <1>1 DEF TypeOK, Place
  <2>3. \A u \in Threads : pc'[u] = pc[u]
          \/ (pc[u].at = "wait" /\ pc'[u].at = "woken" /\ pc'[u].call = pc[u].call)
    BY <2>1, <2>2 DEF Waits
  <2> QED BY <2>1, <2>3, WaitingUnchanged DEF Abstract!vars
<1>10. CASE \/ \E b \in BOOLEAN : SetMainThreadCallbacksPaused(b)
            \/ TimerFires \/ TakesNothing \/ Continues \/ Yields \/ UNCHANGED vars
  <2>1. calls' = calls /\ pc' = pc
    BY <1>10 DEF SetMainThreadCallbacksPaused, TimerFires, TakesNothing, Continues, Yields, vars
  <2> QED BY <2>1 DEF Abstract!vars, Waiting
<1> QED
  BY <1>2, <1>3, <1>4, <1>5, <1>6, <1>7, <1>8, <1>9, <1>10
  DEF Next, Dispatch

\* The queue, the timer, the stack of dispatches and the conditions implement the
\* abstract order of calls.
THEOREM Refinement == Spec => ImplementsCallOrder
<1>1. Init => Abstract!Init
  BY DEF Init, Between, Waiting, Abstract!Init
<1>2. IInv /\ [Next]_vars => [Abstract!Next]_(Abstract!vars) BY StepRefines
<1> QED BY <1>1, <1>2, QueueAndStack, PTL DEF Spec, ImplementsCallOrder, Abstract!Spec
==============================================================================

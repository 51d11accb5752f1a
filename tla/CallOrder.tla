------------------------------ MODULE CallOrder ------------------------------
(***************************************************************************)
(* What callOnMainThread() and callOnMainThreadAndWait() promise, without  *)
(* queue, mutex, timer or conditions: functions start in the order of the  *)
(* calls, one at a time except that a function may run others before it    *)
(* returns, a cancelled call never starts, and a caller that waits goes on *)
(* only after its own function has ended.                                  *)
(***************************************************************************)
EXTENDS Naturals, Sequences

CONSTANTS Threads, Main, Keys

VARIABLES
    calls,     \* all calls, in the order they were made
    waiting    \* for each thread the call it waits for, 0 if none

vars == <<calls, waiting>>

Made == DOMAIN calls

Init ==
    /\ calls = <<>>
    /\ waiting = [t \in Threads |-> 0]

\* Thread t calls; only other threads than the main thread wait.
Make(t, k, sync) ==
    /\ waiting[t] = 0
    /\ sync => t # Main
    /\ calls' = Append(calls, [key |-> k, by |-> t, sync |-> sync, state |-> "queued"])
    /\ waiting' = IF sync THEN [waiting EXCEPT ![t] = Len(calls')] ELSE waiting

\* The earliest call that has not started starts.
Begin(n) ==
    /\ calls[n].state = "queued"
    /\ \A m \in Made : m < n => calls[m].state # "queued"
    /\ calls' = [calls EXCEPT ![n].state = "running"]
    /\ UNCHANGED waiting

\* The innermost function returns.
End(n) ==
    /\ calls[n].state = "running"
    /\ \A m \in Made : m > n => calls[m].state # "running"
    /\ calls' = [calls EXCEPT ![n].state = "ended"]
    /\ UNCHANGED waiting

GoOn(t) ==
    /\ waiting[t] \in Made
    /\ calls[waiting[t]].state = "ended"
    /\ waiting' = [waiting EXCEPT ![t] = 0]
    /\ UNCHANGED calls

\* Calls nobody waits for, with this function and context, are given up.
Cancel(k) ==
    /\ calls' = [n \in Made |->
                   IF calls[n].state = "queued" /\ calls[n].key = k /\ ~calls[n].sync
                   THEN [calls[n] EXCEPT !.state = "cancelled"] ELSE calls[n]]
    /\ UNCHANGED waiting

Next ==
    \/ \E t \in Threads, k \in Keys, sync \in BOOLEAN : Make(t, k, sync)
    \/ \E n \in Made : Begin(n) \/ End(n)
    \/ \E t \in Threads : GoOn(t)
    \/ \E k \in Keys : Cancel(k)

Spec == Init /\ [][Next]_vars
==============================================================================

------------------------------ MODULE Sleepers ------------------------------
(***************************************************************************)
(* What a delay of the kernel promises: a task that asks for d ticks sleeps *)
(* for exactly d ticks.  There is no tick counter here that could wrap.     *)
(***************************************************************************)
EXTENDS Integers

CONSTANTS Tasks, Delays

VARIABLE left    \* the ticks each task still has to sleep, 0 when it does not

Init == left = [t \in Tasks |-> 0]

Sleep(t, d) == left[t] = 0 /\ left' = [left EXCEPT ![t] = d]

TickPasses == left' = [t \in Tasks |-> IF left[t] > 0 THEN left[t] - 1 ELSE 0]

Next == TickPasses \/ \E t \in Tasks, d \in Delays : Sleep(t, d)

Spec == Init /\ [][Next]_left
=============================================================================

------------------------------- MODULE Mutex -------------------------------
(***************************************************************************)
(* What every lock of the engine promises: at most one thread holds it,    *)
(* and only the thread that holds it gives it back.                        *)
(***************************************************************************)
CONSTANTS Threads, None

VARIABLE holder

Init == holder = None

Acquire(t) == holder = None /\ holder' = t

Release(t) == holder = t /\ holder' = None

Next == \E t \in Threads : Acquire(t) \/ Release(t)

Spec == Init /\ [][Next]_holder
=============================================================================

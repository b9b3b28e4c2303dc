------------------------------ MODULE MCThreads ------------------------------
(***************************************************************************)
(* What the threads of a thread-safe build share, for TLC: a thin lock, or *)
(* a runtime that each thread creates one context after the other in.  The *)
(* two keep no state in common: part says which of them a behaviour is of. *)
(***************************************************************************)
EXTENDS ThinLock, JsRuntime

CONSTANT Parts

OneContextEach == [t \in Threads |-> t]

VARIABLE part

ThreadsNext == /\ UNCHANGED part
               /\ \/ part = "lock" /\ LockNext /\ UNCHANGED allVars
                  \/ part = "runtime" /\ LifeNext /\ UNCHANGED lockVars

ThreadsInit == part \in Parts /\ LockInit /\ LifeInit

ThreadsSpec == /\ ThreadsInit
               /\ [][ThreadsNext]_<<part, lockVars, allVars>>
               /\ LockFairness /\ LifeFairness
==============================================================================

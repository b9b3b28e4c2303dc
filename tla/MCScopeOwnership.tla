-------------------------- MODULE MCScopeOwnership --------------------------
(* Instances of ScopeOwnership for TLC.  A context is the pair of its thread *)
(* and a number.                                                             *)
EXTENDS ScopeOwnership

CONSTANTS t1, t2, t3, s1, s2

TwoThreads == {<<t1, 1>>, <<t2, 1>>}
ThreeThreads == TwoThreads \cup {<<t3, 1>>}

ThreadsOf(C) == [c \in C |-> c[1]]
ThreadOfTwo == ThreadsOf(TwoThreads)
ThreadOfThree == ThreadsOf(ThreeThreads)
=============================================================================

----------------------- MODULE MCControlMessageQueue -----------------------
(* ControlMessageQueue on a small instance: three threads that may all push *)
(* and pop.                                                                 *)
EXTENDS ControlMessageQueue, TLC

CONSTANTS t1, t2, t3

MCThreads == {t1, t2, t3}

(* The threads are interchangeable: any of them pushes and pops.            *)
MCSymmetry == Permutations(MCThreads)
=============================================================================

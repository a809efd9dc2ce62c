-------------------------- MODULE IteratedDataflow --------------------------
(***************************************************************************)
(* What the runtime promises to an application: a call of Spider::iterate  *)
(* executes every job of the graph exactly once, each after the jobs whose *)
(* data it reads, and two iterations do not overlap.  Nothing is said of   *)
(* processing elements, messages or stamps.                                *)
(***************************************************************************)
EXTENDS Naturals

CONSTANTS Jobs,  \* the jobs of the graph
          preds  \* preds[j]: the jobs whose data job j reads

VARIABLES iteration, \* how many iterations have begun
          started,   \* started[j]: how often job j has begun to execute
          ended      \* ended[j]: how often job j has completed

vars == <<iteration, started, ended>>

Init ==
  /\ iteration = 0
  /\ started = [j \in Jobs |-> 0]
  /\ ended = [j \in Jobs |-> 0]

Begin ==
  /\ \A j \in Jobs : ended[j] = iteration
  /\ iteration' = iteration + 1
  /\ UNCHANGED <<started, ended>>

Start(j) ==
  /\ started[j] < iteration
  /\ \A p \in preds[j] : ended[p] = iteration
  /\ started' = [started EXCEPT ![j] = @ + 1]
  /\ UNCHANGED <<iteration, ended>>

End(j) ==
  /\ ended[j] < started[j]
  /\ ended' = [ended EXCEPT ![j] = @ + 1]
  /\ UNCHANGED <<iteration, started>>

Next == Begin \/ \E j \in Jobs : Start(j) \/ End(j)

Spec == Init /\ [][Next]_vars
=============================================================================

--------------------------- MODULE PlatformHistory ---------------------------
(***************************************************************************)
(* Platform with a history variable.  Nothing in the code keeps an         *)
(* application from changing PEs after the schedule of a static graph is   *)
(* made (Archi.h:255).  miscounted records that iterate has been called    *)
(* with another number of PEs enabled than the schedule has jobs for; what *)
(* iterate guarantees, whenever PEs change, is said up to that call.       *)
(***************************************************************************)
EXTENDS Platform

VARIABLE miscounted
historyVars == <<vars, miscounted>>

IterationBegins == iteration' # iteration
Miscounts == IterationBegins /\ Cardinality(schedule') # Cardinality(enabled)

HistoryInit == Init /\ miscounted = FALSE
HistoryNext == Next /\ miscounted' = (miscounted \/ Miscounts)
HistorySpec == HistoryInit /\ [][HistoryNext]_historyVars
FairHistorySpec == HistorySpec /\ Fairness

-----------------------------------------------------------------------------
(* rstJobIxRecv waits for as many LRTs as there are enabled PEs, whichever *)
(* they are: PEs may be swapped between two iterations, and iterate still  *)
(* waits for every LRT that has jobs, as long as their number is the same. *)
WaitsUntilMiscounted == miscounted \/ IterateWaits

(* Neither init nor iterate hangs at a barrier or a queue until then, nor  *)
(* does clean, if the memory of the architecture outlives its free.        *)
ReturnsUntilMiscounted ==
  []<>(pc[grt] \in {"idle", "done"} \/ miscounted \/ status[Archi] = "freed")
=============================================================================

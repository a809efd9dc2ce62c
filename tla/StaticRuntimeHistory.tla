------------------------ MODULE StaticRuntimeHistory -------------------------
(***************************************************************************)
(* StaticRuntime with history variables.  Nothing in the code keeps the    *)
(* GRT in run while a job or the end of the iteration is unread in its own *)
(* queue: an LRT that is descheduled between the unlock and the sem_post   *)
(* of a push to that queue hides a message from the GRT's try-pop          *)
(* (NotificationQueue.cpp:61-64).  missed records that this has happened;  *)
(* what the runtime guarantees for every choice of LazyPosters is said     *)
(* here up to that moment.                                                 *)
(***************************************************************************)
EXTENDS StaticRuntime

VARIABLES
  hidden,  \* the GRT's last unsuccessful try-pop was made while another LRT
           \* had pushed to its queue and not yet posted
  missed   \* the GRT has once left run with its own work unread

historyVars == <<vars, hidden, missed>>

UnreadWork(q) ==
  \E k \in DOMAIN notifQueue[q] :
    notifQueue[q][k].subType \in {"JOB_ADD", "LRT_END_ITERATION"}

GrtLeavesRun == pc[grt] # "recv" /\ pc'[grt] = "recv"
GrtMisses == GrtLeavesRun /\ UnreadWork(grt)

GrtFindsNothing == pc[grt] = "drain" /\ pc'[grt] # "drain"
PostIsLate == \E l \in Others : unposted[l] = grt

HistoryInit == Init /\ hidden = FALSE /\ missed = FALSE
HistoryNext ==
  /\ Next
  /\ hidden' = IF GrtFindsNothing THEN PostIsLate ELSE hidden
  /\ missed' = (missed \/ GrtMisses)
HistorySpec == HistoryInit /\ [][HistoryNext]_historyVars
FairHistorySpec == HistorySpec /\ Fairness

-----------------------------------------------------------------------------
(* Until the GRT misses work, and whichever threads post late, jobs start  *)
(* after their sources, in every iteration, and the stamps that say so are *)
(* true; no LRT waits for a stamp that only it could send.                 *)
OrderUntilMissed ==
  missed \/ (PrecedenceRespected /\ StampsAreTrue /\ NeverWaitsForItself)

(* Until then an iteration ends in full: when iterate returns, every job   *)
(* has been executed and nothing is left over for the next call, and       *)
(* jobQueueSanityCheck never throws.                                       *)
EndUntilMissed ==
  missed \/ (IterationComplete /\ QuietBetweenIterations /\ SanityCheckHolds)

(* Until then the runtime implements the iterated execution of the graph.  *)
DataflowUntilMissed ==
  Dataflow!Init /\ [][missed' \/ [Dataflow!Next]_(Dataflow!vars)]_historyVars

(* Until then no stamp goes back, except when all are reset.               *)
StampsAdvance ==
  \A l \in LRT : \/ \A i \in LRT : jobStamps'[l][i] >= jobStamps[l][i]
                 \/ \A i \in LRT : jobStamps'[l][i] = -1
StampsAdvanceUntilMissed == [][missed' \/ StampsAdvance]_historyVars

(* Work is missed only when the GRT last looked while another LRT was      *)
(* between the push to its queue and the post; the GRT's own late posts,   *)
(* and those to other queues, are not the cause.                           *)
MissedForALatePost == [][~missed /\ missed' => hidden']_historyVars

(* Until then a call of iterate returns: no two LRTs wait for each other,  *)
(* no notification is missed for ever, however late it is posted.          *)
IterateReturnsUntilMissed == pc[grt] = "send" ~> pc[grt] = "idle" \/ missed
=============================================================================

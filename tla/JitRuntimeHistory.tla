-------------------------- MODULE JitRuntimeHistory --------------------------
(***************************************************************************)
(* JitRuntime with history variables, as StaticRuntimeHistory.  Nothing in *)
(* the code keeps the GRT in the loop of the last round while a job or the *)
(* end of the iteration is unread in its queue (NotificationQueue.cpp:61), *)
(* nor a job stamp of a broadcast from reaching an LRT that has reset its  *)
(* stamps (lrt.cpp:554, 567).  missed and stale record that this has       *)
(* happened; the order of the jobs is stated up to then.                   *)
(***************************************************************************)
EXTENDS JitRuntime

VARIABLES
  hidden,  \* the GRT's last unsuccessful try-pop was made while another LRT
           \* had pushed to its queue and not yet posted
  missed,  \* the GRT has once ended its last round with its own work unread
  stale    \* an iteration has begun with a job stamp of the one before

historyVars == <<vars, hidden, missed, stale>>

UnreadWork(q) ==
  \E k \in DOMAIN notifQueue[q] :
    notifQueue[q][k].subType \in {"JOB_ADD", "LRT_END_ITERATION"}

(* No more jobs: the GRT leaves run, or would broadcast its stamp before.  *)
GrtEndsRounds ==
  /\ planned = NRounds
  /\ pc[grt] \notin {"broadcast", "recv"} /\ pc'[grt] \in {"broadcast", "recv"}
GrtMisses == GrtEndsRounds /\ UnreadWork(grt)

GrtFindsNothing == pc[grt] = "drain" /\ pc'[grt] # "drain"
PostIsLate == \E l \in Others : unposted[l] = grt

StampIsLeft ==
  \E l \in LRT :
    \/ \E i \in LRT : jobStamps[l][i] # -1
    \/ \E k \in DOMAIN notifQueue[l] : notifQueue[l][k].subType = "JOB_UPDATE_JOBSTAMP"
IterationBegins == iteration' # iteration

HistoryInit == Init /\ hidden = FALSE /\ missed = FALSE /\ stale = FALSE
HistoryNext ==
  /\ Next
  /\ hidden' = IF GrtFindsNothing THEN PostIsLate ELSE hidden
  /\ missed' = (missed \/ GrtMisses)
  /\ stale' = (stale \/ (IterationBegins /\ StampIsLeft))
HistorySpec == HistoryInit /\ [][HistoryNext]_historyVars

-----------------------------------------------------------------------------
(* Whichever threads post late and however late a broadcast is, stamps are *)
(* true in each iteration, until the GRT misses work or an iteration after *)
(* the first begins with a stamp of the one before.                        *)
StampsTrueUntilLeftover ==
  missed \/ (stale /\ iteration > 1) \/ Static!StampsAreTrue

(* Until then the execution in rounds implements the dataflow graph:       *)
(* nothing else can break the order of the jobs.                           *)
DataflowUntilLeftover ==
  /\ Dataflow!Init
  /\ [][\/ missed' \/ (stale' /\ iteration' > 1)
        \/ [Dataflow!Next]_(Dataflow!vars)]_historyVars

(* Work is missed only when the GRT last looked while another LRT was      *)
(* between the push to its queue and the post.                             *)
MissedForALatePost == [][~missed /\ missed' => hidden']_historyVars
=============================================================================

------------------------- MODULE ScheduleConstraints -------------------------
(***************************************************************************)
(* What a finished schedule tells the LRTs about the order of its jobs.    *)
(* Jobs are numbered in the order in which they were mapped.  Every job    *)
(* has a processing element and an index there (jobID), waits for at most  *)
(* one job of each processing element (jobs2Wait, -1: none) and notifies   *)
(* some processing elements when it is done (lrts2Notify).                 *)
(*                                                                         *)
(* The scheduler establishes these facts, module SRDAGScheduler; the       *)
(* runtime relies on them, module StaticRuntime.                           *)
(***************************************************************************)
EXTENDS Integers

(* The jobs of a processing element are numbered 0, 1, 2... in the order   *)
(* in which they are mapped.                                               *)
ConsecutiveIDs(Jobs, PE, mappedPE, jobID, nJobPerPE) ==
  /\ \A j \in Jobs : jobID[j] \in 0 .. nJobPerPE[mappedPE[j]] - 1
  /\ \A pe \in PE : \A id \in 0 .. nJobPerPE[pe] - 1 :
       \E j \in Jobs : mappedPE[j] = pe /\ jobID[j] = id
  /\ \A i, j \in Jobs : mappedPE[i] = mappedPE[j] /\ i < j => jobID[i] < jobID[j]

(* Whatever job j reads is produced no later than a job that j waits for.  *)
WaitsCoverPreds(Jobs, preds, mappedPE, jobID, jobs2Wait) ==
  \A j \in Jobs : \A p \in preds[j] : jobID[p] <= jobs2Wait[j][mappedPE[p]]

(* A job waits only for jobs whose data it reads.                          *)
WaitsAreForPreds(Jobs, PE, preds, mappedPE, jobID, jobs2Wait) ==
  \A j \in Jobs, pe \in PE :
    \/ jobs2Wait[j][pe] = -1
    \/ \E p \in preds[j] : mappedPE[p] = pe /\ jobID[p] = jobs2Wait[j][pe]

(* A processing element is notified of a job exactly if it waits for it.   *)
NotifiesMatchWaits(Jobs, PE, mappedPE, jobID, jobs2Wait, lrts2Notify) ==
  \A p \in Jobs, pe \in PE :
    lrts2Notify[p][pe] <=>
      \E j \in Jobs : mappedPE[j] = pe /\ jobs2Wait[j][mappedPE[p]] = jobID[p]
=============================================================================

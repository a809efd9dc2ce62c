---------------------------- MODULE StaticRuntime ----------------------------
(***************************************************************************)
(* Spider's runtime executing a static graph, whose schedule is computed   *)
(* once and run at each call of Spider::iterate.  The global runtime       *)
(* (GRT, the application's thread) sends the jobs of the schedule to the   *)
(* local runtimes (LRTs, one thread per processing element), runs its own  *)
(* jobs as the LRT grt, and waits for the LRTs' end of iteration.  LRTs    *)
(* order their jobs by job stamps they send each other.                    *)
(*                                                                         *)
(* Every thread reads one notification queue, LRT i queue i, and the GRT   *)
(* also queue nLrt.  A push appends to the queue and then posts its        *)
(* semaphore (module NotificationQueue): only credits[q] items of queue q  *)
(* can be popped.  A thread of LazyPosters may be descheduled between the  *)
(* two, a thread outside of it does both at once.                          *)
(***************************************************************************)
EXTENDS Integers, Sequences, FiniteSets, ScheduleConstraints

CONSTANTS
  nLrt,          \* number of LRTs, the GRT's included
  grt,           \* the LRT that the GRT runs (getSpiderGRTID)
  Activated,     \* the processing elements that are enabled
  NJobs,         \* number of jobs; job j is the j-th one of the schedule
  preds,         \* preds[j]: jobs whose output job j reads
  mappedPE,      \* mappedPE[j]: the LRT that executes job j
  jobID,         \* jobID[j]: the index of job j among the jobs of its LRT
  nJobPerPE,     \* nJobPerPE[l]: how many jobs LRT l executes
  jobs2Wait,     \* jobs2Wait[j][l]: the stamp of LRT l that j waits for, or -1
  lrts2Notify,   \* lrts2Notify[j][l]: LRT l is told when j is done
  TraceEnabled,  \* traceEnabled_ of every LRT
  LazyPosters,   \* threads that may be preempted between unlock and sem_post
  MaxIterations  \* bound: how often the application calls iterate

Jobs == 1..NJobs
LRT == 0..(nLrt - 1)
Others == LRT \ {grt}
Stamp == Nat \cup {-1}

ASSUME PlatformAssumption ==
  /\ nLrt \in Nat \ {0} /\ grt \in LRT
  /\ Activated \subseteq LRT /\ grt \in Activated
  /\ TraceEnabled \in BOOLEAN
  /\ LazyPosters \subseteq LRT
  /\ MaxIterations \in Nat

ASSUME ScheduleTypes ==
  /\ NJobs \in Nat
  /\ preds \in [Jobs -> SUBSET Jobs]
  /\ mappedPE \in [Jobs -> Activated]
  /\ jobID \in [Jobs -> Nat]
  /\ nJobPerPE \in [LRT -> Nat]
  /\ jobs2Wait \in [Jobs -> [LRT -> Nat \cup {-1}]]
  /\ lrts2Notify \in [Jobs -> [LRT -> BOOLEAN]]

(* What the scheduler guarantees (module SRDAGScheduler).                  *)
ASSUME ScheduleAssumption ==
  /\ \A j \in Jobs : \A p \in preds[j] : p < j
  /\ ConsecutiveIDs(Jobs, LRT, mappedPE, jobID, nJobPerPE)
  /\ WaitsCoverPreds(Jobs, preds, mappedPE, jobID, jobs2Wait)
  /\ WaitsAreForPreds(Jobs, LRT, preds, mappedPE, jobID, jobs2Wait)
  /\ NotifiesMatchWaits(Jobs, LRT, mappedPE, jobID, jobs2Wait, lrts2Notify)

VARIABLES
  notifQueue,    \* notifQueue[q]: queue_ of lrtNotificationQueues_[q]
  credits,       \* credits[q]: the value of its semaphore
  unposted,      \* unposted[l]: the queue that thread l has still to post, or -1
  pc,            \* pc[l]: where LRT l is; pc[grt]: where the GRT is
  run,           \* run_
  jobQueue,      \* jobQueue_
  jobQueueIndex, \* jobQueueIndex_
  jobIx,         \* jobIx_
  lastJobID,     \* lastJobID_
  jobStamps,     \* jobStamps_
  toNotify,      \* LRTs that the loop at the end of runJob has still to notify
  nSentJobs,     \* nSentJobs_ of the schedule
  sentTo,        \* LRTs that the GRT's current loop over LRTs has passed: 0..sentTo-1
  nFinishedPE,   \* the counter of rstJobIxRecv
  iteration,     \* calls of Spider::iterate
  ran            \* ran[j]: how often job j has been executed to its end

grtVars == <<nSentJobs, sentTo, nFinishedPE, iteration>>
queueVars == <<notifQueue, credits, unposted>>
lrtVars == <<jobQueue, jobQueueIndex, jobIx, lastJobID, jobStamps>>
vars == <<queueVars, lrtVars, grtVars, pc, run, toNotify, ran>>

(* LRT pcs: "wait" and "drain" are the blocking and the non-blocking pop   *)
(* at the top of run's loop, "exec" and "notify" are inside runJob, an LRT *)
(* at "ended" waits at the final barrier.  The other pcs are the GRT's.    *)
LrtPC == {"wait", "drain", "exec", "notify", "ended"}
GrtPC == {"idle", "send", "recv", "stop", "done"}

(* NotificationMessage: its subtype, sender and index.                     *)
Message(subType, lrtID, index) == [subType |-> subType, lrtID |-> lrtID, index |-> index]
SubTypes == {"JOB_ADD", "JOB_UPDATE_JOBSTAMP", "LRT_END_ITERATION", "LRT_STOP",
             "LRT_FINISHED_ITERATION", "TRACE_LRT"}

-----------------------------------------------------------------------------
(* Threads, queues and stamps once the platform has been started.          *)
Init ==
  /\ notifQueue = [q \in 0..nLrt |-> <<>>]
  /\ credits = [q \in 0..nLrt |-> 0]
  /\ unposted = [l \in LRT |-> -1]
  /\ pc = [l \in LRT |-> IF l = grt THEN "idle" ELSE "drain"]
  /\ run = [l \in LRT |-> TRUE]
  /\ jobQueue = [l \in LRT |-> <<>>]
  /\ jobQueueIndex = [l \in LRT |-> 0]
  /\ jobIx = [l \in LRT |-> -1]
  /\ lastJobID = [l \in LRT |-> -1]
  /\ jobStamps = [l \in LRT |-> [i \in LRT |-> -1]]
  /\ toNotify = [l \in LRT |-> {}]
  /\ nSentJobs = 0 /\ sentTo = 0 /\ nFinishedPE = 0 /\ iteration = 0
  /\ ran = [j \in Jobs |-> 0]

(* Faulty variant: the queue is a stack.                                   *)
PushInFront(l, q, m) ==
  /\ notifQueue' = [notifQueue EXCEPT ![q] = <<m>> \o @]
  /\ credits' = [credits EXCEPT ![q] = @ + 1]
  /\ UNCHANGED unposted

(* push_notification by thread l; nothing else of l happens before Post.   *)
Push(l, q, m) ==
  /\ notifQueue' = [notifQueue EXCEPT ![q] = Append(@, m)]
  /\ \/ /\ l \notin LazyPosters
        /\ credits' = [credits EXCEPT ![q] = @ + 1]
        /\ UNCHANGED unposted
     \/ /\ l \in LazyPosters
        /\ unposted' = [unposted EXCEPT ![l] = q]
        /\ UNCHANGED credits

Post(l) ==
  /\ unposted[l] # -1
  /\ credits' = [credits EXCEPT ![unposted[l]] = @ + 1]
  /\ unposted' = [unposted EXCEPT ![l] = -1]
  /\ UNCHANGED <<notifQueue, lrtVars, grtVars, pc, run, toNotify, ran>>

At(l, p) == unposted[l] = -1 /\ pc[l] = p

-----------------------------------------------------------------------------
(* checkNotifications: pop one message and handle it.  In the loop at the  *)
(* top of run only the first pop may block.                                *)

Pop(l, subType) ==
  /\ At(l, "wait") \/ At(l, "drain")
  /\ credits[l] > 0
  /\ Head(notifQueue[l]).subType = subType
  /\ notifQueue' = [notifQueue EXCEPT ![l] = Tail(@)]
  /\ credits' = [credits EXCEPT ![l] = @ - 1]
  /\ pc' = [pc EXCEPT ![l] = "drain"]
  /\ UNCHANGED <<unposted, toNotify, ran, grtVars>>

(* Faulty variant: jobs are added in front of the job queue.               *)
HandleJobAddInFront(l) ==
  /\ Pop(l, "JOB_ADD")
  /\ jobQueue' = [jobQueue EXCEPT ![l] = <<Head(notifQueue[l]).index>> \o @]
  /\ UNCHANGED <<jobQueueIndex, jobIx, lastJobID, jobStamps, run>>

(* JOB_ADD: the message's index leads to the job's description.            *)
HandleJobAdd(l) ==
  /\ Pop(l, "JOB_ADD")
  /\ jobQueue' = [jobQueue EXCEPT ![l] = Append(@, Head(notifQueue[l]).index)]
  /\ UNCHANGED <<jobQueueIndex, jobIx, lastJobID, jobStamps, run>>

(* JOB_UPDATE_JOBSTAMP, updateLRTJobStamp *)
HandleUpdateJobStamp(l) ==
  /\ Pop(l, "JOB_UPDATE_JOBSTAMP")
  /\ jobStamps' = [jobStamps EXCEPT ![l][Head(notifQueue[l]).lrtID] = Head(notifQueue[l]).index]
  /\ UNCHANGED <<jobQueue, jobQueueIndex, jobIx, lastJobID, run>>

HandleEndIteration(l) ==
  /\ Pop(l, "LRT_END_ITERATION")
  /\ lastJobID' = [lastJobID EXCEPT ![l] = Head(notifQueue[l]).index]
  /\ UNCHANGED <<jobQueue, jobQueueIndex, jobIx, jobStamps, run>>

(* Faulty variant: LRT_STOP is read and ignored.                           *)
HandleStopIgnored(l) == Pop(l, "LRT_STOP") /\ UNCHANGED <<lrtVars, run>>

HandleStop(l) ==
  /\ Pop(l, "LRT_STOP")
  /\ run' = [run EXCEPT ![l] = FALSE]
  /\ UNCHANGED lrtVars

HandleNotification(l) ==
  HandleJobAdd(l) \/ HandleUpdateJobStamp(l) \/ HandleEndIteration(l) \/ HandleStop(l)

-----------------------------------------------------------------------------
(* One pass of run's loop.                                                 *)

(* Faulty variant: a pass takes one message from the queue, not all.       *)
DrainedOnce(l) == At(l, "drain")

(* The non-blocking pop has answered false and the LRT goes on.            *)
Drained(l) == At(l, "drain") /\ credits[l] = 0

(* jobQueueSanityCheck.  It throws when it fails: the thread stops there.  *)
QueueIsSane(l) == lastJobID[l] >= 0 => Len(jobQueue[l]) <= lastJobID[l] + 1

GotJobToDo(l) == jobQueueIndex[l] < Len(jobQueue[l])
NextJob(l) == jobQueue[l][jobQueueIndex[l] + 1]
CurrentJob(l) == jobQueue[l][jobQueueIndex[l]]

WaitsForItself(l, j) == jobs2Wait[j][l] > jobIx[l]

(* Faulty variant: a job is let through one stamp too early.               *)
CompareLRTJobStampsOffByOne(l, j) ==
  /\ ~WaitsForItself(l, j)
  /\ \A i \in LRT : jobs2Wait[j][i] >= 0 => jobs2Wait[j][i] <= jobStamps[l][i] + 1

(* compareLRTJobStamps *)
CompareLRTJobStamps(l, j) ==
  /\ ~WaitsForItself(l, j)
  /\ \A i \in LRT : jobs2Wait[j][i] >= 0 => jobs2Wait[j][i] <= jobStamps[l][i]

DoneWithIteration(l) == lastJobID[l] >= 0 /\ jobIx[l] = lastJobID[l]

(* The end of the iteration for an LRT: clearJobQueue, and the stamps are  *)
(* forgotten.                                                              *)
ClearJobQueue(l) ==
  /\ jobQueue' = [jobQueue EXCEPT ![l] = <<>>]
  /\ jobQueueIndex' = [jobQueueIndex EXCEPT ![l] = 0]
  /\ lastJobID' = [lastJobID EXCEPT ![l] = -1]
  /\ jobIx' = [jobIx EXCEPT ![l] = -1]

(* Faulty variants: the stamps, or the last job ID, survive the iteration. *)
ResetLrtKeepsStamps(l) == ClearJobQueue(l) /\ UNCHANGED jobStamps
ResetLrtKeepsLastJobID(l) ==
  /\ jobStamps' = [jobStamps EXCEPT ![l] = [i \in LRT |-> -1]]
  /\ jobQueue' = [jobQueue EXCEPT ![l] = <<>>]
  /\ jobQueueIndex' = [jobQueueIndex EXCEPT ![l] = 0]
  /\ jobIx' = [jobIx EXCEPT ![l] = -1]
  /\ UNCHANGED lastJobID

ResetLrt(l) ==
  /\ jobStamps' = [jobStamps EXCEPT ![l] = [i \in LRT |-> -1]]
  /\ ClearJobQueue(l)

(* No more jobs: an LRT blocks on its queue, the GRT leaves run and        *)
(* restartSchedule prepares the schedule to be sent again.                 *)
NoMoreJobs(l) ==
  IF l = grt
  THEN pc' = [pc EXCEPT ![l] = "recv"] /\ nSentJobs' = 0
  ELSE pc' = [pc EXCEPT ![l] = "wait"] /\ UNCHANGED nSentJobs

(* The end of a pass; resume is the pc of a next pass that has a job.      *)
EndPass(l, resume) ==
  /\ \/ /\ DoneWithIteration(l)
        /\ IF l = grt THEN UNCHANGED queueVars
           ELSE Push(l, nLrt, Message("LRT_FINISHED_ITERATION", l, -1))
        /\ ResetLrt(l)
        /\ NoMoreJobs(l)
     \/ /\ ~DoneWithIteration(l) /\ ~GotJobToDo(l)
        /\ NoMoreJobs(l)
        /\ UNCHANGED <<queueVars, lrtVars>>
     \/ /\ ~DoneWithIteration(l) /\ GotJobToDo(l)
        /\ pc' = [pc EXCEPT ![l] = resume]
        /\ UNCHANGED <<queueVars, lrtVars, nSentJobs>>
  /\ UNCHANGED <<run, toNotify, ran, sentTo, nFinishedPE, iteration>>

ExitRun(l) ==
  /\ Drained(l) /\ ~run[l]
  /\ pc' = [pc EXCEPT ![l] = "ended"]
  /\ UNCHANGED <<queueVars, lrtVars, grtVars, run, toNotify, ran>>

(* A pass that finds no job, or one that still has to wait (canRunJob is   *)
(* then FALSE and the next pop blocks).                                    *)
PassWithoutJob(l) ==
  /\ Drained(l) /\ run[l] /\ QueueIsSane(l)
  /\ GotJobToDo(l) => ~CompareLRTJobStamps(l, NextJob(l))
  /\ EndPass(l, "wait")

(* Faulty variant: a job starts as soon as it is in the queue.             *)
StartJobUnchecked(l) ==
  /\ Drained(l) /\ run[l] /\ QueueIsSane(l)
  /\ GotJobToDo(l)
  /\ jobQueueIndex' = [jobQueueIndex EXCEPT ![l] = @ + 1]
  /\ pc' = [pc EXCEPT ![l] = "exec"]
  /\ UNCHANGED <<queueVars, jobQueue, jobIx, lastJobID, jobStamps, grtVars, run, toNotify, ran>>

StartJob(l) ==
  /\ Drained(l) /\ run[l] /\ QueueIsSane(l)
  /\ GotJobToDo(l) /\ CompareLRTJobStamps(l, NextJob(l))
  /\ jobQueueIndex' = [jobQueueIndex EXCEPT ![l] = @ + 1]
  /\ pc' = [pc EXCEPT ![l] = "exec"]
  /\ UNCHANGED <<queueVars, jobQueue, jobIx, lastJobID, jobStamps, grtVars, run, toNotify, ran>>

(* Faulty variant: the last LRT is left out of the loop.                   *)
LrtsToNotifyButLast(l) ==
  {i \in LRT : i # l /\ i < nLrt - 1 /\ lrts2Notify[CurrentJob(l)][i]}

LrtsToNotify(l) == {i \in LRT : i # l /\ lrts2Notify[CurrentJob(l)][i]}

(* The actor returns: its trace is sent, the LRT's own stamp advances.     *)
FinishJob(l) ==
  /\ At(l, "exec")
  /\ ran' = [ran EXCEPT ![CurrentJob(l)] = @ + 1]
  /\ IF TraceEnabled THEN Push(l, nLrt, Message("TRACE_LRT", l, CurrentJob(l)))
     ELSE UNCHANGED queueVars
  /\ jobIx' = [jobIx EXCEPT ![l] = @ + 1]
  /\ jobStamps' = [jobStamps EXCEPT ![l][l] = jobIx[l] + 1]
  /\ toNotify' = [toNotify EXCEPT ![l] = LrtsToNotify(l)]
  /\ pc' = [pc EXCEPT ![l] = "notify"]
  /\ UNCHANGED <<jobQueue, jobQueueIndex, lastJobID, grtVars, run>>

(* Faulty variant: the stamp sent is the one of the next job.              *)
NotifyLRTJobStampAhead(l) ==
  /\ At(l, "notify")
  /\ \E i \in toNotify[l] :
       /\ \A k \in toNotify[l] : i <= k
       /\ Push(l, i, Message("JOB_UPDATE_JOBSTAMP", l, jobIx[l] + 1))
       /\ toNotify' = [toNotify EXCEPT ![l] = @ \ {i}]
  /\ UNCHANGED <<lrtVars, grtVars, pc, run, ran>>

(* notifyLRTJobStamp, in the order of the loop over the LRTs.              *)
NotifyLRTJobStamp(l) ==
  /\ At(l, "notify")
  /\ \E i \in toNotify[l] :
       /\ \A k \in toNotify[l] : i <= k
       /\ Push(l, i, Message("JOB_UPDATE_JOBSTAMP", l, jobIx[l]))
       /\ toNotify' = [toNotify EXCEPT ![l] = @ \ {i}]
  /\ UNCHANGED <<lrtVars, grtVars, pc, run, ran>>

PassWithJob(l) ==
  /\ At(l, "notify") /\ toNotify[l] = {}
  /\ EndPass(l, "drain")

Run(l) ==
  \/ HandleNotification(l) \/ ExitRun(l) \/ PassWithoutJob(l) \/ StartJob(l)
  \/ FinishJob(l) \/ NotifyLRTJobStamp(l) \/ PassWithJob(l)

-----------------------------------------------------------------------------
(* The GRT: Spider::iterate and the destructor of the platform.            *)

Iterate ==
  /\ At(grt, "idle") /\ iteration < MaxIterations
  /\ iteration' = iteration + 1
  /\ pc' = [pc EXCEPT ![grt] = "send"]
  /\ UNCHANGED <<queueVars, lrtVars, nSentJobs, sentTo, nFinishedPE, run, toNotify, ran>>

(* SRDAGSchedule::execute: each vertex is sent in the order of the         *)
(* schedule and leaves the state SRDAG_EXEC.                               *)
SendJob ==
  /\ At(grt, "send") /\ nSentJobs < NJobs
  /\ Push(grt, mappedPE[nSentJobs + 1], Message("JOB_ADD", grt, nSentJobs + 1))
  /\ nSentJobs' = nSentJobs + 1
  /\ UNCHANGED <<lrtVars, sentTo, nFinishedPE, iteration, pc, run, toNotify, ran>>

(* Faulty variant: the last job ID is one too small.                       *)
SendEndNotificationOffByOne ==
  /\ At(grt, "send") /\ nSentJobs = NJobs /\ sentTo < nLrt
  /\ Push(grt, sentTo, Message("LRT_END_ITERATION", grt, nJobPerPE[sentTo] - 2))
  /\ sentTo' = sentTo + 1
  /\ UNCHANGED <<lrtVars, nSentJobs, nFinishedPE, iteration, pc, run, toNotify, ran>>

SendEndNotification ==
  /\ At(grt, "send") /\ nSentJobs = NJobs /\ sentTo < nLrt
  /\ Push(grt, sentTo, Message("LRT_END_ITERATION", grt, nJobPerPE[sentTo] - 1))
  /\ sentTo' = sentTo + 1
  /\ UNCHANGED <<lrtVars, nSentJobs, nFinishedPE, iteration, pc, run, toNotify, ran>>

(* runUntilNoMoreJobs: the GRT enters run(false), whose first pop does not *)
(* block.                                                                  *)
RunUntilNoMoreJobs ==
  /\ At(grt, "send") /\ nSentJobs = NJobs /\ sentTo = nLrt
  /\ sentTo' = 0
  /\ run' = [run EXCEPT ![grt] = TRUE]
  /\ pc' = [pc EXCEPT ![grt] = "drain"]
  /\ UNCHANGED <<queueVars, lrtVars, nSentJobs, nFinishedPE, iteration, toNotify, ran>>

(* rstJobIxRecv.  A message of another kind goes back to the end of the    *)
(* queue; what others push between its pop and its push could as well have *)
(* been pushed before the pop, so the two are one step.                    *)
NPEToWait == Cardinality(Activated) - 1

ReceiveFinished ==
  /\ At(grt, "recv") /\ nFinishedPE < NPEToWait
  /\ credits[nLrt] > 0
  /\ Head(notifQueue[nLrt]).subType = "LRT_FINISHED_ITERATION"
  /\ notifQueue' = [notifQueue EXCEPT ![nLrt] = Tail(@)]
  /\ credits' = [credits EXCEPT ![nLrt] = @ - 1]
  /\ nFinishedPE' = nFinishedPE + 1
  /\ UNCHANGED <<unposted, lrtVars, nSentJobs, sentTo, iteration, pc, run, toNotify, ran>>

(* Faulty variant: a message of another kind is dropped.                   *)
PushBackTraceDropped ==
  /\ At(grt, "recv") /\ nFinishedPE < NPEToWait
  /\ credits[nLrt] > 0
  /\ Head(notifQueue[nLrt]).subType # "LRT_FINISHED_ITERATION"
  /\ notifQueue' = [notifQueue EXCEPT ![nLrt] = Tail(@)]
  /\ credits' = [credits EXCEPT ![nLrt] = @ - 1]
  /\ UNCHANGED <<unposted, lrtVars, grtVars, pc, run, toNotify, ran>>

PushBackTrace ==
  /\ At(grt, "recv") /\ nFinishedPE < NPEToWait
  /\ credits[nLrt] > 0
  /\ Head(notifQueue[nLrt]).subType # "LRT_FINISHED_ITERATION"
  /\ notifQueue' = [notifQueue EXCEPT ![nLrt] = Append(Tail(@), Head(@))]
  /\ \/ grt \notin LazyPosters /\ UNCHANGED <<credits, unposted>>
     \/ /\ grt \in LazyPosters
        /\ credits' = [credits EXCEPT ![nLrt] = @ - 1]
        /\ unposted' = [unposted EXCEPT ![grt] = nLrt]
  /\ UNCHANGED <<lrtVars, grtVars, pc, run, toNotify, ran>>

(* Faulty variants: the counter is not a fresh one in each iteration; one  *)
(* LRT is not waited for.                                                  *)
IterateReturnsKeepsCount ==
  /\ At(grt, "recv") /\ nFinishedPE = NPEToWait
  /\ pc' = [pc EXCEPT ![grt] = "idle"]
  /\ UNCHANGED <<queueVars, lrtVars, nSentJobs, sentTo, nFinishedPE, iteration, run, toNotify, ran>>
IterateReturnsEarly ==
  /\ At(grt, "recv") /\ nFinishedPE = NPEToWait - 1
  /\ nFinishedPE' = 0
  /\ pc' = [pc EXCEPT ![grt] = "idle"]
  /\ UNCHANGED <<queueVars, lrtVars, nSentJobs, sentTo, iteration, run, toNotify, ran>>

IterateReturns ==
  /\ At(grt, "recv") /\ nFinishedPE = NPEToWait
  /\ nFinishedPE' = 0
  /\ pc' = [pc EXCEPT ![grt] = "idle"]
  /\ UNCHANGED <<queueVars, lrtVars, nSentJobs, sentTo, iteration, run, toNotify, ran>>

(* ~PlatformPThread *)
Destroy ==
  /\ At(grt, "idle")
  /\ pc' = [pc EXCEPT ![grt] = "stop"]
  /\ UNCHANGED <<queueVars, lrtVars, grtVars, run, toNotify, ran>>

(* Faulty variant: the loop goes one queue too far.                        *)
SendStopOneTooMany ==
  /\ At(grt, "stop") /\ sentTo <= nLrt
  /\ IF sentTo = grt THEN UNCHANGED queueVars
     ELSE Push(grt, sentTo, Message("LRT_STOP", grt, -1))
  /\ sentTo' = sentTo + 1
  /\ UNCHANGED <<lrtVars, nSentJobs, nFinishedPE, iteration, pc, run, toNotify, ran>>

SendStop ==
  /\ At(grt, "stop") /\ sentTo < nLrt
  /\ IF sentTo = grt THEN UNCHANGED queueVars
     ELSE Push(grt, sentTo, Message("LRT_STOP", grt, -1))
  /\ sentTo' = sentTo + 1
  /\ UNCHANGED <<lrtVars, nSentJobs, nFinishedPE, iteration, pc, run, toNotify, ran>>

(* The barrier that the GRT and the LRTs meet at.                          *)
Barrier ==
  /\ At(grt, "stop") /\ sentTo = nLrt
  /\ \A l \in Others : At(l, "ended")
  /\ pc' = [pc EXCEPT ![grt] = "done"]
  /\ UNCHANGED <<queueVars, lrtVars, grtVars, run, toNotify, ran>>

Terminated == pc[grt] = "done" /\ UNCHANGED vars

GrtIterates ==
  \/ SendJob \/ SendEndNotification \/ RunUntilNoMoreJobs \/ ReceiveFinished
  \/ PushBackTrace \/ IterateReturns
GrtStops == SendStop \/ Barrier

Next ==
  \/ \E l \in LRT : Run(l) \/ Post(l)
  \/ Iterate \/ GrtIterates \/ Destroy \/ GrtStops
  \/ Terminated

Spec == Init /\ [][Next]_vars

(* Threads are scheduled: none stops for ever where it can go on.  The     *)
(* application need neither iterate nor clean up.                          *)
Fairness ==
  /\ \A l \in LRT : WF_vars(Run(l)) /\ WF_vars(Post(l))
  /\ WF_vars(GrtIterates)
  /\ WF_vars(GrtStops)

FairSpec == Spec /\ Fairness

-----------------------------------------------------------------------------
(* Types of the state. *)
JobMessage == [subType : {"JOB_ADD", "TRACE_LRT"}, lrtID : LRT, index : Jobs]
OtherMessage == [subType : SubTypes \ {"JOB_ADD", "TRACE_LRT"}, lrtID : LRT, index : Stamp]
MessageType == JobMessage \cup OtherMessage
TypeOK ==
  /\ notifQueue \in [0..nLrt -> Seq(MessageType)]
  /\ credits \in [0..nLrt -> Nat]
  /\ unposted \in [LRT -> 0..nLrt \cup {-1}]
  /\ pc \in [LRT -> LrtPC \cup GrtPC]
  /\ run \in [LRT -> BOOLEAN]
  /\ jobQueue \in [LRT -> Seq(Jobs)]
  /\ jobQueueIndex \in [LRT -> Nat]
  /\ jobIx \in [LRT -> Stamp]
  /\ lastJobID \in [LRT -> Stamp]
  /\ jobStamps \in [LRT -> [LRT -> Stamp]]
  /\ toNotify \in [LRT -> SUBSET LRT]
  /\ nSentJobs \in 0..NJobs /\ sentTo \in 0..nLrt
  /\ nFinishedPE \in Nat /\ iteration \in Nat
  /\ ran \in [Jobs -> Nat]

Executing(j) == \E l \in LRT : pc[l] = "exec" /\ CurrentJob(l) = j

(* While a job executes, the jobs whose output it reads have all been      *)
(* executed in the same iteration, whichever LRTs ran them and however     *)
(* late their stamps arrived (compareLRTJobStamps, notifyLRTJobStamp).     *)
PrecedenceRespected ==
  \A j \in Jobs : Executing(j) => \A p \in preds[j] : ran[j] < ran[p]

(* A stamp that an LRT holds, or that is on its way to it, is true in this *)
(* iteration: stamps of an earlier one are gone (lrt.cpp:555).             *)
StampIsTrue(i, stamp) ==
  \A p \in Jobs : mappedPE[p] = i /\ jobID[p] <= stamp => ran[p] = iteration
StampsAreTrue ==
  \A l \in LRT :
    /\ \A i \in LRT : StampIsTrue(i, jobStamps[l][i])
    /\ \A k \in DOMAIN notifQueue[l] :
         LET m == notifQueue[l][k] IN
         m.subType = "JOB_UPDATE_JOBSTAMP" => StampIsTrue(m.lrtID, m.index)

(* updateLRTJobStamp overwrites a stamp without comparing it to the old    *)
(* one; still a stamp never goes back, except when all are reset.          *)
StampsOnlyAdvance ==
  [][\A l \in LRT :
       \/ \A i \in LRT : jobStamps'[l][i] >= jobStamps[l][i]
       \/ \A i \in LRT : jobStamps'[l][i] = -1]_vars

(* When iterate returns, every job has been executed once per iteration.   *)
IterationComplete ==
  pc[grt] = "idle" => \A j \in Jobs : ran[j] = iteration

(* When iterate returns, no message, job or stamp of the iteration is left *)
(* to disturb the next one; queue nLrt holds traces only.  An LRT that is  *)
(* not enabled is not waited for, and may not have read its end yet.       *)
QuietBetweenIterations ==
  pc[grt] = "idle" =>
    /\ \A l \in LRT : /\ jobQueue[l] = <<>> /\ jobIx[l] = -1 /\ lastJobID[l] = -1
                      /\ \A i \in LRT : jobStamps[l][i] = -1
                      /\ l \in Activated => notifQueue[l] = <<>>
                      /\ \A k \in DOMAIN notifQueue[l] :
                           notifQueue[l][k].subType = "LRT_END_ITERATION"
    /\ \A k \in DOMAIN notifQueue[nLrt] : notifQueue[nLrt][k].subType = "TRACE_LRT"

(* jobQueueSanityCheck (lrt.cpp:496-502) never throws.                     *)
SanityCheckHolds == \A l \in LRT : Drained(l) /\ run[l] => QueueIsSane(l)

(* No LRT is ever stuck "waiting for future self job" (lrt.cpp:162-168).   *)
NeverWaitsForItself ==
  \A l \in LRT : Drained(l) /\ GotJobToDo(l) => ~WaitsForItself(l, NextJob(l))

(* Queue nLrt holds one trace for each execution, whatever rstJobIxRecv    *)
(* takes out and pushes back (platformPThread.cpp:457-458).                *)
TracesAreKept ==
  \A j \in Jobs :
    ran[j] = Cardinality({k \in DOMAIN notifQueue[nLrt] :
                            /\ notifQueue[nLrt][k].subType = "TRACE_LRT"
                            /\ notifQueue[nLrt][k].index = j})

(* All of this is what an application expects of iterate: the runtime      *)
(* implements the iterated execution of the graph.                         *)
started == [j \in Jobs |-> ran[j] + IF Executing(j) THEN 1 ELSE 0]
Dataflow == INSTANCE IteratedDataflow WITH ended <- ran
ImplementsDataflow == Dataflow!Spec

(* A call of iterate returns: no two LRTs wait for each other, no          *)
(* notification is missed for ever.                                        *)
IterateTerminates == pc[grt] = "send" ~> pc[grt] = "idle"

(* The destructor of the platform returns: each LRT sees its LRT_STOP.     *)
DestroyTerminates == pc[grt] = "stop" ~> pc[grt] = "done"
=============================================================================

-------------------- MODULE StaticRuntimeIteration_proofs --------------------
(***************************************************************************)
(* The rest of an iteration, and the theorems.  Module                     *)
(* StaticRuntimeOrder_proofs has the invariant and the steps by which LRTs *)
(* read messages, execute jobs and notify each other; here an LRT ends its *)
(* iteration, and the GRT starts one, sends the schedule and waits for the *)
(* LRTs that take part.  Then: between two iterations nothing is left of   *)
(* the last one, and the runtime implements IteratedDataflow.  All of it   *)
(* is of StaticRuntimeHistory: it holds until the GRT misses work of its   *)
(* own, and the last theorem says when that may happen.                    *)
(***************************************************************************)
EXTENDS StaticRuntimeOrder_proofs, StaticRuntimeHistory

(* An LRT without jobs has nothing to do.                                  *)
LEMMA NoJobsRested ==
  ASSUME TInv, OInv, NEW l \in LRT, JobsOf(l) = {}
  PROVE  Rested(l)
<1>1. /\ jobQueue[l] \in Seq(Jobs) /\ jobQueueIndex[l] \in Nat /\ jobIx[l] \in Stamp
      /\ Len(jobQueue[l]) \in Nat
  BY LenProperties DEF TInv, LrtTypes
<1>2. /\ \A k \in DOMAIN jobQueue[l] : mappedPE[jobQueue[l][k]] = l
      /\ jobQueueIndex[l] <= Len(jobQueue[l])
      /\ jobQueueIndex[l] = jobIx[l] + 1 + IF pc[l] = "exec" THEN 1 ELSE 0
      /\ pc[l] \in {"exec", "notify"} => jobQueueIndex[l] > 0
  BY DEF OInv, JobQueueInOrder
<1>3. DOMAIN jobQueue[l] = {}
  <2> SUFFICES ASSUME NEW k \in DOMAIN jobQueue[l] PROVE FALSE
    OBVIOUS
  <2>1. jobQueue[l][k] \in Jobs /\ mappedPE[jobQueue[l][k]] = l
    BY <1>1, <1>2, ElementOfSeq
  <2> QED BY <2>1 DEF JobsOf
<1>4. jobQueue[l] = <<>> /\ Len(jobQueue[l]) = 0
  <2>1. 1..Len(jobQueue[l]) = {}
    BY <1>1, <1>3, LenProperties
  <2>2. Len(jobQueue[l]) # 0 => 1 \in 1..Len(jobQueue[l])
    BY <1>1
  <2> QED BY <1>1, <2>1, <2>2, EmptySeq
<1>5. jobQueueIndex[l] = 0 /\ pc[l] \notin {"exec", "notify"}
  BY <1>1, <1>2, <1>4
<1>6. jobIx[l] = -1
  <2>1. 0 = jobIx[l] + 1 + 0
    BY <1>2, <1>5
  <2> QED BY <1>1, <2>1 DEF Stamp
<1>7. \A i \in LRT : jobStamps[l][i] = -1
  BY DEF OInv, HeldAreTrue
<1> QED BY <1>4, <1>5, <1>6, <1>7 DEF Rested, Blank

(* The jobs of a job queue have IDs below the number of jobs of the LRT.   *)
LEMMA JobQueueFits ==
  ASSUME TInv, OInv, NEW l \in LRT
  PROVE  Len(jobQueue[l]) \in Nat /\ Len(jobQueue[l]) <= nJobPerPE[l]
<1>1. jobQueue[l] \in Seq(Jobs) /\ Len(jobQueue[l]) \in Nat
  BY LenProperties DEF TInv, LrtTypes
<1>2. nJobPerPE[l] \in Nat
  BY ScheduleFacts
<1>3. CASE Len(jobQueue[l]) > 0
  <2>1. Len(jobQueue[l]) \in DOMAIN jobQueue[l]
    BY <1>1, <1>3, LenProperties
  <2>2. PICK j \in Jobs : j = jobQueue[l][Len(jobQueue[l])]
    BY <1>1, <2>1, ElementOfSeq
  <2>3. mappedPE[j] = l /\ jobID[j] = Len(jobQueue[l]) - 1
    BY <2>1, <2>2 DEF OInv, JobQueueInOrder
  <2>4. jobID[j] < nJobPerPE[l]
    BY <2>3, ScheduleFacts
  <2> QED BY <1>1, <1>2, <2>3, <2>4
<1> QED BY <1>1, <1>2, <1>3

(* The GRT leaves run without having ended its iteration only if it has no *)
(* job in it.                                                              *)
LEMMA GrtWithoutJobIsRested ==
  ASSUME TInv, OInv, pc[grt] # "exec", ~GotJobToDo(grt), ~DoneWithIteration(grt),
         lastJobID[grt] = nJobPerPE[grt] - 1,
         ~Rested(grt) => \A j \in JobsOf(grt) : jobID[j] < Len(jobQueue[grt])
  PROVE  Rested(grt)
<1> SUFFICES ASSUME ~Rested(grt) PROVE FALSE
  OBVIOUS
<1>1. PICK n \in Nat : n = nJobPerPE[grt]
  BY ScheduleFacts, ConstantTypes
<1>2. n > 0
  BY <1>1, NoJobsRested, ScheduleFacts, ConstantTypes
<1>3. PICK j \in JobsOf(grt) : jobID[j] = n - 1
  <2>1. n - 1 \in Nat /\ n - 1 < n
    BY <1>2
  <2> QED BY <1>1, <2>1, ScheduleFacts, ConstantTypes
<1>4. /\ Len(jobQueue[grt]) \in Nat /\ Len(jobQueue[grt]) <= n /\ n - 1 < Len(jobQueue[grt])
  BY <1>1, <1>3, JobQueueFits, ConstantTypes
<1>5. /\ jobQueueIndex[grt] \in Nat /\ jobIx[grt] \in Int
      /\ jobQueueIndex[grt] <= Len(jobQueue[grt])
      /\ ~(jobQueueIndex[grt] < Len(jobQueue[grt]))
      /\ jobQueueIndex[grt] = jobIx[grt] + 1 + 0
  BY ConstantTypes DEF OInv, JobQueueInOrder, TInv, LrtTypes, GotJobToDo
<1>6. jobIx[grt] = n - 1
  BY <1>4, <1>5
<1> QED BY <1>1, <1>2, <1>6 DEF DoneWithIteration

(* The GRT has no work of its own unread: it knows its last job, and all   *)
(* of its jobs that have not run are in its job queue.                     *)
LEMMA GrtHasItsWork ==
  ASSUME TInv, OInv, pc[grt] \in {"drain", "notify"}, ~UnreadWork(grt)
  PROVE  /\ ~HasEnd(grt) /\ lastJobID[grt] = nJobPerPE[grt] - 1
         /\ ~Rested(grt) => \A j \in JobsOf(grt) : jobID[j] < Len(jobQueue[grt])
<1>1. /\ grt \in LRT /\ nSentJobs = NJobs
      /\ notifQueue[grt] \in Seq(MessageType) /\ jobQueue[grt] \in Seq(Jobs)
      /\ jobIx[grt] \in Stamp /\ jobQueueIndex[grt] \in Nat
  BY QueueDomains, ConstantTypes DEF OInv, GrtPhases, TInv, LrtTypes, LrtPC
<1>2. \A k \in DOMAIN notifQueue[grt] :
        notifQueue[grt][k].subType \notin {"JOB_ADD", "LRT_END_ITERATION"}
  BY DEF UnreadWork
<1>3. ~HasEnd(grt)
  BY <1>2 DEF HasEnd
<1>4. lastJobID[grt] = nJobPerPE[grt] - 1
  BY <1>3 DEF OInv, GrtPhases
<1>5. ASSUME ~Rested(grt), NEW j \in JobsOf(grt)
      PROVE  jobID[j] < Len(jobQueue[grt])
  <2>1. j \in Jobs /\ jobID[j] \in Nat /\ j <= NJobs /\ Len(jobQueue[grt]) \in Nat
    BY <1>1, LenProperties, ScheduleFacts, ScheduleTypes DEF Jobs
  <2>2. SentJobs = NJobs
    BY <1>1 DEF SentJobs
  <2>3. CASE HasRun(j)
    <3>1. jobID[j] <= jobIx[grt]
      BY <1>1, <1>5, <2>3 DEF OInv, Progress
    <3>2. jobIx[grt] + 1 <= jobQueueIndex[grt] /\ jobIx[grt] \in Int
      BY <1>1 DEF OInv, JobQueueInOrder, Stamp
    <3>3. jobQueueIndex[grt] <= Len(jobQueue[grt])
      BY <1>1 DEF OInv, JobQueueInOrder
    <3> QED BY <1>1, <2>1, <3>1, <3>2, <3>3
  <2>4. CASE ~HasRun(j)
    BY <1>1, <1>2, <2>1, <2>2, <2>4 DEF OInv, MessagesInOrder, AddsInOrder
  <2> QED BY <2>3, <2>4
<1> QED BY <1>3, <1>4, <1>5

(* An LRT that counts its last job as done has executed all of them.       *)
LEMMA DoneHasRun ==
  ASSUME TInv, OInv, NEW l \in LRT, DoneWithIteration(l)
  PROVE  /\ \A j \in JobsOf(l) : HasRun(j)
         /\ ~Rested(l) /\ l \in Activated
<1>1. /\ jobIx[l] = nJobPerPE[l] - 1 /\ jobIx[l] >= 0 /\ nJobPerPE[l] \in Nat
  BY ScheduleFacts DEF OInv, LastIDs, DoneWithIteration
<1>2. ~Rested(l)
  BY <1>1 DEF Rested, Blank
<1>3. \A j \in JobsOf(l) : HasRun(j)
  <2> TAKE j \in JobsOf(l)
  <2>1. jobID[j] \in Nat /\ jobID[j] < nJobPerPE[l]
    BY ScheduleFacts
  <2>2. jobID[j] <= jobIx[l]
    BY <1>1, <2>1
  <2> QED BY <1>2, <2>2 DEF OInv, Progress
<1>4. l \in Activated
  BY <1>2, NoJobsRested, ScheduleTypes DEF JobsOf
<1> QED BY <1>2, <1>3, <1>4

(* A pass after which LRT l goes on, or the GRT leaves run.                *)
LEMMA PassInOrder ==
  ASSUME TInv, TInv', OInv, NEW l \in LRT, NEW p \in {"wait", "drain", "recv"},
         pc[l] \in {"drain", "notify"}, toNotify[l] = {}, pc' = [pc EXCEPT ![l] = p],
         UNCHANGED <<queueVars, lrtVars>>,
         UNCHANGED <<run, toNotify, ran, sentTo, nFinishedPE, iteration>>,
         \/ p \in {"wait", "drain"} /\ nSentJobs' = nSentJobs
         \/ p = "recv" /\ l = grt /\ nSentJobs' = 0 /\ Rested(grt)
  PROVE  OInv'
<1>1. /\ pc \in [LRT -> LrtPC \cup GrtPC] /\ toNotify \in [LRT -> SUBSET LRT]
      /\ Counted /\ Progress /\ JobQueueInOrder /\ MessagesInOrder /\ ToNotifyAreNews
      /\ HeldAreTrue /\ WaitsAreOver /\ LastIDs /\ GrtPhases
      /\ FinishedAreRested(notifQueue[nLrt]) /\ grt \in LRT
  BY ConstantTypes DEF TInv, LrtTypes, OInv
<1>2. /\ UNCHANGED <<jobQueue, jobQueueIndex, jobIx, lastJobID, jobStamps>>
      /\ notifQueue' = notifQueue
  BY DEF lrtVars, queueVars
<1>3. /\ pc'[l] = p /\ p \notin {"exec", "notify"} /\ \A k \in LRT : k # l => pc'[k] = pc[k]
  BY <1>1
<1>4. /\ \A j \in Jobs : HasRun(j)' <=> HasRun(j)
      /\ \A j \in Jobs : Waiting(j)' <=> Waiting(j)
      /\ \A k, i, s : Awaited(k, i, s)' <=> Awaited(k, i, s)
      /\ \A i, s : StampIsTrue(i, s)' <=> StampIsTrue(i, s)
  <2>1. /\ \A j : HasRun(j)' <=> HasRun(j)
        /\ \A j : Waiting(j)' <=> Waiting(j)
    BY <1>2 DEF HasRun, Waiting
  <2> QED BY <2>1 DEF Awaited, StampIsTrue, JobsOf
<1>5. \A k \in LRT : (Blank(k) => Blank(k)') /\ (Rested(k) => Rested(k)')
  <2>1. \A k \in LRT : Blank(k) => Blank(k)'
    BY <1>2, <1>3 DEF Blank
  <2> QED BY <1>4, <2>1 DEF Rested, JobsOf
<1>6. SentJobs' = SentJobs
  <2>1. CASE l = grt
    BY <1>1, <1>3, <2>1 DEF GrtPhases, SentJobs, LrtPC
  <2>2. CASE l # grt
    BY <1>1, <1>3, <2>2 DEF SentJobs
  <2> QED BY <2>1, <2>2
<1>7. Counted' /\ WaitsAreOver'
  BY <1>1, <1>4 DEF Counted, WaitsAreOver
<1>8. Progress'
  BY <1>1, <1>2, <1>4, <1>5 DEF Progress, JobsOf
<1>9. JobQueueInOrder'
  BY <1>1, <1>2, <1>3, <1>6 DEF JobQueueInOrder
<1>10. MessagesInOrder'
  <2> SUFFICES ASSUME NEW k \in LRT
               PROVE  AddsInOrder(k, notifQueue[k])' /\ UpdatesAreNews(k, notifQueue[k])'
    BY DEF MessagesInOrder
  <2>1. PICK q : q = notifQueue[k]
    OBVIOUS
  <2>2. q \in Seq(MessageType) /\ q = notifQueue'[k] /\ AddsInOrder(k, q) /\ UpdatesAreNews(k, q)
    BY <1>1, <1>2, <2>1, QueueDomains DEF MessagesInOrder
  <2>3. AddsInOrder(k, q)'
    BY <1>2, <1>4, <1>6, <2>2, AddsStay DEF JobsOf
  <2>4. UpdatesAreNews(k, q)'
    BY <1>2, <1>4, <2>2, UpdatesStay
  <2>5. AddsInOrder(k, notifQueue[k])'
    BY <2>2, <2>3 DEF AddsInOrder
  <2>6. UpdatesAreNews(k, notifQueue[k])'
    BY <2>2, <2>4 DEF UpdatesAreNews
  <2> QED BY <2>5, <2>6
<1>11. ToNotifyAreNews'
  <2> SUFFICES ASSUME NEW i \in LRT, NEW k \in toNotify[i]
               PROVE  (/\ pc[i] = "notify" /\ k # i
                       /\ jobStamps[k][i] < jobIx[i] /\ Awaited(k, i, jobIx[i])
                       /\ \A n \in DOMAIN notifQueue[k] :
                            notifQueue[k][n].subType = "JOB_UPDATE_JOBSTAMP" /\ notifQueue[k][n].lrtID = i
                              => notifQueue[k][n].index < jobIx[i])'
    BY DEF ToNotifyAreNews
  <2>1. /\ pc[i] = "notify" /\ k # i /\ jobStamps[k][i] < jobIx[i] /\ Awaited(k, i, jobIx[i])
        /\ \A n \in DOMAIN notifQueue[k] :
             notifQueue[k][n].subType = "JOB_UPDATE_JOBSTAMP" /\ notifQueue[k][n].lrtID = i
               => notifQueue[k][n].index < jobIx[i]
    BY <1>1 DEF ToNotifyAreNews
  <2>2. PICK s : s = jobIx[i]
    OBVIOUS
  <2>3. Awaited(k, i, s)'
    BY <1>4, <2>1, <2>2
  <2>4. Awaited(k, i, jobIx[i])'
    BY <1>2, <2>2, <2>3 DEF Awaited
  <2> QED BY <1>2, <1>3, <2>1, <2>4
<1>12. HeldAreTrue'
  BY <1>1, <1>2, <1>4 DEF HeldAreTrue, JobsOf
<1>13. LastIDs' /\ (HasEnd(grt)' <=> HasEnd(grt))
  BY <1>1, <1>2 DEF LastIDs, HasEnd, IsEnd
<1>14. GrtPhases'
  <2>1. CASE l # grt
    BY <1>1, <1>2, <1>3, <1>4, <1>5, <1>13, <2>1 DEF GrtPhases, JobsOf
  <2>2. CASE l = grt
    BY <1>1, <1>2, <1>3, <1>5, <1>13, <2>2 DEF GrtPhases, LrtPC
  <2> QED BY <2>1, <2>2
<1>15. FinishedAreRested(notifQueue[nLrt])'
  <2>1. PICK r : r = notifQueue'[nLrt]
    OBVIOUS
  <2>2. /\ DOMAIN notifQueue[nLrt] \subseteq Nat /\ r = notifQueue[nLrt]
        /\ SameMessages(notifQueue[nLrt], r, {"LRT_FINISHED_ITERATION"})
    BY <1>2, <2>1, SameQueue, QueueDomains, ConstantTypes
  <2>3. /\ pc[grt] = "recv" => pc'[grt] = "recv"
        /\ pc'[grt] \in {"idle", "stop", "done"} => pc[grt] \in {"idle", "stop", "done"}
    BY <1>1, <1>3
  <2>4. FinishedAreRested(r)'
    BY <1>1, <1>5, <2>1, <2>2, <2>3, FinishedKept
  <2> QED BY <2>1, <2>4 DEF FinishedAreRested
<1> QED BY <1>7, <1>8, <1>9, <1>10, <1>11, <1>12, <1>13, <1>14, <1>15 DEF OInv

(* The pass that ends the iteration of LRT l.                              *)
LEMMA LastPassInOrder ==
  ASSUME TInv, TInv', OInv, NEW l \in LRT, pc[l] \in {"drain", "notify"}, toNotify[l] = {},
         DoneWithIteration(l),
         IF l = grt THEN UNCHANGED queueVars
         ELSE Push(l, nLrt, Message("LRT_FINISHED_ITERATION", l, -1)),
         ResetLrt(l), NoMoreJobs(l), UNCHANGED <<run, toNotify, ran, sentTo, nFinishedPE, iteration>>
  PROVE  OInv'
<1>1. /\ pc \in [LRT -> LrtPC \cup GrtPC] /\ toNotify \in [LRT -> SUBSET LRT]
      /\ jobQueue \in [LRT -> Seq(Jobs)] /\ jobQueueIndex \in [LRT -> Nat]
      /\ jobIx \in [LRT -> Stamp] /\ lastJobID \in [LRT -> Stamp]
      /\ jobStamps \in [LRT -> [LRT -> Stamp]]
      /\ Counted /\ Progress /\ JobQueueInOrder /\ MessagesInOrder /\ ToNotifyAreNews
      /\ HeldAreTrue /\ WaitsAreOver /\ LastIDs /\ GrtPhases
      /\ FinishedAreRested(notifQueue[nLrt]) /\ grt \in LRT
  BY ConstantTypes DEF TInv, LrtTypes, OInv
<1>2. /\ jobStamps' = [jobStamps EXCEPT ![l] = [i \in LRT |-> -1]]
      /\ jobQueue' = [jobQueue EXCEPT ![l] = <<>>]
      /\ jobQueueIndex' = [jobQueueIndex EXCEPT ![l] = 0]
      /\ lastJobID' = [lastJobID EXCEPT ![l] = -1]
      /\ jobIx' = [jobIx EXCEPT ![l] = -1]
  BY DEF ResetLrt, ClearJobQueue
<1>3. /\ pc'[l] \in {"wait", "recv"} /\ \A k \in LRT : k # l => pc'[k] = pc[k]
      /\ l = grt => pc'[l] = "recv" /\ nSentJobs' = 0
      /\ l # grt => nSentJobs' = nSentJobs
  BY <1>1 DEF NoMoreJobs
<1>4. /\ jobStamps'[l] = [i \in LRT |-> -1] /\ jobQueue'[l] = <<>>
      /\ jobQueueIndex'[l] = 0 /\ lastJobID'[l] = -1 /\ jobIx'[l] = -1
      /\ \A k \in LRT : k # l =>
           /\ jobStamps'[k] = jobStamps[k] /\ jobQueue'[k] = jobQueue[k]
           /\ jobQueueIndex'[k] = jobQueueIndex[k] /\ lastJobID'[k] = lastJobID[k]
           /\ jobIx'[k] = jobIx[k]
  BY <1>1, <1>2
<1>5. (\A j \in JobsOf(l) : HasRun(j)) /\ ~Rested(l) /\ l \in Activated
  BY DoneHasRun
<1>6. \A j \in Jobs : HasRun(j)' <=> HasRun(j)
  BY DEF HasRun
<1>7. \A j \in Jobs : Waiting(j)' <=> Waiting(j)
  <2> TAKE j \in Jobs
  <2>1. mappedPE[j] \in LRT
    BY ConstantTypes
  <2>2. CASE mappedPE[j] = l
    BY <1>5, <1>6, <2>2 DEF Waiting, JobsOf
  <2>3. CASE mappedPE[j] # l
    BY <1>4, <1>6, <2>1, <2>3 DEF Waiting
  <2> QED BY <2>2, <2>3
<1>8. /\ \A k, i, s : Awaited(k, i, s)' <=> Awaited(k, i, s)
      /\ \A i, s : StampIsTrue(i, s)' <=> StampIsTrue(i, s)
      /\ \A i, s : ~Awaited(l, i, s)
  <2>1. \A k, i, s : Awaited(k, i, s)' <=> Awaited(k, i, s)
    BY <1>7 DEF Awaited, JobsOf
  <2>2. \A i, s : StampIsTrue(i, s)' <=> StampIsTrue(i, s)
    BY DEF StampIsTrue
  <2>3. \A i, s : ~Awaited(l, i, s)
    BY <1>5 DEF Awaited, Waiting
  <2> QED BY <2>1, <2>2, <2>3
<1>9. Rested(l)' /\ \A k \in LRT : (Blank(k) => Blank(k)') /\ (Rested(k) => Rested(k)')
  <2>1. Blank(l)'
    BY <1>3, <1>4 DEF Blank
  <2>2. Rested(l)'
    BY <1>5, <1>6, <2>1 DEF Rested, JobsOf
  <2>3. \A k \in LRT : k # l => (Blank(k) => Blank(k)')
    BY <1>3, <1>4 DEF Blank
  <2> QED BY <1>6, <2>1, <2>2, <2>3 DEF Rested, JobsOf
<1>10. SentJobs' = SentJobs
  <2>1. CASE l = grt
    BY <1>1, <1>3, <2>1 DEF GrtPhases, SentJobs, LrtPC
  <2>2. CASE l # grt
    BY <1>1, <1>3, <2>2 DEF SentJobs
  <2> QED BY <2>1, <2>2
<1>11. PICK m \in MessageType :
         /\ m.subType = "LRT_FINISHED_ITERATION" /\ m.lrtID = l
         /\ l # grt => Push(l, nLrt, m)
         /\ l = grt => notifQueue' = notifQueue
  <2>1. Message("LRT_FINISHED_ITERATION", l, -1) \in MessageType
    BY OtherMessages, ConstantTypes DEF SubTypes
  <2> QED BY <2>1 DEF Message, queueVars
<1>12. /\ \A k \in LRT : notifQueue'[k] = notifQueue[k]
       /\ l # grt => notifQueue'[nLrt] = Append(notifQueue[nLrt], m)
       /\ l = grt => notifQueue'[nLrt] = notifQueue[nLrt]
  <2>1. CASE l = grt
    BY <1>1, <1>11, <2>1 DEF GrtPhases
  <2>2. CASE l # grt
    <3>1. /\ \A r \in Queues : r # nLrt => notifQueue'[r] = notifQueue[r]
          /\ notifQueue'[nLrt] = Append(notifQueue[nLrt], m)
      BY <1>11, <2>2, PushMoves, ConstantTypes
    <3> QED BY <2>2, <3>1, ConstantTypes
  <2> QED BY <2>1, <2>2
<1>13. Counted' /\ WaitsAreOver'
  BY <1>1, <1>6, <1>7 DEF Counted, WaitsAreOver
<1>14. Progress'
  <2> SUFFICES ASSUME NEW k \in LRT, ~Rested(k)', NEW j \in JobsOf(k)
               PROVE  HasRun(j)' <=> jobID[j] <= jobIx'[k]
    BY DEF Progress, JobsOf
  <2>1. k # l /\ ~Rested(k)
    BY <1>9
  <2> QED BY <1>1, <1>4, <1>6, <2>1 DEF Progress, JobsOf
<1>15. JobQueueInOrder'
  <2> SUFFICES ASSUME NEW k \in LRT
               PROVE  (/\ \A n \in DOMAIN jobQueue[k] : /\ mappedPE[jobQueue[k][n]] = k
                                     /\ jobID[jobQueue[k][n]] = n - 1
                                     /\ jobQueue[k][n] <= SentJobs
                       /\ jobQueueIndex[k] <= Len(jobQueue[k])
                       /\ jobQueueIndex[k] = jobIx[k] + 1 + IF pc[k] = "exec" THEN 1 ELSE 0
                       /\ pc[k] \in {"exec", "notify"} => jobQueueIndex[k] > 0)'
    BY DEF JobQueueInOrder
  <2>1. CASE k # l
    BY <1>1, <1>3, <1>4, <1>10, <2>1 DEF JobQueueInOrder
  <2>2. CASE k = l
    <3>1. DOMAIN jobQueue'[l] = {} /\ Len(jobQueue'[l]) = 0
      BY <1>4
    <3> QED BY <1>3, <1>4, <2>2, <3>1
  <2> QED BY <2>1, <2>2
<1>16. MessagesInOrder'
  <2> SUFFICES ASSUME NEW k \in LRT
               PROVE  AddsInOrder(k, notifQueue[k])' /\ UpdatesAreNews(k, notifQueue[k])'
    BY DEF MessagesInOrder
  <2>1. PICK q : q = notifQueue[k]
    OBVIOUS
  <2>2. q \in Seq(MessageType) /\ q = notifQueue'[k] /\ AddsInOrder(k, q) /\ UpdatesAreNews(k, q)
    BY <1>1, <1>12, <2>1, QueueDomains DEF MessagesInOrder
  <2>3. AddsInOrder(k, q)'
    <3>1. CASE k # l
      BY <1>4, <1>6, <1>10, <2>2, <3>1, AddsStay DEF JobsOf
    <3>2. CASE k = l
      <4>1. \A n \in DOMAIN q : q[n].subType # "JOB_ADD"
        <5> SUFFICES ASSUME NEW n \in DOMAIN q, q[n].subType = "JOB_ADD" PROVE FALSE
          OBVIOUS
        <5>1. q[n].index \in Jobs
          BY <2>2, ElementOfSeq, MessageFields
        <5>2. mappedPE[q[n].index] = l /\ ~HasRun(q[n].index)
          BY <2>2, <3>2 DEF AddsInOrder
        <5> QED BY <1>5, <5>1, <5>2 DEF JobsOf
      <4>2. \A j \in JobsOf(l) : HasRun(j)'
        BY <1>5, <1>6 DEF JobsOf
      <4> QED BY <3>2, <4>1, <4>2 DEF AddsInOrder, JobsOf
    <3> QED BY <3>1, <3>2
  <2>4. UpdatesAreNews(k, q)'
    <3>1. CASE k # l
      BY <1>4, <1>8, <2>2, <3>1, UpdatesStay
    <3>2. CASE k = l
      <4>1. \A n \in DOMAIN q : q[n].subType # "JOB_UPDATE_JOBSTAMP"
        BY <1>8, <2>2, <3>2 DEF UpdatesAreNews
      <4> QED BY <4>1 DEF UpdatesAreNews
    <3> QED BY <3>1, <3>2
  <2>5. AddsInOrder(k, notifQueue[k])'
    BY <2>2, <2>3 DEF AddsInOrder
  <2>6. UpdatesAreNews(k, notifQueue[k])'
    BY <2>2, <2>4 DEF UpdatesAreNews
  <2> QED BY <2>5, <2>6
<1>17. ToNotifyAreNews'
  <2> SUFFICES ASSUME NEW i \in LRT, NEW k \in toNotify[i]
               PROVE  (/\ pc[i] = "notify" /\ k # i
                       /\ jobStamps[k][i] < jobIx[i] /\ Awaited(k, i, jobIx[i])
                       /\ \A n \in DOMAIN notifQueue[k] :
                            notifQueue[k][n].subType = "JOB_UPDATE_JOBSTAMP" /\ notifQueue[k][n].lrtID = i
                              => notifQueue[k][n].index < jobIx[i])'
    BY DEF ToNotifyAreNews
  <2>1. /\ pc[i] = "notify" /\ k # i /\ jobStamps[k][i] < jobIx[i] /\ Awaited(k, i, jobIx[i])
        /\ \A n \in DOMAIN notifQueue[k] :
             notifQueue[k][n].subType = "JOB_UPDATE_JOBSTAMP" /\ notifQueue[k][n].lrtID = i
               => notifQueue[k][n].index < jobIx[i]
    BY <1>1 DEF ToNotifyAreNews
  <2>2. i # l /\ k # l /\ k \in LRT
    BY <1>1, <1>8, <2>1
  <2>3. PICK s : s = jobIx[i]
    OBVIOUS
  <2>4. Awaited(k, i, s)'
    BY <1>8, <2>1, <2>3
  <2>5. Awaited(k, i, jobIx[i])'
    BY <1>4, <2>2, <2>3, <2>4 DEF Awaited
  <2> QED BY <1>3, <1>4, <1>12, <2>1, <2>2, <2>5
<1>18. HeldAreTrue'
  <2> SUFFICES ASSUME NEW k \in LRT, NEW i \in LRT
               PROVE  StampIsTrue(i, jobStamps[k][i])' /\ (JobsOf(k) = {} => jobStamps'[k][i] = -1)
    BY DEF HeldAreTrue, JobsOf
  <2>1. CASE k # l
    BY <1>1, <1>4, <1>8, <2>1 DEF HeldAreTrue, StampIsTrue
  <2>2. CASE k = l
    <3>1. jobStamps'[k][i] = -1
      BY <1>4, <2>2
    <3>2. \A j \in Jobs : ~(jobID[j] <= -1)
      BY ScheduleFacts
    <3> QED BY <3>1, <3>2 DEF StampIsTrue
  <2> QED BY <2>1, <2>2
<1>19. LastIDs' /\ (HasEnd(grt)' <=> HasEnd(grt))
  <2>1. ASSUME NEW k \in LRT
        PROVE  /\ lastJobID'[k] \in {-1, nJobPerPE[k] - 1}
               /\ \A n \in DOMAIN notifQueue'[k] :
                    notifQueue'[k][n].subType = "LRT_END_ITERATION" => IsEnd(notifQueue'[k][n], k)
    <3>1. lastJobID'[k] \in {-1, lastJobID[k]} /\ notifQueue'[k] = notifQueue[k]
      BY <1>4, <1>12
    <3> QED BY <1>1, <3>1 DEF LastIDs
  <2>2. LastIDs'
    BY <2>1 DEF LastIDs, IsEnd
  <2>3. HasEnd(grt)' <=> HasEnd(grt)
    BY <1>1, <1>12 DEF HasEnd
  <2> QED BY <2>2, <2>3
<1>20. GrtPhases'
  <2>1. CASE l # grt
    BY <1>1, <1>3, <1>4, <1>6, <1>9, <1>12, <1>19, <2>1 DEF GrtPhases, JobsOf
  <2>2. CASE l = grt
    BY <1>3, <1>9, <1>12, <2>2 DEF GrtPhases, LrtPC
  <2> QED BY <2>1, <2>2
<1>21. FinishedAreRested(notifQueue[nLrt])'
  <2>1. PICK q, r : q = notifQueue[nLrt] /\ r = notifQueue'[nLrt]
    OBVIOUS
  <2>2. /\ q \in Seq(MessageType) /\ FinishedAreRested(q)
        /\ DOMAIN q \subseteq Nat /\ DOMAIN r \subseteq Nat
    BY <1>1, <2>1, QueueDomains, QueueDomainsNext, ConstantTypes
  <2>3. /\ pc[grt] = "recv" => pc'[grt] = "recv"
        /\ pc'[grt] \in {"idle", "stop", "done"} => pc[grt] \in {"idle", "stop", "done"}
        /\ pc[grt] \notin {"idle", "stop", "done"}
    BY <1>1, <1>3, <1>5 DEF GrtPhases
  <2>4. CASE l = grt
    <3>1. SameMessages(q, r, {"LRT_FINISHED_ITERATION"})
      BY <1>12, <2>1, <2>2, <2>4, SameQueue
    <3>2. FinishedAreRested(r)'
      BY <1>9, <2>2, <2>3, <3>1, FinishedKept
    <3> QED BY <2>1, <3>2 DEF FinishedAreRested
  <2>5. CASE l # grt
    <3>0. PICK n : n = Len(q) + 1
      OBVIOUS
    <3>1. /\ DOMAIN r = 1..n /\ n \in Nat /\ DOMAIN q = 1..(n - 1) /\ r[n] = m
          /\ \A x \in 1..(n - 1) : r[x] = q[x]
      <4>1. r = Append(q, m)
        BY <1>12, <2>1, <2>5
      <4> QED BY <2>2, <3>0, <4>1, AppendProperties, LenProperties
    <3>2. ASSUME NEW x \in DOMAIN q, IsFinished(q[x])
          PROVE  /\ q[x].lrtID \in Activated \ {grt} /\ Rested(q[x].lrtID)
                 /\ q[x].lrtID # l
      BY <1>5, <2>2, <3>2 DEF FinishedAreRested
    <3>3. ASSUME NEW x \in DOMAIN r, IsFinished(r[x])
          PROVE  r[x].lrtID \in Activated \ {grt} /\ Rested(r[x].lrtID)'
      <4>1. CASE x = n
        BY <1>5, <1>9, <1>11, <2>5, <3>1, <4>1
      <4>2. CASE x \in 1..(n - 1)
        <5>1. PICK i \in Activated \ {grt} : i = r[x].lrtID /\ Rested(i)
          BY <3>1, <3>2, <3>3, <4>2
        <5>2. Rested(i)'
          BY <1>9, <5>1, PlatformAssumption
        <5> QED BY <5>1, <5>2
      <4> QED BY <3>1, <3>3, <4>1, <4>2
    <3>4. ASSUME NEW x \in DOMAIN r, NEW y \in DOMAIN r, IsFinished(r[x]), IsFinished(r[y]),
                 r[x].lrtID = r[y].lrtID
          PROVE  x = y
      <4>1. /\ x = n \/ x \in 1..(n - 1)
            /\ y = n \/ y \in 1..(n - 1)
        BY <3>1, <3>4
      <4>2. \A z \in 1..(n - 1) : IsFinished(r[z]) => r[z].lrtID # l
        BY <3>1, <3>2
      <4>3. x \in 1..(n - 1) /\ y \in 1..(n - 1) => x = y
        BY <2>2, <3>1, <3>4 DEF FinishedAreRested
      <4> QED BY <1>11, <3>1, <3>4, <4>1, <4>2, <4>3
    <3>5. PICK F \in SUBSET (Activated \ {grt}) :
            /\ Cardinality(F) = nFinishedPE
            /\ \A i \in F : Rested(i) /\ ~FinishedFrom(i, q)
      BY <2>2 DEF FinishedAreRested
    <3>6. ASSUME NEW i \in F PROVE Rested(i)' /\ ~FinishedFrom(i, r)
      <4>1. Rested(i) /\ i # l /\ i \in LRT
        BY <1>5, <3>5, PlatformAssumption
      <4>2. ~FinishedFrom(i, r)
        BY <1>11, <3>1, <3>5, <4>1 DEF FinishedFrom
      <4> QED BY <1>9, <4>1, <4>2
    <3>7. /\ pc'[grt] \notin {"idle", "stop", "done"} /\ nFinishedPE' = nFinishedPE
          /\ pc'[grt] # "recv" => nFinishedPE = 0
      BY <1>1, <1>3, <2>2, <2>3, <2>5 DEF FinishedAreRested
    <3>8. FinishedAreRested(r)'
      BY <3>3, <3>4, <3>5, <3>6, <3>7 DEF FinishedAreRested, FinishedFrom, IsFinished
    <3> QED BY <2>1, <3>8 DEF FinishedAreRested
  <2> QED BY <2>4, <2>5
<1> QED BY <1>13, <1>14, <1>15, <1>16, <1>17, <1>18, <1>19, <1>20, <1>21 DEF OInv

LEMMA EndPassInOrder ==
  ASSUME TInv, TInv', OInv, NEW l \in LRT, NEW resume \in {"wait", "drain"},
         pc[l] \in {"drain", "notify"}, toNotify[l] = {}, EndPass(l, resume), ~GrtMisses
  PROVE  OInv'
<1>1. UNCHANGED <<run, toNotify, ran, sentTo, nFinishedPE, iteration>>
  BY DEF EndPass
<1>2. CASE DoneWithIteration(l)
  <2>1. /\ IF l = grt THEN UNCHANGED queueVars
           ELSE Push(l, nLrt, Message("LRT_FINISHED_ITERATION", l, -1))
        /\ ResetLrt(l) /\ NoMoreJobs(l)
    BY <1>2 DEF EndPass
  <2> QED BY <1>1, <1>2, <2>1, LastPassInOrder
<1>3. CASE ~DoneWithIteration(l) /\ ~GotJobToDo(l)
  <2>1. NoMoreJobs(l) /\ UNCHANGED <<queueVars, lrtVars>>
    BY <1>3 DEF EndPass
  <2>2. CASE l # grt
    <3>1. pc' = [pc EXCEPT ![l] = "wait"] /\ nSentJobs' = nSentJobs
      BY <2>1, <2>2 DEF NoMoreJobs
    <3> QED BY <1>1, <2>1, <3>1, PassInOrder
  <2>3. CASE l = grt
    <3>1. pc' = [pc EXCEPT ![l] = "recv"] /\ nSentJobs' = 0
      BY <2>1, <2>3 DEF NoMoreJobs
    <3>2. /\ lastJobID[grt] = nJobPerPE[grt] - 1
          /\ ~Rested(grt) => \A j \in JobsOf(grt) : jobID[j] < Len(jobQueue[grt])
      <4>1. pc'[grt] = "recv" /\ pc[grt] # "recv"
        BY <2>3, <3>1, ConstantTypes DEF TInv, LrtTypes
      <4>2. ~UnreadWork(grt)
        BY <4>1 DEF GrtMisses, GrtLeavesRun
      <4> QED BY <2>3, <4>2, GrtHasItsWork
    <3>3. Rested(grt)
      BY <1>3, <2>3, <3>2, GrtWithoutJobIsRested
    <3> QED BY <1>1, <2>1, <2>3, <3>1, <3>3, PassInOrder
  <2> QED BY <2>2, <2>3
<1>4. CASE ~DoneWithIteration(l) /\ GotJobToDo(l)
  <2>1. /\ pc' = [pc EXCEPT ![l] = resume]
        /\ UNCHANGED <<queueVars, lrtVars>> /\ nSentJobs' = nSentJobs
    BY <1>4 DEF EndPass
  <2> QED BY <1>1, <2>1, PassInOrder
<1> QED BY <1>2, <1>3, <1>4

-----------------------------------------------------------------------------
(* While a schedule is not being sent, the GRT's loops start from LRT 0.   *)
SentToIsReset == pc[grt] \notin {"send", "stop", "done"} => sentTo = 0

(* iterate is called: every LRT is rested, no job has run.                 *)
LEMMA IterateInOrder ==
  ASSUME TInv, TInv', OInv, SentToIsReset, Iterate
  PROVE  OInv'
<1>1. /\ pc \in [LRT -> LrtPC \cup GrtPC] /\ grt \in LRT /\ iteration \in Nat
      /\ ran \in [Jobs -> Nat] /\ toNotify \in [LRT -> SUBSET LRT]
      /\ Counted /\ MessagesInOrder /\ ToNotifyAreNews /\ LastIDs /\ GrtPhases
      /\ FinishedAreRested(notifQueue[nLrt])
  BY ConstantTypes DEF TInv, LrtTypes, GrtTypes, OInv
<1>2. /\ pc[grt] = "idle" /\ iteration' = iteration + 1 /\ pc' = [pc EXCEPT ![grt] = "send"]
      /\ UNCHANGED <<notifQueue, jobQueue, jobQueueIndex, jobIx, lastJobID, jobStamps>>
      /\ UNCHANGED <<nSentJobs, sentTo, nFinishedPE, toNotify, ran>>
  BY DEF Iterate, At, queueVars, lrtVars
<1>3. nSentJobs = 0 /\ sentTo = 0 /\ \A l \in LRT : Rested(l)
  BY <1>1, <1>2 DEF GrtPhases, SentToIsReset
<1>4. \A j \in Jobs : HasRun(j) /\ mappedPE[j] \in LRT
  BY <1>3, ConstantTypes DEF Rested, JobsOf
<1>5. \A j \in Jobs : ~HasRun(j)' /\ ran'[j] + 1 = iteration'
  BY <1>1, <1>2, <1>4 DEF HasRun
<1>6. \A l \in LRT : /\ jobQueue'[l] = <<>> /\ jobQueueIndex'[l] = 0 /\ jobIx'[l] = -1
                     /\ \A i \in LRT : jobStamps'[l][i] = -1
                     /\ pc'[l] \notin {"exec", "notify"}
  BY <1>1, <1>2, <1>3 DEF Rested, Blank
<1>7. \A j \in Jobs : jobID[j] \in Nat /\ ~(jobID[j] <= -1) /\ 0 <= jobID[j] /\ ~(j <= 0)
  BY ScheduleFacts DEF Jobs
<1>8. Counted'
  BY <1>5 DEF Counted
<1>9. Progress'
  BY <1>5, <1>6, <1>7, ScheduleFacts DEF Progress, JobsOf
<1>10. JobQueueInOrder'
  <2> SUFFICES ASSUME NEW k \in LRT
               PROVE  (/\ \A n \in DOMAIN jobQueue[k] : /\ mappedPE[jobQueue[k][n]] = k
                                     /\ jobID[jobQueue[k][n]] = n - 1
                                     /\ jobQueue[k][n] <= SentJobs
                       /\ jobQueueIndex[k] <= Len(jobQueue[k])
                       /\ jobQueueIndex[k] = jobIx[k] + 1 + IF pc[k] = "exec" THEN 1 ELSE 0
                       /\ pc[k] \in {"exec", "notify"} => jobQueueIndex[k] > 0)'
    BY DEF JobQueueInOrder
  <2>1. DOMAIN jobQueue'[k] = {} /\ Len(jobQueue'[k]) = 0
    BY <1>6
  <2> QED BY <1>6, <2>1
<1>11. SentJobs' = 0
  BY <1>1, <1>2, <1>3 DEF SentJobs
<1>12. MessagesInOrder'
  <2> SUFFICES ASSUME NEW k \in LRT
               PROVE  AddsInOrder(k, notifQueue[k])' /\ UpdatesAreNews(k, notifQueue[k])'
    BY DEF MessagesInOrder
  <2>1. PICK q : q = notifQueue[k]
    OBVIOUS
  <2>2. q \in Seq(MessageType) /\ q = notifQueue'[k] /\ AddsInOrder(k, q) /\ UpdatesAreNews(k, q)
    BY <1>1, <1>2, <2>1, QueueDomains DEF MessagesInOrder
  <2>3. \A n \in DOMAIN q : q[n].subType # "JOB_ADD"
    <3> SUFFICES ASSUME NEW n \in DOMAIN q, q[n].subType = "JOB_ADD" PROVE FALSE
      OBVIOUS
    <3>1. q[n].index \in Jobs
      BY <2>2, ElementOfSeq, MessageFields
    <3> QED BY <1>4, <2>2, <3>1 DEF AddsInOrder
  <2>4. \A n \in DOMAIN q : q[n].subType # "JOB_UPDATE_JOBSTAMP"
    <3>1. \A i, s : ~Awaited(k, i, s)
      BY <1>4, ScheduleFacts DEF Awaited, Waiting
    <3> QED BY <2>2, <3>1 DEF UpdatesAreNews
  <2>5. AddsInOrder(k, notifQueue[k])'
    BY <1>7, <1>11, <2>2, <2>3, ScheduleFacts DEF AddsInOrder, JobsOf
  <2>6. UpdatesAreNews(k, notifQueue[k])'
    BY <2>2, <2>4 DEF UpdatesAreNews
  <2> QED BY <2>5, <2>6
<1>13. ToNotifyAreNews'
  <2>1. \A i \in LRT : toNotify'[i] = {}
    BY <1>1, <1>2, <1>3 DEF ToNotifyAreNews, Rested, Blank
  <2> QED BY <2>1 DEF ToNotifyAreNews
<1>14. HeldAreTrue'
  BY <1>6, <1>7 DEF HeldAreTrue, StampIsTrue
<1>15. WaitsAreOver'
  BY <1>4, <1>5, <1>6, <1>7 DEF WaitsAreOver, Waiting
<1>16. LastIDs'
  BY <1>1, <1>2 DEF LastIDs, IsEnd
<1>17. GrtPhases'
  <2>1. Blank(grt)' /\ pc'[grt] = "send" /\ ~(grt < 0)
    BY <1>1, <1>2, <1>6 DEF Blank, LRT
  <2> QED BY <1>1, <1>2, <1>3, <1>5, <2>1 DEF GrtPhases, LrtPC
<1>18. FinishedAreRested(notifQueue[nLrt])'
  <2>1. PICK q : q = notifQueue[nLrt]
    OBVIOUS
  <2>2. q = notifQueue'[nLrt] /\ (\A n \in DOMAIN q : ~IsFinished(q[n])) /\ nFinishedPE' = 0
    BY <1>1, <1>2, <2>1 DEF FinishedAreRested
  <2>3. \E F \in SUBSET (Activated \ {grt}) :
          Cardinality(F) = 0 /\ \A i \in F : Rested(i)' /\ ~FinishedFrom(i, q)
    BY FS_EmptySet
  <2>4. FinishedAreRested(q)'
    BY <2>2, <2>3 DEF FinishedAreRested, FinishedFrom, IsFinished
  <2> QED BY <2>2, <2>4 DEF FinishedAreRested
<1> QED BY <1>8, <1>9, <1>10, <1>12, <1>13, <1>14, <1>15, <1>16, <1>17, <1>18 DEF OInv

(* The job that is sent comes after those sent to its LRT before.          *)
LEMMA SendJobInOrder ==
  ASSUME TInv, TInv', OInv, SendJob
  PROVE  OInv'
<1>0. PICK j : j = nSentJobs + 1
  OBVIOUS
<1>1. /\ Counted /\ Progress /\ JobQueueInOrder /\ MessagesInOrder /\ ToNotifyAreNews
      /\ HeldAreTrue /\ WaitsAreOver /\ LastIDs /\ GrtPhases
      /\ FinishedAreRested(notifQueue[nLrt]) /\ grt \in LRT /\ nSentJobs \in Nat
  BY ConstantTypes, ScheduleTypes DEF TInv, GrtTypes, OInv
<1>2. /\ pc[grt] = "send" /\ nSentJobs < NJobs /\ nSentJobs' = j
      /\ Push(grt, mappedPE[j], Message("JOB_ADD", grt, j))
      /\ UNCHANGED <<jobQueue, jobQueueIndex, jobIx, lastJobID, jobStamps>>
      /\ UNCHANGED <<sentTo, nFinishedPE, iteration, pc, toNotify, ran>>
  BY <1>0 DEF SendJob, At, lrtVars
<1>3. j \in Jobs /\ mappedPE[j] \in LRT /\ mappedPE[j] \in Queues /\ j = nSentJobs + 1
  BY <1>0, <1>1, <1>2, ConstantTypes, ScheduleTypes DEF Jobs
<1>4. PICK l \in LRT : l = mappedPE[j] /\ l \in Queues
  BY <1>3
<1>5. ~HasRun(j) /\ j \in Int /\ nSentJobs < j
  <2>1. j \in Int /\ nSentJobs < j
    BY <1>1, <1>3
  <2> QED BY <1>1, <1>2, <1>3, <2>1 DEF GrtPhases
<1>6. PICK m \in MessageType :
        Push(grt, l, m) /\ m.subType = "JOB_ADD" /\ m.index = j
  <2>1. Message("JOB_ADD", grt, j) \in MessageType
    BY <1>1, <1>3, JobMessages
  <2> QED BY <1>2, <1>4, <2>1 DEF Message
<1>7. /\ notifQueue'[l] = Append(notifQueue[l], m)
      /\ \A r \in Queues : r # l => notifQueue'[r] = notifQueue[r]
      /\ \A r \in Queues : \A S : r # l \/ m.subType \notin S =>
           SameMessages(notifQueue[r], notifQueue'[r], S)
  BY <1>1, <1>4, <1>6, PushMoves, ZenonT(60)
<1>9. SameJobs
  BY <1>2 DEF SameJobs, SameStamps, SameRuns
<1>10. SentJobs = nSentJobs /\ SentJobs' = j
  BY <1>2 DEF SentJobs
<1>11. JobQueueInOrder' /\ Counted' /\ Progress' /\ HeldAreTrue' /\ WaitsAreOver'
  <2>1. SentJobs \in Nat /\ SentJobs' \in Nat /\ SentJobs <= SentJobs'
    BY <1>1, <1>3, <1>5, <1>10
  <2> QED BY <1>9, <2>1, SameJobsKeepQueue, SameJobsKeepParts
<1>12. /\ \A k \in LRT : /\ SameMessages(notifQueue[k], notifQueue'[k], {"JOB_UPDATE_JOBSTAMP"})
                         /\ SameMessages(notifQueue[k], notifQueue'[k], {"LRT_END_ITERATION"})
       /\ SameMessages(notifQueue[nLrt], notifQueue'[nLrt], {"LRT_FINISHED_ITERATION"})
  BY <1>6, <1>7, ConstantTypes
<1>13. \A p \in Jobs : p <= j /\ p # j <=> p <= nSentJobs
  BY <1>1, <1>3 DEF Jobs
<1>14. Len(jobQueue[l]) \in Nat /\ Len(jobQueue[l]) <= jobID[j]
  <2>1. jobQueue[l] \in Seq(Jobs) /\ Len(jobQueue[l]) \in Nat /\ jobID[j] \in Nat
    BY <1>3, LenProperties, ScheduleFacts DEF TInv, LrtTypes
  <2>2. CASE Len(jobQueue[l]) > 0
    <3>1. Len(jobQueue[l]) \in DOMAIN jobQueue[l]
      BY <2>1, <2>2, LenProperties
    <3>2. PICK p \in Jobs : p = jobQueue[l][Len(jobQueue[l])]
      BY <2>1, <3>1, ElementOfSeq
    <3>3. mappedPE[p] = l /\ jobID[p] = Len(jobQueue[l]) - 1 /\ p <= nSentJobs
      BY <1>1, <1>10, <3>1, <3>2 DEF JobQueueInOrder
    <3>4. p # j /\ p \in Int /\ p < j /\ jobID[p] \in Nat
      BY <1>1, <1>3, <3>2, <3>3, ScheduleFacts DEF Jobs
    <3>5. jobID[p] # jobID[j] /\ ~(jobID[j] < jobID[p])
      BY <1>3, <1>4, <1>5, <3>3, <3>4, ScheduleFacts
    <3> QED BY <2>1, <3>3, <3>4, <3>5
  <2> QED BY <2>1, <2>2
<1>15. MessagesInOrder'
  <2> SUFFICES ASSUME NEW k \in LRT
               PROVE  AddsInOrder(k, notifQueue[k])' /\ UpdatesAreNews(k, notifQueue[k])'
    BY DEF MessagesInOrder
  <2>1. PICK q, r : q = notifQueue[k] /\ r = notifQueue'[k]
    OBVIOUS
  <2>2. /\ q \in Seq(MessageType) /\ DOMAIN q \subseteq Nat /\ DOMAIN r \subseteq Nat
        /\ AddsInOrder(k, q) /\ UpdatesAreNews(k, q)
    BY <1>1, <2>1, QueueDomains, QueueDomainsNext DEF MessagesInOrder
  <2>3. UpdatesAreNews(k, r)'
    BY <1>9, <1>12, <2>1, <2>2, UpdatesKept DEF SameJobs, SameStamps
  <2>4. \A x \in DOMAIN q : q[x].subType = "JOB_ADD" =>
          /\ q[x].index \in Jobs /\ mappedPE[q[x].index] = k /\ ~HasRun(q[x].index)
          /\ Len(jobQueue[k]) <= jobID[q[x].index] /\ q[x].index <= nSentJobs
    BY <1>10, <2>2, ElementOfSeq, MessageFields DEF AddsInOrder
  <2>5. CASE k # l
    <3>1. r = q
      BY <1>7, <2>1, <2>5, ConstantTypes
    <3>2. ASSUME NEW x \in DOMAIN q, q[x].subType = "JOB_ADD"
          PROVE  LET p == q[x].index IN
                 mappedPE[p] = k /\ ~HasRun(p)' /\ Len(jobQueue[k])' <= jobID[p] /\ p <= SentJobs'
      BY <1>2, <1>9, <1>10, <1>13, <2>4, <3>2, SameJobsKeep
    <3>3. ASSUME NEW p \in JobsOf(k), ~HasRun(p)', Len(jobQueue[k])' <= jobID[p], p <= SentJobs'
          PROVE  \E x \in DOMAIN q : q[x].subType = "JOB_ADD" /\ q[x].index = p
      <4>1. p # j /\ p \in Jobs
        BY <1>4, <2>5 DEF JobsOf
      <4>2. p <= SentJobs /\ ~HasRun(p) /\ Len(jobQueue[k]) <= jobID[p]
        BY <1>2, <1>9, <1>10, <1>13, <3>3, <4>1, SameJobsKeep
      <4> QED BY <2>2, <4>2 DEF AddsInOrder
    <3>4. \A x, y \in DOMAIN q :
            q[x].subType = "JOB_ADD" /\ q[y].subType = "JOB_ADD" /\ x < y => q[x].index < q[y].index
      BY <2>2 DEF AddsInOrder
    <3>5. AddsInOrder(k, r)'
      BY <3>1, <3>2, <3>3, <3>4 DEF AddsInOrder, JobsOf
    <3>6. AddsInOrder(k, notifQueue[k])'
      BY <2>1, <3>5 DEF AddsInOrder
    <3>7. UpdatesAreNews(k, notifQueue[k])'
      BY <2>1, <2>3 DEF UpdatesAreNews
    <3> QED BY <3>6, <3>7
  <2>6. CASE k = l
    <3>0. PICK n : n = Len(q) + 1
      OBVIOUS
    <3>1. /\ DOMAIN r = 1..n /\ n \in Nat /\ DOMAIN q = 1..(n - 1) /\ r[n] = m
          /\ \A x \in 1..(n - 1) : r[x] = q[x]
      <4>1. r = Append(q, m)
        BY <1>7, <2>1, <2>6
      <4> QED BY <2>2, <3>0, <4>1, AppendProperties, LenProperties
    <3>2. ASSUME NEW x \in DOMAIN r, r[x].subType = "JOB_ADD"
          PROVE  /\ r[x].index \in Jobs /\ mappedPE[r[x].index] = l /\ ~HasRun(r[x].index)
                 /\ Len(jobQueue[l]) <= jobID[r[x].index] /\ r[x].index <= j
      <4>1. CASE x = n
        BY <1>3, <1>4, <1>5, <1>6, <1>14, <3>1, <4>1
      <4>2. CASE x \in 1..(n - 1)
        BY <1>13, <2>4, <2>6, <3>1, <3>2, <4>2
      <4> QED BY <3>1, <4>1, <4>2
    <3>3. ASSUME NEW x \in DOMAIN r, r[x].subType = "JOB_ADD"
          PROVE  LET p == r[x].index IN
                 mappedPE[p] = k /\ ~HasRun(p)' /\ Len(jobQueue[k])' <= jobID[p] /\ p <= SentJobs'
      BY <1>2, <1>9, <1>10, <2>6, <3>2, <3>3, SameJobsKeep
    <3>4. ASSUME NEW p \in JobsOf(k), ~HasRun(p)', Len(jobQueue[k])' <= jobID[p], p <= SentJobs'
          PROVE  \E x \in DOMAIN r : r[x].subType = "JOB_ADD" /\ r[x].index = p
      <4>1. CASE p = j
        <5>1. n \in DOMAIN r
          BY <2>2, <3>0, <3>1, LenProperties
        <5> QED BY <1>6, <3>1, <4>1, <5>1
      <4>2. CASE p # j
        <5>1. p <= SentJobs /\ ~HasRun(p) /\ Len(jobQueue[k]) <= jobID[p]
          BY <1>2, <1>9, <1>10, <1>13, <3>4, <4>2, ScheduleFacts, SameJobsKeep
        <5>2. PICK x \in DOMAIN q : q[x].subType = "JOB_ADD" /\ q[x].index = p
          BY <2>2, <5>1 DEF AddsInOrder
        <5>3. x \in DOMAIN r /\ r[x] = q[x]
          BY <3>1
        <5> QED BY <5>2, <5>3
      <4> QED BY <4>1, <4>2
    <3>5. ASSUME NEW x \in DOMAIN r, NEW y \in DOMAIN r, r[x].subType = "JOB_ADD",
                 r[y].subType = "JOB_ADD", x < y
          PROVE  r[x].index < r[y].index
      <4>1. x \in 1..(n - 1) /\ (y = n \/ y \in 1..(n - 1))
        BY <3>1, <3>5
      <4>2. CASE y = n
        <5>1. r[x].index <= nSentJobs /\ r[x].index \in Jobs /\ r[y].index = j
          BY <1>6, <2>4, <3>1, <3>5, <4>1, <4>2
        <5> QED BY <1>1, <1>3, <5>1 DEF Jobs
      <4>3. CASE y \in 1..(n - 1)
        BY <2>2, <3>1, <3>5, <4>1, <4>3 DEF AddsInOrder
      <4> QED BY <4>1, <4>2, <4>3
    <3>6. AddsInOrder(k, r)'
      BY <3>3, <3>4, <3>5 DEF AddsInOrder, JobsOf
    <3>7. AddsInOrder(k, notifQueue[k])'
      BY <2>1, <3>6 DEF AddsInOrder
    <3>8. UpdatesAreNews(k, notifQueue[k])'
      BY <2>1, <2>3 DEF UpdatesAreNews
    <3> QED BY <3>7, <3>8
  <2> QED BY <2>5, <2>6
<1>16. ToNotifyAreNews'
  BY <1>2, <1>9, <1>12, ToNotifyKept DEF SameJobs
<1>17. LastIDs' /\ (HasEnd(grt)' <=> HasEnd(grt))
  BY <1>1, <1>2, <1>12, LastIDsKept
<1>18. GrtPhases'
  <2>1. Blank(grt)' /\ (grt < sentTo' => HasEnd(grt)') /\ pc'[grt] = "send"
    BY <1>1, <1>2, <1>9, <1>17, SameJobsKeep DEF GrtPhases
  <2>2. ASSUME NEW p \in Jobs, nSentJobs' < p PROVE ~HasRun(p)'
    <3>1. nSentJobs < p
      BY <1>1, <1>2, <1>3, <2>2 DEF Jobs
    <3> QED BY <1>1, <1>2, <1>9, <3>1, SameJobsKeep DEF GrtPhases
  <2> QED BY <2>1, <2>2 DEF GrtPhases, LrtPC
<1>19. FinishedAreRested(notifQueue[nLrt])'
  <2>1. PICK r : r = notifQueue'[nLrt]
    OBVIOUS
  <2>2. /\ \A k \in LRT : Rested(k) => Rested(k)'
        /\ DOMAIN notifQueue[nLrt] \subseteq Nat /\ DOMAIN r \subseteq Nat
    BY <1>9, <2>1, SameJobsKeep, QueueDomains, QueueDomainsNext, ConstantTypes
  <2>3. FinishedAreRested(r)'
    BY <1>1, <1>2, <1>12, <2>1, <2>2, FinishedKept
  <2> QED BY <2>1, <2>3 DEF FinishedAreRested
<1> QED BY <1>11, <1>15, <1>16, <1>17, <1>18, <1>19 DEF OInv

LEMMA SendEndNotificationInOrder ==
  ASSUME TInv, TInv', OInv, SendEndNotification
  PROVE  OInv'
<1>0. PICK l : l = sentTo
  OBVIOUS
<1>1. /\ MessagesInOrder /\ LastIDs /\ GrtPhases /\ grt \in LRT /\ sentTo \in Nat /\ nLrt \in Nat
  BY ConstantTypes DEF TInv, GrtTypes, OInv
<1>2. /\ pc[grt] = "send" /\ nSentJobs = NJobs /\ l < nLrt /\ sentTo' = l + 1
      /\ Push(grt, l, Message("LRT_END_ITERATION", grt, nJobPerPE[l] - 1))
      /\ UNCHANGED <<jobQueue, jobQueueIndex, jobIx, lastJobID, jobStamps>>
      /\ UNCHANGED <<nSentJobs, nFinishedPE, iteration, pc, toNotify, ran>>
  BY <1>0 DEF SendEndNotification, At, lrtVars
<1>3. l \in LRT /\ l \in Queues
  BY <1>0, <1>1, <1>2, ConstantTypes DEF LRT
<1>4. PICK m \in MessageType : Push(grt, l, m) /\ IsEnd(m, l)
  <2>1. Message("LRT_END_ITERATION", grt, nJobPerPE[l] - 1) \in MessageType
    BY <1>1, <1>3, OtherMessages, ConstantTypes DEF SubTypes
  <2> QED BY <1>2, <2>1 DEF Message, IsEnd
<1>5. /\ notifQueue'[l] = Append(notifQueue[l], m)
      /\ \A r \in Queues : r # l => notifQueue'[r] = notifQueue[r]
      /\ \A r \in Queues : \A S : r # l \/ m.subType \notin S =>
           SameMessages(notifQueue[r], notifQueue'[r], S)
  BY <1>1, <1>3, <1>4, PushMoves
<1>7. /\ \A k \in LRT : /\ SameMessages(notifQueue[k], notifQueue'[k], {"JOB_ADD"})
                        /\ SameMessages(notifQueue[k], notifQueue'[k], {"JOB_UPDATE_JOBSTAMP"})
      /\ SameMessages(notifQueue[nLrt], notifQueue'[nLrt], {"LRT_FINISHED_ITERATION"})
  BY <1>4, <1>5, ConstantTypes DEF IsEnd
<1>8. SameJobs /\ SentJobs' = SentJobs
  BY <1>2 DEF SameJobs, SameStamps, SameRuns, SentJobs
<1>9. /\ Counted' /\ Progress' /\ JobQueueInOrder' /\ MessagesInOrder' /\ ToNotifyAreNews'
      /\ HeldAreTrue' /\ WaitsAreOver' /\ FinishedAreRested(notifQueue[nLrt])'
  BY <1>2, <1>7, <1>8, QuietParts
<1>10. /\ \A k \in LRT : k # l => notifQueue'[k] = notifQueue[k]
       /\ DOMAIN notifQueue'[l] = 1..(Len(notifQueue[l]) + 1) /\ Len(notifQueue[l]) \in Nat
       /\ DOMAIN notifQueue[l] = 1..Len(notifQueue[l])
       /\ \A n \in DOMAIN notifQueue[l] : notifQueue'[l][n] = notifQueue[l][n]
       /\ notifQueue'[l][Len(notifQueue[l]) + 1] = m
  <2>1. notifQueue[l] \in Seq(MessageType) /\ notifQueue'[l] = Append(notifQueue[l], m)
    BY <1>3, <1>5, QueueDomains
  <2>2. \A k \in LRT : k # l => notifQueue'[k] = notifQueue[k]
    BY <1>5, ConstantTypes
  <2> QED BY <2>1, <2>2, AppendProperties, LenProperties
<1>11. LastIDs'
  <2> SUFFICES ASSUME NEW k \in LRT
               PROVE  /\ lastJobID'[k] \in {-1, nJobPerPE[k] - 1}
                      /\ \A n \in DOMAIN notifQueue'[k] :
                           notifQueue'[k][n].subType = "LRT_END_ITERATION" =>
                             IsEnd(notifQueue'[k][n], k)
    BY DEF LastIDs, IsEnd
  <2>1. CASE k = l
    BY <1>1, <1>2, <1>4, <1>10, <2>1 DEF LastIDs
  <2>2. CASE k # l
    BY <1>1, <1>2, <1>10, <2>2 DEF LastIDs
  <2> QED BY <2>1, <2>2
<1>12. grt < l + 1 => HasEnd(grt)'
  <2>1. CASE grt = l
    BY <1>4, <1>10, <2>1 DEF HasEnd, IsEnd
  <2>2. CASE grt # l
    <3>1. grt < l + 1 => grt < sentTo
      BY <1>0, <1>1, <2>2 DEF LRT
    <3> QED BY <1>1, <1>2, <1>10, <2>2, <3>1 DEF GrtPhases, HasEnd
  <2> QED BY <2>1, <2>2
<1>13. GrtPhases'
  BY <1>1, <1>2, <1>8, <1>12, SameJobsKeep DEF GrtPhases, LrtPC
<1> QED BY <1>9, <1>11, <1>13 DEF OInv

LEMMA RunUntilNoMoreJobsInOrder ==
  ASSUME TInv, TInv', OInv, RunUntilNoMoreJobs
  PROVE  OInv'
<1>1. /\ pc \in [LRT -> LrtPC \cup GrtPC] /\ grt \in LRT /\ grt < nLrt
      /\ LastIDs /\ GrtPhases
  BY ConstantTypes, PlatformAssumption DEF TInv, LrtTypes, OInv, LRT
<1>2. /\ pc[grt] = "send" /\ nSentJobs = NJobs /\ sentTo = nLrt
      /\ pc' = [pc EXCEPT ![grt] = "drain"]
      /\ UNCHANGED <<jobQueue, jobQueueIndex, jobIx, lastJobID, jobStamps>>
      /\ UNCHANGED <<nSentJobs, nFinishedPE, iteration, toNotify, ran>>
      /\ notifQueue' = notifQueue
  BY DEF RunUntilNoMoreJobs, At, lrtVars, queueVars
<1>3. SameJobs /\ SentJobs' = SentJobs
  BY <1>1, <1>2 DEF SameJobs, SameStamps, SameRuns, SentJobs
<1>4. \A r \in Queues : \A s \in SubTypes : SameMessages(notifQueue[r], notifQueue'[r], {s})
  BY <1>2, SameQueue, QueueDomains
<1>5. /\ \A k \in LRT : /\ SameMessages(notifQueue[k], notifQueue'[k], {"JOB_ADD"})
                        /\ SameMessages(notifQueue[k], notifQueue'[k], {"JOB_UPDATE_JOBSTAMP"})
      /\ SameMessages(notifQueue[nLrt], notifQueue'[nLrt], {"LRT_FINISHED_ITERATION"})
  BY <1>4, ConstantTypes DEF SubTypes
<1>6. pc'[grt] = "drain"
  BY <1>1, <1>2
<1>7. /\ Counted' /\ Progress' /\ JobQueueInOrder' /\ MessagesInOrder' /\ ToNotifyAreNews'
      /\ HeldAreTrue' /\ WaitsAreOver' /\ FinishedAreRested(notifQueue[nLrt])'
  BY <1>2, <1>3, <1>5, <1>6, QuietParts
<1>8. LastIDs' /\ (HasEnd(grt)' <=> HasEnd(grt))
  BY <1>1, <1>2 DEF LastIDs, HasEnd, IsEnd
<1>9. GrtPhases'
  BY <1>1, <1>2, <1>6, <1>8 DEF GrtPhases
<1> QED BY <1>7, <1>8, <1>9 DEF OInv

(* The sender joins those that the GRT has counted.                        *)
LEMMA ReceiveFinishedInOrder ==
  ASSUME TInv, TInv', OInv, ReceiveFinished
  PROVE  OInv'
<1>0. PICK q, m : q = notifQueue[nLrt] /\ m = Head(q)
  OBVIOUS
<1>1. /\ LastIDs /\ GrtPhases /\ FinishedAreRested(q) /\ LrtTypes /\ grt \in LRT
      /\ q \in Seq(MessageType) /\ notifQueue \in [Queues -> Seq(MessageType)]
      /\ nLrt \in Queues
  BY <1>0, ConstantTypes DEF TInv, QueueTypes, OInv
<1>2. /\ pc[grt] = "recv" /\ IsFinished(m) /\ credits[nLrt] > 0
      /\ notifQueue' = [notifQueue EXCEPT ![nLrt] = Tail(q)]
      /\ nFinishedPE' = nFinishedPE + 1
      /\ UNCHANGED <<jobQueue, jobQueueIndex, jobIx, lastJobID, jobStamps>>
      /\ UNCHANGED <<nSentJobs, sentTo, iteration, pc, toNotify, ran>>
  BY <1>0, <1>1 DEF ReceiveFinished, At, lrtVars, IsFinished
<1>3. q # <<>>
  BY <1>0, <1>1, <1>2, CreditMeansItem DEF TInv
<1>4. /\ \A k \in LRT : notifQueue'[k] = notifQueue[k]
      /\ notifQueue'[nLrt] = Tail(q)
  BY <1>1, <1>2, ConstantTypes
<1>5. SameJobs /\ SentJobs' = SentJobs
  BY <1>2 DEF SameJobs, SameStamps, SameRuns, SentJobs
<1>6. \A k \in LRT : \A S : SameMessages(notifQueue[k], notifQueue'[k], S)
  BY <1>4, SameQueue, QueueDomains
<1>7. JobQueueInOrder' /\ Counted' /\ Progress' /\ HeldAreTrue' /\ WaitsAreOver'
  <2>1. SentJobs \in Nat /\ SentJobs <= SentJobs'
    BY <1>5, ScheduleTypes DEF SentJobs, TInv, GrtTypes
  <2> QED BY <1>5, <2>1, SameJobsKeepQueue, SameJobsKeepParts
<1>8. MessagesInOrder' /\ ToNotifyAreNews'
  BY <1>2, <1>5, <1>6, MessagesKept, ToNotifyKept DEF SameJobs
<1>9. LastIDs' /\ (HasEnd(grt)' <=> HasEnd(grt))
  BY <1>1, <1>2, <1>6, LastIDsKept
<1>10. GrtPhases'
  BY <1>1, <1>2, <1>5, <1>9, GrtPhasesKept
<1>11. FinishedAreRested(notifQueue[nLrt])'
  <2>1. PICK r : r = Tail(q)
    OBVIOUS
  <2>2. /\ DOMAIN r \subseteq Nat /\ 1 \in DOMAIN q /\ q[1] = m
        /\ \A x \in DOMAIN r : x + 1 \in DOMAIN q /\ r[x] = q[x + 1] /\ x + 1 # 1
    BY <1>0, <1>1, <1>3, <2>1, TailElements
  <2>3. PICK i : i = m.lrtID
    OBVIOUS
  <2>4. i \in Activated \ {grt} /\ Rested(i) /\ FinishedFrom(i, q)
    BY <1>1, <1>2, <2>2, <2>3 DEF FinishedAreRested, FinishedFrom
  <2>5. PICK F \in SUBSET (Activated \ {grt}) :
          /\ Cardinality(F) = nFinishedPE
          /\ \A k \in F : Rested(k) /\ ~FinishedFrom(k, q)
    BY <1>1 DEF FinishedAreRested
  <2>6. \A k \in LRT : Rested(k) => Rested(k)'
    BY <1>5, SameJobsKeep
  <2>7. ~FinishedFrom(i, r)
    BY <1>1, <1>2, <2>2, <2>3 DEF FinishedAreRested, FinishedFrom
  <2>8. \E G \in SUBSET (Activated \ {grt}) :
          /\ Cardinality(G) = nFinishedPE + 1
          /\ \A k \in G : Rested(k)' /\ ~FinishedFrom(k, r)
    <3>1. IsFiniteSet(F)
      <4>1. IsFiniteSet(LRT)
        BY PlatformAssumption, FS_Interval DEF LRT
      <4> QED BY <4>1, PlatformAssumption, FS_Subset
    <3>2. i \notin F
      BY <2>4, <2>5
    <3>3. Cardinality(F \cup {i}) = nFinishedPE + 1
      BY <2>5, <3>1, <3>2, FS_AddElement
    <3>4. \A k \in F \cup {i} : Rested(k)' /\ ~FinishedFrom(k, r)
      <4>1. \A k \in F : ~FinishedFrom(k, r)
        BY <2>2, <2>5 DEF FinishedFrom
      <4>2. \A k \in F \cup {i} : Rested(k) /\ k \in LRT
        BY <2>4, <2>5, PlatformAssumption
      <4> QED BY <2>6, <2>7, <4>1, <4>2
    <3> QED BY <2>4, <2>5, <3>3, <3>4
  <2>9. ASSUME NEW x \in DOMAIN r, IsFinished(r[x])
        PROVE  r[x].lrtID \in Activated \ {grt} /\ Rested(r[x].lrtID)'
    <3>1. PICK k \in Activated \ {grt} : k = r[x].lrtID /\ Rested(k)
      BY <1>1, <2>2, <2>9 DEF FinishedAreRested
    <3>2. Rested(k)'
      BY <2>6, <3>1, PlatformAssumption
    <3> QED BY <3>1, <3>2
  <2>10. ASSUME NEW x \in DOMAIN r, NEW y \in DOMAIN r, IsFinished(r[x]), IsFinished(r[y]),
                r[x].lrtID = r[y].lrtID
         PROVE  x = y
    <3>1. x + 1 = y + 1
      BY <1>1, <2>2, <2>10 DEF FinishedAreRested
    <3> QED BY <2>2, <3>1
  <2>11. FinishedAreRested(r)'
    BY <1>2, <2>8, <2>9, <2>10 DEF FinishedAreRested, FinishedFrom, IsFinished
  <2> QED BY <1>4, <2>1, <2>11 DEF FinishedAreRested
<1> QED BY <1>7, <1>8, <1>9, <1>10, <1>11 DEF OInv

LEMMA PushBackTraceInOrder ==
  ASSUME TInv, TInv', OInv, PushBackTrace
  PROVE  OInv'
<1>1. /\ nLrt \in Queues
      /\ notifQueue \in [Queues -> Seq(MessageType)]
  BY ConstantTypes DEF TInv, QueueTypes, OInv
<1>2. PICK q \in Seq(MessageType) : q = notifQueue[nLrt]
  BY <1>1
<1>3. /\ Head(q).subType # "LRT_FINISHED_ITERATION" /\ credits[nLrt] > 0
      /\ notifQueue' = [notifQueue EXCEPT ![nLrt] = Append(Tail(q), Head(q))]
      /\ UNCHANGED <<jobQueue, jobQueueIndex, jobIx, lastJobID, jobStamps>>
      /\ UNCHANGED <<nSentJobs, nFinishedPE, sentTo, iteration, pc, toNotify, ran>>
  BY <1>1, <1>2 DEF PushBackTrace, lrtVars, grtVars
<1>4. q # <<>>
  BY <1>1, <1>2, <1>3, CreditMeansItem DEF TInv
<1>5. SameMessages(notifQueue[nLrt], notifQueue'[nLrt], {"LRT_FINISHED_ITERATION"})
  <2>1. notifQueue'[nLrt] = Append(Tail(q), Head(q))
    BY <1>1, <1>3
  <2> QED BY <1>2, <1>3, <1>4, <2>1, RotatedQueue
<1>6. \A k \in LRT : \A S : SameMessages(notifQueue[k], notifQueue'[k], S)
  BY <1>1, <1>3, SameQueue, QueueDomains, ConstantTypes
<1>7. SameJobs
  BY <1>3 DEF SameJobs, SameStamps, SameRuns
<1> QED BY <1>3, <1>5, <1>6, <1>7, QuietStep

(* All the LRTs that have jobs have been waited for.                       *)
LEMMA AllRested ==
  ASSUME TInv, OInv, pc[grt] = "recv", nFinishedPE = NPEToWait
  PROVE  /\ \A l \in LRT : Rested(l)
         /\ \A k \in DOMAIN notifQueue[nLrt] : ~IsFinished(notifQueue[nLrt][k])
<1>1. PICK F \in SUBSET (Activated \ {grt}) :
        /\ Cardinality(F) = nFinishedPE
        /\ \A i \in F : Rested(i) /\ ~FinishedFrom(i, notifQueue[nLrt])
  BY DEF OInv, FinishedAreRested
<1>2. IsFiniteSet(Activated)
  <2>1. IsFiniteSet(LRT)
    BY PlatformAssumption, FS_Interval DEF LRT
  <2> QED BY <2>1, PlatformAssumption, FS_Subset
<1>3. IsFiniteSet(Activated \ {grt}) /\ Cardinality(Activated \ {grt}) = NPEToWait
  BY <1>2, PlatformAssumption, FS_RemoveElement DEF NPEToWait
<1>4. F = Activated \ {grt}
  BY <1>1, <1>3, FS_Subset
<1>5. ASSUME NEW l \in LRT PROVE Rested(l)
  <2>1. CASE l = grt
    BY <2>1 DEF OInv, GrtPhases
  <2>2. CASE l \in Activated \ {grt}
    BY <1>1, <1>4, <2>2
  <2>3. CASE l \notin Activated
    <3>1. JobsOf(l) = {}
      BY <2>3, ScheduleTypes DEF JobsOf
    <3> QED BY <3>1, NoJobsRested
  <2> QED BY <2>1, <2>2, <2>3
<1>6. \A k \in DOMAIN notifQueue[nLrt] : ~IsFinished(notifQueue[nLrt][k])
  BY <1>1, <1>4 DEF OInv, FinishedAreRested, FinishedFrom
<1> QED BY <1>5, <1>6

LEMMA IterateReturnsInOrder ==
  ASSUME TInv, TInv', OInv, IterateReturns
  PROVE  OInv'
<1>1. /\ pc \in [LRT -> LrtPC \cup GrtPC] /\ grt \in LRT
      /\ MessagesInOrder /\ LastIDs /\ GrtPhases
  BY ConstantTypes DEF TInv, LrtTypes, OInv
<1>2. /\ pc[grt] = "recv" /\ nFinishedPE = NPEToWait /\ nFinishedPE' = 0
      /\ pc' = [pc EXCEPT ![grt] = "idle"]
      /\ UNCHANGED <<jobQueue, jobQueueIndex, jobIx, lastJobID, jobStamps>>
      /\ UNCHANGED <<nSentJobs, sentTo, iteration, toNotify, ran, notifQueue>>
  BY DEF IterateReturns, At, lrtVars, queueVars
<1>3. /\ \A l \in LRT : Rested(l)
      /\ \A k \in DOMAIN notifQueue[nLrt] : ~IsFinished(notifQueue[nLrt][k])
  BY <1>2, AllRested
<1>4. SameJobs
  BY <1>1, <1>2 DEF SameJobs, SameStamps, SameRuns
<1>5. pc'[grt] = "idle" /\ SentJobs = NJobs /\ SentJobs' = 0 /\ nSentJobs = 0
  BY <1>1, <1>2 DEF SentJobs, GrtPhases
<1>6. JobQueueInOrder' /\ Counted' /\ Progress' /\ HeldAreTrue' /\ WaitsAreOver'
  BY <1>3, <1>4, <1>5, ScheduleTypes, SameJobsKeepQueue, SameJobsKeepParts DEF Rested
<1>7. /\ \A l \in LRT : Rested(l)'
      /\ \A j \in Jobs : HasRun(j) /\ HasRun(j)' /\ mappedPE[j] \in LRT
  <2>1. \A j \in Jobs : HasRun(j) /\ mappedPE[j] \in LRT
    BY <1>3, ConstantTypes DEF Rested, JobsOf
  <2> QED BY <1>3, <1>4, <2>1, SameJobsKeep
<1>8. MessagesInOrder'
  <2> SUFFICES ASSUME NEW k \in LRT
               PROVE  AddsInOrder(k, notifQueue[k])' /\ UpdatesAreNews(k, notifQueue[k])'
    BY DEF MessagesInOrder
  <2>1. PICK q : q = notifQueue[k]
    OBVIOUS
  <2>2. q \in Seq(MessageType) /\ q = notifQueue'[k] /\ AddsInOrder(k, q) /\ UpdatesAreNews(k, q)
    BY <1>1, <1>2, <2>1, QueueDomains DEF MessagesInOrder
  <2>3. \A n \in DOMAIN q : q[n].subType # "JOB_ADD"
    <3> SUFFICES ASSUME NEW n \in DOMAIN q, q[n].subType = "JOB_ADD" PROVE FALSE
      OBVIOUS
    <3>1. q[n].index \in Jobs
      BY <2>2, ElementOfSeq, MessageFields
    <3> QED BY <1>7, <2>2, <3>1 DEF AddsInOrder
  <2>4. \A n \in DOMAIN q : q[n].subType # "JOB_UPDATE_JOBSTAMP"
    <3>1. \A i, s : ~Awaited(k, i, s)
      BY <1>7, ScheduleFacts DEF Awaited, Waiting
    <3> QED BY <2>2, <3>1 DEF UpdatesAreNews
  <2>5. AddsInOrder(k, notifQueue[k])'
    BY <1>7, <2>2, <2>3, ScheduleFacts DEF AddsInOrder, JobsOf
  <2>6. UpdatesAreNews(k, notifQueue[k])'
    BY <2>2, <2>4 DEF UpdatesAreNews
  <2> QED BY <2>5, <2>6
<1>9. ToNotifyAreNews'
  <2>1. \A l \in LRT : \A S : SameMessages(notifQueue[l], notifQueue'[l], S)
    BY <1>2, SameQueue, QueueDomains
  <2> QED BY <1>2, <1>4, <2>1, ToNotifyKept DEF SameJobs
<1>10. LastIDs'
  BY <1>1, <1>2 DEF LastIDs, IsEnd
<1>11. GrtPhases'
  BY <1>1, <1>2, <1>5, <1>7 DEF GrtPhases, LrtPC
<1>12. FinishedAreRested(notifQueue[nLrt])'
  <2>1. PICK q : q = notifQueue[nLrt]
    OBVIOUS
  <2>2. q = notifQueue'[nLrt] /\ \A n \in DOMAIN q : ~IsFinished(q[n])
    BY <1>2, <1>3, <2>1
  <2>3. \E F \in SUBSET (Activated \ {grt}) :
          Cardinality(F) = 0 /\ \A i \in F : Rested(i)' /\ ~FinishedFrom(i, q)
    BY FS_EmptySet
  <2>4. FinishedAreRested(q)'
    BY <1>2, <2>2, <2>3 DEF FinishedAreRested, FinishedFrom, IsFinished
  <2> QED BY <2>2, <2>4 DEF FinishedAreRested
<1> QED BY <1>6, <1>8, <1>9, <1>10, <1>11, <1>12 DEF OInv

LEMMA GrtStopsInOrder ==
  ASSUME TInv, TInv', OInv, Destroy \/ GrtStops
  PROVE  OInv'
<1>1. /\ pc \in [LRT -> LrtPC \cup GrtPC] /\ grt \in LRT /\ grt \in Queues
      /\ GrtPhases /\ sentTo \in Nat /\ nLrt \in Nat
  BY ConstantTypes DEF TInv, LrtTypes, GrtTypes, OInv
<1>2. CASE Destroy \/ Barrier
  <2>1. /\ pc[grt] \in {"idle", "stop"}
        /\ pc' = [pc EXCEPT ![grt] = "stop"] \/ pc' = [pc EXCEPT ![grt] = "done"]
        /\ UNCHANGED <<jobQueue, jobQueueIndex, jobIx, lastJobID, jobStamps>>
        /\ UNCHANGED <<nSentJobs, sentTo, nFinishedPE, iteration, toNotify, ran>>
        /\ notifQueue' = notifQueue
    BY <1>2 DEF Destroy, Barrier, At, lrtVars, grtVars, queueVars
  <2>2. SameJobs
    BY <1>1, <2>1 DEF SameJobs, SameStamps, SameRuns
  <2>3. pc'[grt] \in {"stop", "done"}
    BY <1>1, <2>1
  <2> QED BY <2>1, <2>2, <2>3, SilentStep
<1>3. CASE SendStop
  <2>0. PICK l : l = sentTo
    OBVIOUS
  <2>1. /\ pc[grt] = "stop" /\ l < nLrt
        /\ l = grt => UNCHANGED queueVars
        /\ l # grt => Push(grt, l, Message("LRT_STOP", grt, -1))
        /\ UNCHANGED <<jobQueue, jobQueueIndex, jobIx, lastJobID, jobStamps>>
        /\ UNCHANGED <<nSentJobs, nFinishedPE, iteration, pc, toNotify, ran>>
    BY <1>3, <2>0 DEF SendStop, At, lrtVars
  <2>2. l \in LRT /\ l \in Queues
    BY <1>1, <2>0, <2>1, ConstantTypes DEF LRT
  <2>3. SameJobs
    BY <2>1 DEF SameJobs, SameStamps, SameRuns
  <2>4. /\ \A r \in Queues : \A s \in SubTypes \ {"LRT_STOP"} :
             SameMessages(notifQueue[r], notifQueue'[r], {s})
    <3>1. CASE l = grt
      BY <1>1, <2>1, <3>1, SameQueue, QueueDomains DEF queueVars, GrtPhases
    <3>2. CASE l # grt
      <4>1. PICK m \in MessageType : Push(grt, l, m) /\ m.subType = "LRT_STOP"
        <5>1. Message("LRT_STOP", grt, -1) \in MessageType
          BY <1>1, OtherMessages, ConstantTypes DEF SubTypes
        <5> QED BY <2>1, <3>2, <5>1 DEF Message
      <4>2. \A r \in Queues : \A S : m.subType \notin S =>
              SameMessages(notifQueue[r], notifQueue'[r], S)
        BY <1>1, <2>2, <4>1, PushMoves
      <4> QED BY <4>1, <4>2
    <3> QED BY <3>1, <3>2
  <2>5. /\ \A k \in LRT : \A s \in SubTypes \ {"LRT_STOP", "LRT_FINISHED_ITERATION", "TRACE_LRT"} :
             SameMessages(notifQueue[k], notifQueue'[k], {s})
        /\ SameMessages(notifQueue[nLrt], notifQueue'[nLrt], {"LRT_FINISHED_ITERATION"})
    BY <2>4, ConstantTypes DEF SubTypes
  <2> QED BY <2>1, <2>3, <2>4, <2>5, QuietStep
<1> QED BY <1>2, <1>3 DEF GrtStops

-----------------------------------------------------------------------------
LEMMA RunInOrder ==
  ASSUME TInv, TInv', OInv, NEW l \in LRT, Run(l), ~GrtMisses
  PROVE  OInv'
<1>1. CASE HandleNotification(l)
  BY <1>1, HandleJobAddInOrder, HandleUpdateJobStampInOrder, HandleEndIterationInOrder,
     HandleStopInOrder DEF HandleNotification
<1>2. CASE ExitRun(l)
  BY <1>2, ExitRunInOrder
<1>3. CASE PassWithoutJob(l)
  <2>1. Drained(l) /\ EndPass(l, "wait") /\ pc[l] = "drain"
    BY <1>3 DEF PassWithoutJob, Drained, At
  <2>2. toNotify[l] = {}
    BY <2>1 DEF OInv, ToNotifyAreNews
  <2> QED BY <2>1, <2>2, EndPassInOrder
<1>4. CASE StartJob(l)
  BY <1>4, StartJobInOrder
<1>5. CASE FinishJob(l)
  BY <1>5, FinishJobInOrder
<1>6. CASE NotifyLRTJobStamp(l)
  BY <1>6, NotifyInOrder
<1>7. CASE PassWithJob(l)
  <2>1. pc[l] = "notify" /\ toNotify[l] = {} /\ EndPass(l, "drain")
    BY <1>7 DEF PassWithJob, At
  <2> QED BY <2>1, EndPassInOrder
<1> QED BY <1>1, <1>2, <1>3, <1>4, <1>5, <1>6, <1>7 DEF Run

LEMMA SentToKept ==
  ASSUME TInv, SentToIsReset, [Next]_vars
  PROVE  SentToIsReset'
<1>1. pc \in [LRT -> LrtPC \cup GrtPC] /\ grt \in LRT
  BY ConstantTypes DEF TInv, LrtTypes
<1>2. ASSUME NEW l \in LRT, Run(l) PROVE SentToIsReset'
  <2>1. /\ sentTo' = sentTo /\ pc[l] \in LrtPC
        /\ \/ pc' = pc
           \/ \E p \in LrtPC \cup {"recv"} : pc' = [pc EXCEPT ![l] = p]
    <3>1. CASE HandleNotification(l)
      <4>1. \E s \in SubTypes : Pop(l, s)
        BY <3>1 DEF HandleNotification, HandleJobAdd, HandleUpdateJobStamp,
                    HandleEndIteration, HandleStop, SubTypes
      <4> QED BY <4>1 DEF Pop, At, LrtPC, grtVars
    <3>2. CASE PassWithoutJob(l) \/ PassWithJob(l)
      <4>1. PICK r \in {"wait", "drain"} : EndPass(l, r) /\ pc[l] \in LrtPC
        BY <3>2 DEF PassWithoutJob, PassWithJob, Drained, At, LrtPC
      <4> QED BY <4>1 DEF EndPass, NoMoreJobs, LrtPC
    <3>3. CASE ExitRun(l) \/ StartJob(l)
      BY <3>3 DEF ExitRun, StartJob, Drained, At, LrtPC, grtVars
    <3>4. CASE FinishJob(l) \/ NotifyLRTJobStamp(l)
      BY <3>4 DEF FinishJob, NotifyLRTJobStamp, At, LrtPC, grtVars
    <3> QED BY <1>2, <3>1, <3>2, <3>3, <3>4 DEF Run
  <2> QED BY <1>1, <2>1 DEF SentToIsReset, LrtPC, GrtPC
<1>3. ASSUME NEW l \in LRT, Post(l) PROVE SentToIsReset'
  BY <1>3 DEF Post, grtVars, SentToIsReset
<1>4. CASE Iterate \/ Destroy \/ GrtStops \/ IterateReturns
  BY <1>1, <1>4 DEF Iterate, Destroy, GrtStops, SendStop, Barrier, IterateReturns, At, grtVars,
     SentToIsReset
<1>5. CASE SendJob \/ SendEndNotification \/ RunUntilNoMoreJobs
  BY <1>1, <1>5 DEF SendJob, SendEndNotification, RunUntilNoMoreJobs, At, SentToIsReset
<1>6. CASE ReceiveFinished \/ PushBackTrace
  BY <1>6 DEF ReceiveFinished, PushBackTrace, grtVars, SentToIsReset
<1>7. CASE UNCHANGED vars
  BY <1>7 DEF vars, grtVars, SentToIsReset
<1> QED BY <1>2, <1>3, <1>4, <1>5, <1>6, <1>7 DEF Next, GrtIterates, Terminated

LEMMA InitInOrder == Init => OInv /\ SentToIsReset
<1> SUFFICES ASSUME Init PROVE OInv /\ SentToIsReset
  OBVIOUS
<1>1. /\ \A q \in Queues : notifQueue[q] = <<>> /\ DOMAIN notifQueue[q] = {}
      /\ \A l \in LRT : /\ jobQueue[l] = <<>> /\ jobQueueIndex[l] = 0
                        /\ jobIx[l] = -1 /\ lastJobID[l] = -1 /\ toNotify[l] = {}
                        /\ \A i \in LRT : jobStamps[l][i] = -1
                        /\ pc[l] \in {"idle", "drain"}
      /\ nSentJobs = 0 /\ sentTo = 0 /\ nFinishedPE = 0 /\ iteration = 0
      /\ \A j \in Jobs : ran[j] = 0
      /\ pc[grt] = "idle"
  BY ConstantTypes DEF Init, Queues
<1>2. (\A j \in Jobs : HasRun(j)) /\ \A l \in LRT : Rested(l)
  BY <1>1, ScheduleFacts DEF HasRun, Rested, Blank
<1>3. \A j \in Jobs : jobID[j] \in Nat /\ ~(jobID[j] <= -1)
  BY ScheduleFacts
<1>4. Counted /\ Progress /\ ToNotifyAreNews /\ HeldAreTrue /\ WaitsAreOver
  BY <1>1, <1>2, <1>3, ConstantTypes DEF Counted, Progress, ToNotifyAreNews, HeldAreTrue,
     StampIsTrue, WaitsAreOver, HasRun
<1>5. JobQueueInOrder
  <2>1. \A l \in LRT : DOMAIN jobQueue[l] = {} /\ Len(jobQueue[l]) = 0
    BY <1>1
  <2> QED BY <1>1, <2>1 DEF JobQueueInOrder
<1>6. MessagesInOrder
  BY <1>1, <1>2, ConstantTypes, ScheduleFacts DEF MessagesInOrder, AddsInOrder, UpdatesAreNews, JobsOf
<1>7. LastIDs
  BY <1>1, ConstantTypes DEF LastIDs
<1>8. GrtPhases
  BY <1>1, <1>2, ConstantTypes DEF GrtPhases, LrtPC
<1>9. FinishedAreRested(notifQueue[nLrt])
  <2>1. \E F \in SUBSET (Activated \ {grt}) :
          Cardinality(F) = 0 /\ \A i \in F : Rested(i) /\ ~FinishedFrom(i, notifQueue[nLrt])
    BY FS_EmptySet
  <2> QED BY <1>1, <2>1, ConstantTypes DEF FinishedAreRested
<1>10. SentToIsReset
  BY <1>1 DEF SentToIsReset
<1> QED BY <1>4, <1>5, <1>6, <1>7, <1>8, <1>9, <1>10 DEF OInv

LEMMA StepInOrder ==
  ASSUME TInv, OInv, SentToIsReset, [Next]_vars, ~GrtMisses
  PROVE  TInv' /\ OInv' /\ SentToIsReset'
<1>1. TInv' /\ SentToIsReset'
  BY StepTyped, SentToKept
<1>2. ASSUME NEW l \in LRT, Run(l) \/ Post(l) PROVE OInv'
  BY <1>1, <1>2, RunInOrder, PostInOrder
<1>3. CASE Iterate
  BY <1>1, <1>3, IterateInOrder
<1>4. CASE GrtIterates
  BY <1>1, <1>4, SendJobInOrder, SendEndNotificationInOrder, RunUntilNoMoreJobsInOrder,
     ReceiveFinishedInOrder, PushBackTraceInOrder, IterateReturnsInOrder DEF GrtIterates
<1>5. CASE Destroy \/ GrtStops
  BY <1>1, <1>5, GrtStopsInOrder
<1>6. CASE UNCHANGED vars
  <2>1. /\ UNCHANGED <<jobQueue, jobQueueIndex, jobIx, lastJobID, jobStamps, notifQueue>>
        /\ UNCHANGED <<nSentJobs, sentTo, nFinishedPE, iteration, pc, toNotify, ran>>
    BY <1>6 DEF vars, queueVars, lrtVars, grtVars
  <2>2. SameJobs
    BY <2>1 DEF SameJobs, SameStamps, SameRuns
  <2> QED BY <1>1, <2>1, <2>2, SilentStep
<1> QED BY <1>1, <1>2, <1>3, <1>4, <1>5, <1>6 DEF Next, Terminated

-----------------------------------------------------------------------------
(* What the invariant implies.                                             *)
LEMMA OrderOfJobs == TInv /\ OInv => PrecedenceRespected
<1> SUFFICES ASSUME TInv, OInv, NEW l \in LRT, pc[l] = "exec", NEW p \in preds[CurrentJob(l)]
             PROVE  ran[CurrentJob(l)] < ran[p]
  BY DEF PrecedenceRespected, Executing
<1>1. PICK j \in Jobs : j = CurrentJob(l)
  BY CurrentJobIsNext, ScheduleFacts
<1>2. /\ mappedPE[j] = l /\ ~HasRun(j) /\ ~Waiting(j) /\ jobID[j] = jobIx[l] + 1 /\ ~Rested(l)
      /\ jobIx[l] \in Int
  BY <1>1, CurrentJobIsNext DEF JobsOf, TInv, LrtTypes, Stamp
<1>3. p \in Jobs /\ p < j /\ jobID[p] <= jobs2Wait[j][mappedPE[p]] /\ mappedPE[p] \in LRT
  BY <1>1, ScheduleTypes, ScheduleAssumption, ConstantTypes DEF WaitsCoverPreds
<1>4. HasRun(p)
  <2>1. CASE mappedPE[p] = l
    <3>1. /\ jobID[p] \in Nat /\ jobID[j] \in Nat /\ p \in Int /\ j \in Int
          /\ jobID[p] # jobID[j] /\ ~(jobID[j] < jobID[p])
      BY <1>1, <1>2, <1>3, <2>1, ScheduleFacts DEF Jobs
    <3>2. jobID[p] <= jobIx[l]
      BY <1>2, <3>1
    <3> QED BY <1>2, <1>3, <2>1, <3>2 DEF OInv, Progress, JobsOf
  <2>2. CASE mappedPE[p] # l
    BY <1>2, <1>3, <2>2 DEF OInv, WaitsAreOver
  <2> QED BY <2>1, <2>2
<1>5. ran[j] + 1 = iteration /\ ran[p] = iteration /\ ran[j] \in Nat
  BY <1>2, <1>3, <1>4 DEF OInv, Counted, HasRun, TInv, GrtTypes, LrtTypes
<1> QED BY <1>1, <1>5

LEMMA TruthOfStamps == TInv /\ OInv => StampsAreTrue
  BY DEF OInv, HeldAreTrue, MessagesInOrder, UpdatesAreNews, StampsAreTrue

LEMMA CompleteIterations == TInv /\ OInv => IterationComplete
<1> SUFFICES ASSUME TInv, OInv, pc[grt] = "idle", NEW j \in Jobs PROVE ran[j] = iteration
  BY DEF IterationComplete
<1>1. Rested(mappedPE[j])
  BY ConstantTypes DEF OInv, GrtPhases
<1> QED BY <1>1 DEF Rested, JobsOf, HasRun

LEMMA QueuesAreSane == TInv /\ OInv => SanityCheckHolds
<1> SUFFICES ASSUME TInv, OInv, NEW l \in LRT, lastJobID[l] >= 0
             PROVE  Len(jobQueue[l]) <= lastJobID[l] + 1
  BY DEF SanityCheckHolds, QueueIsSane
<1>1. lastJobID[l] = nJobPerPE[l] - 1
  BY DEF OInv, LastIDs
<1> QED BY <1>1, JobQueueFits, ScheduleFacts

LEMMA OwnJobsAreOver == TInv /\ OInv => NeverWaitsForItself
<1> SUFFICES ASSUME TInv, OInv, NEW l \in LRT, pc[l] = "drain", GotJobToDo(l)
             PROVE  ~(jobs2Wait[NextJob(l)][l] > jobIx[l])
  BY DEF NeverWaitsForItself, WaitsForItself, Drained, At
<1>1. PICK j \in Jobs : j = NextJob(l) /\ mappedPE[j] = l /\ jobID[j] = jobQueueIndex[l]
  BY NextJobIsNext, ScheduleFacts
<1>2. jobQueueIndex[l] = jobIx[l] + 1 /\ jobIx[l] \in Int /\ jobIx[l] >= -1
  <2>1. jobQueueIndex[l] = jobIx[l] + 1 + 0 /\ jobIx[l] \in Stamp
    BY DEF OInv, JobQueueInOrder, TInv, LrtTypes
  <2> QED BY <2>1 DEF Stamp
<1>3. CASE jobs2Wait[j][l] = -1
  BY <1>1, <1>2, <1>3
<1>4. CASE jobs2Wait[j][l] # -1
  <2>1. PICK p \in preds[j] : mappedPE[p] = l /\ jobID[p] = jobs2Wait[j][l]
    BY <1>1, <1>4, ScheduleAssumption DEF WaitsAreForPreds
  <2>2. p \in Jobs /\ p < j /\ p \in Int /\ j \in Int /\ jobID[p] \in Nat /\ jobID[j] \in Nat
    BY <1>1, <2>1, ScheduleTypes, ScheduleAssumption, ScheduleFacts DEF Jobs
  <2>3. jobID[p] # jobID[j] /\ ~(jobID[j] < jobID[p])
    BY <1>1, <2>1, <2>2, ScheduleFacts
  <2> QED BY <1>1, <1>2, <2>1, <2>2, <2>3
<1> QED BY <1>3, <1>4

LEMMA StepsAdvance ==
  ASSUME TInv, OInv, [Next]_vars PROVE StampsAdvance
<1>1. /\ jobStamps \in [LRT -> [LRT -> Stamp]] /\ jobIx \in [LRT -> Stamp] /\ Stamp \subseteq Int
      /\ LRT \subseteq Queues
  BY ConstantTypes DEF TInv, LrtTypes
<1>0. \A l, i \in LRT : jobStamps[l][i] \in Int /\ jobStamps[l][i] >= jobStamps[l][i]
  <2> TAKE l, i \in LRT
  <2>1. jobStamps[l] \in [LRT -> Stamp]
    BY <1>1
  <2>2. jobStamps[l][i] \in Int
    BY <1>1, <2>1
  <2> QED BY <2>2
<1>2. CASE jobStamps' = jobStamps
  BY <1>0, <1>2 DEF StampsAdvance
<1>3. ASSUME NEW l \in LRT, HandleUpdateJobStamp(l) PROVE StampsAdvance
  <2>1. PICK m \in MessageType :
          /\ m.subType = "JOB_UPDATE_JOBSTAMP" /\ m = notifQueue[l][1] /\ 1 \in DOMAIN notifQueue[l]
          /\ jobStamps' = [jobStamps EXCEPT ![l][m.lrtID] = m.index]
    <3>1. Pop(l, "JOB_UPDATE_JOBSTAMP") /\ "JOB_UPDATE_JOBSTAMP" \in SubTypes
      BY <1>3 DEF HandleUpdateJobStamp, SubTypes
    <3>2. /\ notifQueue[l] \in Seq(MessageType) /\ notifQueue[l] # <<>>
          /\ Head(notifQueue[l]).subType = "JOB_UPDATE_JOBSTAMP"
      BY <3>1, PopMoves
    <3> QED BY <1>3, <3>2, TailElements DEF HandleUpdateJobStamp
  <2>2. m.lrtID \in LRT /\ m.index \in Stamp
    BY <2>1, MessageFields
  <2>3. jobStamps[l][m.lrtID] < m.index
    BY <2>1 DEF OInv, MessagesInOrder, UpdatesAreNews
  <2>4. jobStamps'[l][m.lrtID] >= jobStamps[l][m.lrtID]
    <3>1. jobStamps'[l][m.lrtID] = m.index /\ m.index \in Int
      BY <1>1, <2>1, <2>2
    <3> QED BY <1>0, <2>2, <2>3, <3>1
  <2>5. \A k, i \in LRT : k # l \/ i # m.lrtID => jobStamps'[k][i] = jobStamps[k][i]
    BY <1>1, <2>1
  <2> QED BY <1>0, <2>4, <2>5 DEF StampsAdvance
<1>4. ASSUME NEW l \in LRT, FinishJob(l) PROVE StampsAdvance
  <2>1. pc[l] = "exec" /\ jobStamps' = [jobStamps EXCEPT ![l][l] = jobIx[l] + 1]
    BY <1>4 DEF FinishJob, At
  <2>2. jobStamps[l][l] < jobIx[l] + 1
    <3>1. PICK j \in Jobs : mappedPE[j] = l /\ ~HasRun(j) /\ jobID[j] = jobIx[l] + 1
      BY <2>1, CurrentJobIsNext, ScheduleFacts
    <3>2. StampIsTrue(l, jobStamps[l][l])
      BY DEF OInv, HeldAreTrue
    <3>3. ~(jobIx[l] + 1 <= jobStamps[l][l]) /\ jobIx[l] \in Int
      BY <1>1, <3>1, <3>2, ScheduleFacts, ZenonT(60) DEF StampIsTrue, HasRun
    <3> QED BY <1>0, <3>3
  <2>3. jobStamps'[l][l] >= jobStamps[l][l]
    <3>1. jobStamps'[l][l] = jobIx[l] + 1 /\ jobIx[l] \in Int
      BY <1>1, <2>1
    <3> QED BY <1>0, <2>2, <3>1
  <2>4. \A k, i \in LRT : k # l \/ i # l => jobStamps'[k][i] = jobStamps[k][i]
    BY <1>1, <2>1
  <2> QED BY <1>0, <2>3, <2>4 DEF StampsAdvance
<1>5. ASSUME NEW l \in LRT, NEW r, EndPass(l, r) PROVE StampsAdvance
  <2>1. \/ jobStamps' = jobStamps
        \/ jobStamps' = [jobStamps EXCEPT ![l] = [i \in LRT |-> -1]]
    BY <1>5 DEF EndPass, ResetLrt, lrtVars
  <2>2. CASE jobStamps' = [jobStamps EXCEPT ![l] = [i \in LRT |-> -1]]
    BY <1>0, <1>1, <2>2 DEF StampsAdvance
  <2> QED BY <1>2, <2>1, <2>2
<1>6. ASSUME NEW l \in LRT, Run(l) \/ Post(l) PROVE StampsAdvance
  <2>1. CASE HandleNotification(l)
    BY <1>2, <1>3, <2>1 DEF HandleNotification, HandleJobAdd, HandleEndIteration, HandleStop, lrtVars
  <2>2. CASE ExitRun(l) \/ StartJob(l) \/ NotifyLRTJobStamp(l) \/ Post(l)
    BY <1>2, <2>2 DEF ExitRun, StartJob, NotifyLRTJobStamp, Post, lrtVars
  <2>3. CASE PassWithoutJob(l) \/ PassWithJob(l)
    BY <1>5, <2>3 DEF PassWithoutJob, PassWithJob
  <2> QED BY <1>4, <1>6, <2>1, <2>2, <2>3 DEF Run
<1>7. CASE Iterate \/ GrtIterates \/ Destroy \/ GrtStops \/ UNCHANGED vars
  BY <1>2, <1>7 DEF Iterate, GrtIterates, SendJob, SendEndNotification, RunUntilNoMoreJobs,
     ReceiveFinished, PushBackTrace, IterateReturns, Destroy, GrtStops, SendStop, Barrier,
     vars, lrtVars
<1> QED BY <1>6, <1>7 DEF Next, Terminated

-----------------------------------------------------------------------------
(* Between two iterations: what QuietBetweenIterations needs beside OInv.  *)

(* Queue q holds no message of the given subtypes.                         *)
Absent(q, subTypes) == \A k \in DOMAIN q : q[k].subType \notin subTypes

(* What travels where: LRT_STOP only from the destructor on.               *)
OwnKinds == {"JOB_ADD", "JOB_UPDATE_JOBSTAMP", "LRT_END_ITERATION", "LRT_STOP"}
GrtKinds == {"LRT_FINISHED_ITERATION", "TRACE_LRT"}
Kinds ==
  /\ \A l \in LRT : Absent(notifQueue[l], GrtKinds)
  /\ pc[grt] \notin {"stop", "done"} => \A l \in LRT : Absent(notifQueue[l], {"LRT_STOP"})
  /\ Absent(notifQueue[nLrt], OwnKinds)

(* The GRT has all of its jobs to do as long as it counts none as done.    *)
GrtHasItsJobs ==
  pc[grt] \notin {"idle", "recv", "stop", "done"} /\ jobIx[grt] = -1 =>
    \A j \in JobsOf(grt) : ~HasRun(j)

(* LRT_END_ITERATION has not been sent to l in this iteration; l has read  *)
(* it and has ended its iteration.                                         *)
Unsent(l) == pc[grt] \in {"idle", "stop", "done"} \/ (pc[grt] = "send" /\ sentTo <= l)
Over(l) == ~HasEnd(l) /\ lastJobID[l] = -1

OneEnd(q) ==
  \A k, m \in DOMAIN q :
    q[k].subType = "LRT_END_ITERATION" /\ q[m].subType = "LRT_END_ITERATION" => k = m
EndsOnce ==
  \A l \in Activated :
    /\ OneEnd(notifQueue[l])
    /\ HasEnd(l) => lastJobID[l] = -1
    /\ Unsent(l) => Over(l) /\ ~FinishedFrom(l, notifQueue[nLrt])

FinishedAreOver(q) ==
  /\ \A i \in Activated : FinishedFrom(i, q) => Over(i)
  /\ pc[grt] = "recv" => Over(grt)
  /\ \E F \in SUBSET (Activated \ {grt}) :
       /\ Cardinality(F) = nFinishedPE
       /\ \A i \in F : Over(i) /\ ~FinishedFrom(i, q)

QInv == Kinds /\ GrtHasItsJobs /\ EndsOnce /\ FinishedAreOver(notifQueue[nLrt])

LEMMA AbsentKept ==
  ASSUME NEW q, NEW r, NEW S, Absent(q, S), SameMessages(q, r, S)
  PROVE  Absent(r, S)
  BY DEF Absent, SameMessages, Carried

LEMMA OneEndKept ==
  ASSUME NEW q, NEW r, OneEnd(q), SameMessages(q, r, {"LRT_END_ITERATION"}),
         DOMAIN q \subseteq Nat, DOMAIN r \subseteq Nat
  PROVE  OneEnd(r)
<1>1. PICK d \in {0, 1} : Carried(q, r, {"LRT_END_ITERATION"}, d)
  BY DEF SameMessages
<1>2. ASSUME NEW k \in DOMAIN r, NEW m \in DOMAIN r,
             r[k].subType = "LRT_END_ITERATION", r[m].subType = "LRT_END_ITERATION"
      PROVE  k = m
  <2>1. /\ k + d \in DOMAIN q /\ q[k + d].subType = "LRT_END_ITERATION"
        /\ m + d \in DOMAIN q /\ q[m + d].subType = "LRT_END_ITERATION"
    BY <1>1, <1>2 DEF Carried
  <2>2. k + d = m + d
    BY <2>1 DEF OneEnd
  <2>3. k \in Nat /\ m \in Nat
    OBVIOUS
  <2> QED BY <2>2, <2>3
<1> QED BY <1>2 DEF OneEnd

LEMMA FinishedFromKept ==
  ASSUME NEW q, NEW r, SameMessages(q, r, {"LRT_FINISHED_ITERATION"})
  PROVE  \A i : FinishedFrom(i, r) <=> FinishedFrom(i, q)
  BY DEF SameMessages, Carried, FinishedFrom, IsFinished

(* Steps that take no end of iteration from a queue and add none.          *)
LEMMA EndsKept ==
  ASSUME TInv, TInv', EndsOnce, FinishedAreOver(notifQueue[nLrt]),
         \A l \in LRT : SameMessages(notifQueue[l], notifQueue'[l], {"LRT_END_ITERATION"}),
         SameMessages(notifQueue[nLrt], notifQueue'[nLrt], {"LRT_FINISHED_ITERATION"}),
         UNCHANGED <<lastJobID, nFinishedPE>>,
         \A l \in LRT : Unsent(l)' => Unsent(l),
         pc'[grt] = "recv" => pc[grt] = "recv" \/ Over(grt)
  PROVE  EndsOnce' /\ FinishedAreOver(notifQueue[nLrt])'
<1>1. \A l \in LRT : (HasEnd(l)' <=> HasEnd(l)) /\ (Over(l)' <=> Over(l))
  <2>1. \A l \in LRT : HasEnd(l)' <=> HasEnd(l)
    BY EndsCarried DEF HasEnd
  <2> QED BY <2>1 DEF Over
<1>2. \A i : FinishedFrom(i, notifQueue[nLrt])' <=> FinishedFrom(i, notifQueue[nLrt])
  BY FinishedFromKept DEF FinishedFrom, IsFinished
<1>3. \A l \in LRT : OneEnd(notifQueue[l]) => OneEnd(notifQueue[l])'
  <2> SUFFICES ASSUME NEW l \in LRT, OneEnd(notifQueue[l]) PROVE OneEnd(notifQueue[l])'
    OBVIOUS
  <2>1. DOMAIN notifQueue[l] \subseteq Nat /\ DOMAIN notifQueue'[l] \subseteq Nat
    BY QueueDomains, QueueDomainsNext
  <2>2. PICK r : r = notifQueue'[l]
    OBVIOUS
  <2>3. OneEnd(r)
    BY <2>1, <2>2, OneEndKept
  <2> QED BY <2>2, <2>3 DEF OneEnd
<1>4. Activated \subseteq LRT /\ grt \in LRT
  BY PlatformAssumption
<1>5. EndsOnce'
  BY <1>1, <1>2, <1>3, <1>4 DEF EndsOnce
<1>6. FinishedAreOver(notifQueue[nLrt])'
  BY <1>1, <1>2, <1>4 DEF FinishedAreOver
<1> QED BY <1>5, <1>6

(* Steps that move only messages that this invariant is not about.         *)
LEMMA QuietKept ==
  ASSUME TInv, TInv', QInv, GrtHasItsJobs',
         \A l \in LRT : \A S : S \cap {"JOB_ADD", "JOB_UPDATE_JOBSTAMP"} = {} =>
           SameMessages(notifQueue[l], notifQueue'[l], S),
         \A S : S \cap {"TRACE_LRT"} = {} =>
           SameMessages(notifQueue[nLrt], notifQueue'[nLrt], S),
         UNCHANGED <<lastJobID, nFinishedPE>>,
         \A l \in LRT : Unsent(l)' => Unsent(l),
         pc[grt] \in {"stop", "done"} => pc'[grt] \in {"stop", "done"},
         pc'[grt] = "recv" => pc[grt] = "recv" \/ Over(grt)
  PROVE  QInv'
<1>1. /\ \A l \in LRT : /\ SameMessages(notifQueue[l], notifQueue'[l], GrtKinds)
                        /\ SameMessages(notifQueue[l], notifQueue'[l], {"LRT_STOP"})
                        /\ SameMessages(notifQueue[l], notifQueue'[l], {"LRT_END_ITERATION"})
      /\ SameMessages(notifQueue[nLrt], notifQueue'[nLrt], OwnKinds)
      /\ SameMessages(notifQueue[nLrt], notifQueue'[nLrt], {"LRT_FINISHED_ITERATION"})
  BY DEF GrtKinds, OwnKinds
<1>2. /\ \A l \in LRT : Absent(notifQueue[l], GrtKinds) => Absent(notifQueue'[l], GrtKinds)
      /\ \A l \in LRT : Absent(notifQueue[l], {"LRT_STOP"}) => Absent(notifQueue'[l], {"LRT_STOP"})
      /\ Absent(notifQueue[nLrt], OwnKinds) => Absent(notifQueue'[nLrt], OwnKinds)
  BY <1>1, AbsentKept
<1>3. Kinds'
  BY <1>2 DEF QInv, Kinds, Absent
<1>4. EndsOnce' /\ FinishedAreOver(notifQueue[nLrt])'
  BY <1>1, EndsKept DEF QInv
<1> QED BY <1>3, <1>4 DEF QInv

-----------------------------------------------------------------------------
(* The steps of an LRT.                                                    *)

(* Where the GRT is, as far as this invariant distinguishes it.            *)
LEMMA RunPhases ==
  ASSUME TInv, TInv', OInv, GrtHasItsJobs, NEW l \in LRT, Run(l)
  PROVE  /\ GrtHasItsJobs' /\ UNCHANGED <<sentTo, nFinishedPE, iteration>>
         /\ \A k \in LRT : Unsent(k)' => Unsent(k)
         /\ pc[grt] \in {"stop", "done"} => pc'[grt] \in {"stop", "done"}
<1>1. /\ pc \in [LRT -> LrtPC \cup GrtPC] /\ jobIx \in [LRT -> Stamp] /\ ran \in [Jobs -> Nat]
      /\ jobIx' \in [LRT -> Stamp] /\ grt \in LRT /\ grt \in Activated
  BY ConstantTypes, PlatformAssumption DEF TInv, LrtTypes, GrtTypes
<1>2. /\ pc[l] \in LrtPC /\ UNCHANGED <<sentTo, nFinishedPE, iteration>>
      /\ pc' = pc \/ \E p \in LrtPC \cup {"recv"} : pc' = [pc EXCEPT ![l] = p]
  <2>1. CASE HandleNotification(l)
    <3>1. \E s \in SubTypes : Pop(l, s)
      BY <2>1 DEF HandleNotification, HandleJobAdd, HandleUpdateJobStamp,
                  HandleEndIteration, HandleStop, SubTypes
    <3> QED BY <3>1 DEF Pop, At, LrtPC, grtVars
  <2>2. CASE PassWithoutJob(l) \/ PassWithJob(l)
    <3>1. PICK r \in {"wait", "drain"} : EndPass(l, r) /\ pc[l] \in LrtPC
      BY <2>2 DEF PassWithoutJob, PassWithJob, Drained, At, LrtPC
    <3> QED BY <2>2, <3>1 DEF EndPass, NoMoreJobs, LrtPC
  <2>3. CASE ExitRun(l) \/ StartJob(l)
    BY <2>3 DEF ExitRun, StartJob, Drained, At, LrtPC, grtVars
  <2>4. CASE FinishJob(l) \/ NotifyLRTJobStamp(l)
    BY <2>4 DEF FinishJob, NotifyLRTJobStamp, At, LrtPC, grtVars
  <2> QED BY <2>1, <2>2, <2>3, <2>4 DEF Run
<1>3. /\ l # grt => pc'[grt] = pc[grt]
      /\ l = grt => pc[grt] \in LrtPC /\ pc'[grt] \in LrtPC \cup {"recv"}
  BY <1>1, <1>2 DEF LrtPC
<1>4. \A k \in LRT : Unsent(k)' => Unsent(k)
  BY <1>2, <1>3 DEF Unsent, LrtPC
<1>5. pc[grt] \in {"stop", "done"} => pc'[grt] \in {"stop", "done"}
  BY <1>3 DEF LrtPC
<1>6. GrtHasItsJobs'
  <2> SUFFICES ASSUME pc'[grt] \notin {"idle", "recv", "stop", "done"}, jobIx'[grt] = -1,
                      NEW j \in JobsOf(grt)
               PROVE  ~HasRun(j)'
    BY DEF GrtHasItsJobs, JobsOf
  <2>0. pc[grt] \notin {"idle", "recv", "stop", "done"}
    BY <1>3 DEF LrtPC
  <2>1. CASE FinishJob(l)
    <3>1. /\ jobIx' = [jobIx EXCEPT ![l] = @ + 1] /\ pc[l] = "exec"
          /\ ran' = [ran EXCEPT ![CurrentJob(l)] = @ + 1]
      BY <2>1 DEF FinishJob, At
    <3>2. l # grt
      <4>1. jobIx[l] \in Int /\ jobIx[l] >= -1
        BY <1>1 DEF Stamp
      <4> QED BY <1>1, <3>1, <4>1
    <3>3. mappedPE[CurrentJob(l)] = l
      BY <3>1, CurrentJobIsNext, ScheduleFacts
    <3>4. ran'[j] = ran[j] /\ jobIx'[grt] = jobIx[grt]
      BY <1>1, <3>1, <3>2, <3>3 DEF JobsOf
    <3> QED BY <1>2, <2>0, <3>4 DEF GrtHasItsJobs, HasRun
  <2>2. CASE PassWithoutJob(l) \/ PassWithJob(l)
    <3>1. /\ ran' = ran
          /\ jobIx' = jobIx \/ (l = grt /\ pc'[l] = "recv") \/ jobIx'[grt] = jobIx[grt]
      <4>1. PICK r : EndPass(l, r)
        BY <2>2 DEF PassWithoutJob, PassWithJob
      <4> QED BY <1>1, <4>1 DEF EndPass, ResetLrt, ClearJobQueue, NoMoreJobs, lrtVars
    <3>2. ran' = ran /\ jobIx'[grt] = jobIx[grt]
      BY <3>1
    <3> QED BY <1>2, <2>0, <3>2 DEF GrtHasItsJobs, HasRun
  <2>3. CASE HandleNotification(l) \/ ExitRun(l) \/ StartJob(l) \/ NotifyLRTJobStamp(l)
    <3>1. ran' = ran /\ jobIx' = jobIx
      BY <2>3 DEF HandleNotification, HandleJobAdd, HandleUpdateJobStamp, HandleEndIteration,
         HandleStop, Pop, ExitRun, StartJob, NotifyLRTJobStamp, lrtVars
    <3> QED BY <1>2, <2>0, <3>1 DEF GrtHasItsJobs, HasRun
  <2> QED BY <2>1, <2>2, <2>3 DEF Run
<1> QED BY <1>1, <1>2, <1>3, <1>4, <1>5, <1>6

(* Messages about jobs, and steps without messages.                        *)
LEMMA JobStepQuiet ==
  ASSUME TInv, TInv', OInv, QInv, NEW l \in LRT,
         \/ HandleJobAdd(l) \/ HandleUpdateJobStamp(l) \/ ExitRun(l)
         \/ StartJob(l) \/ FinishJob(l) \/ NotifyLRTJobStamp(l)
  PROVE  QInv'
<1>1. /\ GrtHasItsJobs' /\ nFinishedPE' = nFinishedPE
      /\ \A k \in LRT : Unsent(k)' => Unsent(k)
      /\ pc[grt] \in {"stop", "done"} => pc'[grt] \in {"stop", "done"}
  <2>1. Run(l)
    BY DEF Run, HandleNotification
  <2> QED BY <2>1, RunPhases DEF QInv
<1>2. pc'[grt] = "recv" => pc[grt] = "recv"
  <2>1. pc' = pc \/ \E p \in {"drain", "ended", "exec", "notify"} : pc' = [pc EXCEPT ![l] = p]
    BY DEF HandleJobAdd, HandleUpdateJobStamp, Pop, ExitRun, StartJob, FinishJob,
       NotifyLRTJobStamp
  <2>2. pc \in [LRT -> LrtPC \cup GrtPC] /\ grt \in LRT
    BY ConstantTypes DEF TInv, LrtTypes
  <2>3. CASE pc' = pc
    BY <2>3
  <2>4. ASSUME NEW p \in {"drain", "ended", "exec", "notify"}, pc' = [pc EXCEPT ![l] = p]
        PROVE  pc'[grt] = "recv" => pc[grt] = "recv"
    BY <2>2, <2>4
  <2> QED BY <2>1, <2>3, <2>4
<1>3. lastJobID' = lastJobID
  BY DEF HandleJobAdd, HandleUpdateJobStamp, ExitRun, StartJob, FinishJob, NotifyLRTJobStamp,
     lrtVars
<1>4. /\ \A k \in LRT : \A S : S \cap {"JOB_ADD", "JOB_UPDATE_JOBSTAMP"} = {} =>
           SameMessages(notifQueue[k], notifQueue'[k], S)
      /\ \A S : S \cap {"TRACE_LRT"} = {} =>
           SameMessages(notifQueue[nLrt], notifQueue'[nLrt], S)
  <2>1. CASE HandleJobAdd(l) \/ HandleUpdateJobStamp(l)
    <3>1. PICK s \in {"JOB_ADD", "JOB_UPDATE_JOBSTAMP"} : Pop(l, s)
      BY <2>1 DEF HandleJobAdd, HandleUpdateJobStamp
    <3>2. \A r \in Queues : \A S : r # l \/ s \notin S =>
            SameMessages(notifQueue[r], notifQueue'[r], S)
      BY <3>1, PopMoves DEF SubTypes
    <3> QED BY <3>1, <3>2, ConstantTypes
  <2>2. CASE notifQueue' = notifQueue
    BY <2>2, SameQueue, QueueDomains, ConstantTypes
  <2>3. CASE FinishJob(l) /\ TraceEnabled
    <3>1. PICK m \in MessageType : m.subType = "TRACE_LRT" /\ Push(l, nLrt, m)
      <4>1. CurrentJob(l) \in Jobs
        BY <2>3, CurrentJobIsJob DEF FinishJob, At
      <4>2. Message("TRACE_LRT", l, CurrentJob(l)) \in MessageType
        BY <4>1, JobMessages
      <4> QED BY <2>3, <4>2 DEF FinishJob, Message
    <3>2. \A r \in Queues : \A S : r # nLrt \/ "TRACE_LRT" \notin S =>
            SameMessages(notifQueue[r], notifQueue'[r], S)
      BY <3>1, PushMoves, ConstantTypes
    <3> QED BY <3>2, ConstantTypes
  <2>4. CASE NotifyLRTJobStamp(l)
    <3>1. PICK i \in LRT, m \in MessageType :
            m.subType = "JOB_UPDATE_JOBSTAMP" /\ Push(l, i, m)
      <4>1. PICK i \in toNotify[l] : Push(l, i, Message("JOB_UPDATE_JOBSTAMP", l, jobIx[l]))
        BY <2>4 DEF NotifyLRTJobStamp
      <4>2. i \in LRT /\ jobIx[l] \in Stamp
        BY DEF TInv, LrtTypes
      <4>3. Message("JOB_UPDATE_JOBSTAMP", l, jobIx[l]) \in MessageType
        BY <4>2, OtherMessages DEF SubTypes
      <4> QED BY <4>1, <4>2, <4>3 DEF Message
    <3>2. \A r \in Queues : \A S : r # i \/ "JOB_UPDATE_JOBSTAMP" \notin S =>
            SameMessages(notifQueue[r], notifQueue'[r], S)
      BY <3>1, PushMoves, ConstantTypes
    <3> QED BY <3>1, <3>2, ConstantTypes
  <2> QED BY <2>1, <2>2, <2>3, <2>4 DEF ExitRun, StartJob, FinishJob, queueVars
<1> QED BY <1>1, <1>2, <1>3, <1>4, QuietKept

(* LRT_STOP is read after the destructor has been entered.                 *)
LEMMA HandleStopQuiet ==
  ASSUME TInv, TInv', OInv, QInv, NEW l \in LRT, HandleStop(l)
  PROVE  QInv'
<1>1. /\ GrtHasItsJobs' /\ nFinishedPE' = nFinishedPE
      /\ \A k \in LRT : Unsent(k)' => Unsent(k)
      /\ pc[grt] \in {"stop", "done"} => pc'[grt] \in {"stop", "done"}
  <2>1. Run(l)
    BY DEF Run, HandleNotification
  <2> QED BY <2>1, RunPhases DEF QInv
<1>2. /\ Pop(l, "LRT_STOP") /\ "LRT_STOP" \in SubTypes /\ lastJobID' = lastJobID
  BY DEF HandleStop, SubTypes, lrtVars
<1>3. /\ notifQueue[l] \in Seq(MessageType) /\ notifQueue[l] # <<>>
      /\ Head(notifQueue[l]).subType = "LRT_STOP"
      /\ pc' = [pc EXCEPT ![l] = "drain"]
      /\ \A r \in Queues : \A S : r # l \/ "LRT_STOP" \notin S =>
           SameMessages(notifQueue[r], notifQueue'[r], S)
  BY <1>2, PopMoves
<1>4. pc'[grt] = "recv" => pc[grt] = "recv"
  BY <1>3 DEF TInv, LrtTypes
<1>5. pc[grt] \in {"stop", "done"}
  <2>1. ~Absent(notifQueue[l], {"LRT_STOP"})
    BY <1>3, TailElements DEF Absent
  <2> QED BY <2>1 DEF QInv, Kinds
<1>6. Kinds'
  <2>1. /\ \A k \in LRT : SameMessages(notifQueue[k], notifQueue'[k], GrtKinds)
        /\ SameMessages(notifQueue[nLrt], notifQueue'[nLrt], OwnKinds)
    BY <1>3, ConstantTypes DEF GrtKinds
  <2>2. /\ \A k \in LRT : Absent(notifQueue'[k], GrtKinds)
        /\ Absent(notifQueue'[nLrt], OwnKinds)
    BY <2>1, AbsentKept DEF QInv, Kinds
  <2> QED BY <1>1, <1>5, <2>2 DEF Kinds, Absent
<1>7. EndsOnce' /\ FinishedAreOver(notifQueue[nLrt])'
  <2>1. /\ \A k \in LRT : SameMessages(notifQueue[k], notifQueue'[k], {"LRT_END_ITERATION"})
        /\ SameMessages(notifQueue[nLrt], notifQueue'[nLrt], {"LRT_FINISHED_ITERATION"})
    BY <1>3, ConstantTypes
  <2> QED BY <1>1, <1>2, <1>4, <2>1, EndsKept DEF QInv
<1> QED BY <1>1, <1>6, <1>7 DEF QInv

(* LRT l reads the one end of iteration that it gets.                      *)
LEMMA HandleEndQuiet ==
  ASSUME TInv, TInv', OInv, QInv, NEW l \in LRT, HandleEndIteration(l)
  PROVE  QInv'
<1>1. /\ GrtHasItsJobs' /\ nFinishedPE' = nFinishedPE
      /\ \A k \in LRT : Unsent(k)' => Unsent(k)
      /\ pc[grt] \in {"stop", "done"} => pc'[grt] \in {"stop", "done"}
  <2>1. Run(l)
    BY DEF Run, HandleNotification
  <2> QED BY <2>1, RunPhases DEF QInv
<1>2. PICK q : q = notifQueue[l]
  OBVIOUS
<1>3. /\ Pop(l, "LRT_END_ITERATION") /\ "LRT_END_ITERATION" \in SubTypes
      /\ lastJobID' = [lastJobID EXCEPT ![l] = Head(q).index]
      /\ lastJobID \in [LRT -> Stamp] /\ pc \in [LRT -> LrtPC \cup GrtPC]
  BY <1>2 DEF HandleEndIteration, SubTypes, TInv, LrtTypes
<1>4. /\ q \in Seq(MessageType) /\ q # <<>>
      /\ Head(q).subType = "LRT_END_ITERATION" /\ notifQueue'[l] = Tail(q)
      /\ \A r \in Queues : r # l => notifQueue'[r] = notifQueue[r]
      /\ \A r \in Queues : \A S : r # l \/ "LRT_END_ITERATION" \notin S =>
           SameMessages(notifQueue[r], notifQueue'[r], S)
      /\ pc' = [pc EXCEPT ![l] = "drain"] /\ pc[l] \in {"wait", "drain"}
  BY <1>2, <1>3, PopMoves
<1>5. /\ pc'[grt] = "recv" => pc[grt] = "recv" /\ l # grt
      /\ grt \in LRT /\ Activated \subseteq LRT
  BY <1>3, <1>4, PlatformAssumption
<1>6. Kinds'
  <2>1. /\ \A k \in LRT : SameMessages(notifQueue[k], notifQueue'[k], GrtKinds)
        /\ \A k \in LRT : SameMessages(notifQueue[k], notifQueue'[k], {"LRT_STOP"})
        /\ SameMessages(notifQueue[nLrt], notifQueue'[nLrt], OwnKinds)
    BY <1>4, ConstantTypes DEF GrtKinds
  <2>2. /\ \A k \in LRT : Absent(notifQueue[k], GrtKinds) => Absent(notifQueue'[k], GrtKinds)
        /\ \A k \in LRT : Absent(notifQueue[k], {"LRT_STOP"}) => Absent(notifQueue'[k], {"LRT_STOP"})
        /\ Absent(notifQueue[nLrt], OwnKinds) => Absent(notifQueue'[nLrt], OwnKinds)
    BY <2>1, AbsentKept
  <2> QED BY <1>1, <2>2 DEF QInv, Kinds, Absent
<1>7. /\ \A k \in LRT : k # l => (HasEnd(k)' <=> HasEnd(k)) /\ (Over(k)' <=> Over(k))
      /\ \A k \in LRT : k # l => (OneEnd(notifQueue[k])' <=> OneEnd(notifQueue[k]))
      /\ \A k : FinishedFrom(k, notifQueue[nLrt])' <=> FinishedFrom(k, notifQueue[nLrt])
      /\ notifQueue'[nLrt] = notifQueue[nLrt]
  BY <1>3, <1>4, ConstantTypes DEF HasEnd, Over, OneEnd, FinishedFrom, IsFinished
<1>8. ASSUME l \in Activated
      PROVE  /\ HasEnd(l) /\ ~Over(l) /\ ~Unsent(l) /\ ~FinishedFrom(l, notifQueue[nLrt])
             /\ ~HasEnd(l)' /\ OneEnd(notifQueue[l])'
  <2>1. /\ 1 \in DOMAIN q /\ q[1] = Head(q) /\ DOMAIN Tail(q) \subseteq Nat
        /\ \A k \in DOMAIN Tail(q) : k + 1 \in DOMAIN q /\ Tail(q)[k] = q[k + 1] /\ k + 1 # 1
    BY <1>4, TailElements
  <2>2. HasEnd(l) /\ ~Over(l)
    BY <1>2, <1>4, <2>1 DEF HasEnd, Over
  <2>3. OneEnd(q)
    BY <1>2, <1>8 DEF QInv, EndsOnce
  <2>4. \A k \in DOMAIN Tail(q) : Tail(q)[k].subType # "LRT_END_ITERATION"
    BY <1>4, <2>1, <2>3 DEF OneEnd
  <2>5. ~HasEnd(l)' /\ OneEnd(notifQueue[l])'
    BY <1>4, <2>4 DEF HasEnd, OneEnd
  <2> QED BY <1>8, <2>2, <2>5 DEF QInv, EndsOnce, FinishedAreOver
<1>9. EndsOnce'
  BY <1>1, <1>3, <1>5, <1>7, <1>8 DEF QInv, EndsOnce
<1>10. FinishedAreOver(notifQueue[nLrt])'
  BY <1>1, <1>5, <1>7, <1>8 DEF QInv, FinishedAreOver
<1> QED BY <1>1, <1>6, <1>9, <1>10 DEF QInv

(* A pass after which the LRT goes on.  The GRT leaves run here only if it *)
(* has no jobs at all: it would have counted them.                         *)
LEMMA IdlePassQuiet ==
  ASSUME TInv, TInv', OInv, QInv, NEW l \in LRT, NEW resume \in {"wait", "drain"},
         pc[l] \in {"drain", "notify"}, EndPass(l, resume), ~DoneWithIteration(l), Run(l),
         ~GrtMisses
  PROVE  QInv'
<1>1. /\ GrtHasItsJobs' /\ nFinishedPE' = nFinishedPE
      /\ \A k \in LRT : Unsent(k)' => Unsent(k)
      /\ pc[grt] \in {"stop", "done"} => pc'[grt] \in {"stop", "done"}
  BY RunPhases DEF QInv
<1>2. /\ UNCHANGED <<queueVars, lrtVars>> /\ pc \in [LRT -> LrtPC \cup GrtPC] /\ grt \in LRT
      /\ grt \in Activated
      /\ pc' = [pc EXCEPT ![l] = resume] \/ (~GotJobToDo(l) /\ NoMoreJobs(l))
  BY ConstantTypes, PlatformAssumption DEF EndPass, TInv, LrtTypes
<1>3. ASSUME pc'[grt] = "recv", pc[grt] # "recv" PROVE Over(grt)
  <2>1. l = grt /\ ~GotJobToDo(grt) /\ ~DoneWithIteration(grt) /\ pc[grt] \in {"drain", "notify"}
    BY <1>2, <1>3 DEF NoMoreJobs
  <2>2. /\ lastJobID[grt] = nJobPerPE[grt] - 1
        /\ ~Rested(grt) => \A j \in JobsOf(grt) : jobID[j] < Len(jobQueue[grt])
        /\ ~HasEnd(grt)
    <3>1. ~UnreadWork(grt)
      BY <1>3 DEF GrtMisses, GrtLeavesRun
    <3> QED BY <2>1, <3>1, GrtHasItsWork
  <2>3. Rested(grt)
    BY <2>1, <2>2, GrtWithoutJobIsRested
  <2>4. jobIx[grt] = -1
    BY <2>3 DEF Rested, Blank
  <2>5. JobsOf(grt) = {}
    BY <2>1, <2>3, <2>4 DEF QInv, GrtHasItsJobs, Rested
  <2>6. ~(0 < nJobPerPE[grt]) /\ nJobPerPE[grt] \in Nat
    BY <1>2, <2>5, ScheduleFacts
  <2>7. lastJobID[grt] = -1
    BY <2>2, <2>6
  <2> QED BY <2>2, <2>7 DEF Over
<1>4. /\ \A k \in LRT : \A S : SameMessages(notifQueue[k], notifQueue'[k], S)
      /\ \A S : SameMessages(notifQueue[nLrt], notifQueue'[nLrt], S)
  BY <1>2, SameQueue, QueueDomains, ConstantTypes DEF queueVars
<1>5. lastJobID' = lastJobID
  BY <1>2 DEF lrtVars
<1> QED BY <1>1, <1>3, <1>4, <1>5, QuietKept

(* LRT l ends its iteration: it has read its end, and forgets it.          *)
LEMMA LastPassQuiet ==
  ASSUME TInv, TInv', OInv, QInv, NEW l \in LRT, DoneWithIteration(l), NEW resume,
         EndPass(l, resume), pc[l] \in LrtPC, Run(l)
  PROVE  QInv'
<1>1. /\ GrtHasItsJobs' /\ nFinishedPE' = nFinishedPE
      /\ \A k \in LRT : Unsent(k)' => Unsent(k)
      /\ pc[grt] \in {"stop", "done"} => pc'[grt] \in {"stop", "done"}
  BY RunPhases DEF QInv
<1>2. /\ lastJobID' = [lastJobID EXCEPT ![l] = -1] /\ NoMoreJobs(l)
      /\ lastJobID \in [LRT -> Stamp] /\ pc \in [LRT -> LrtPC \cup GrtPC]
      /\ grt \in LRT /\ Activated \subseteq LRT
  BY PlatformAssumption DEF EndPass, ResetLrt, ClearJobQueue, TInv, LrtTypes
<1>3. /\ l \in Activated /\ lastJobID[l] # -1 /\ ~Over(l) /\ ~HasEnd(l) /\ ~Unsent(l)
      /\ lastJobID'[l] = -1 /\ \A k \in LRT : k # l => lastJobID'[k] = lastJobID[k]
  <2>1. l \in Activated /\ lastJobID[l] >= 0
    BY DoneHasRun DEF DoneWithIteration
  <2>2. lastJobID[l] # -1 /\ ~Over(l)
    BY <2>1 DEF Over
  <2> QED BY <1>2, <2>1, <2>2 DEF QInv, EndsOnce
<1>4. PICK m \in MessageType :
        /\ m.subType = "LRT_FINISHED_ITERATION" /\ m.lrtID = l
        /\ l # grt => Push(l, nLrt, m)
        /\ l = grt => notifQueue' = notifQueue
  <2>1. Message("LRT_FINISHED_ITERATION", l, -1) \in MessageType
    BY OtherMessages, ConstantTypes DEF SubTypes
  <2> QED BY <2>1 DEF Message, queueVars, EndPass
<1>5. /\ \A k \in LRT : notifQueue'[k] = notifQueue[k]
      /\ \A S : m.subType \notin S => SameMessages(notifQueue[nLrt], notifQueue'[nLrt], S)
      /\ notifQueue'[nLrt] = notifQueue[nLrt] \/ notifQueue'[nLrt] = Append(notifQueue[nLrt], m)
  <2>1. CASE l = grt
    BY <1>4, <2>1, SameQueue, QueueDomains, ConstantTypes
  <2>2. CASE l # grt
    BY <1>4, <2>2, PushMoves, ConstantTypes
  <2> QED BY <2>1, <2>2
<1>6. Kinds'
  <2>1. SameMessages(notifQueue[nLrt], notifQueue'[nLrt], OwnKinds)
    BY <1>4, <1>5 DEF OwnKinds
  <2>2. Absent(notifQueue[nLrt], OwnKinds) => Absent(notifQueue'[nLrt], OwnKinds)
    BY <2>1, AbsentKept
  <2> QED BY <1>1, <1>5, <2>2 DEF QInv, Kinds, Absent
<1>7. /\ \A k \in LRT : (HasEnd(k)' <=> HasEnd(k)) /\ (OneEnd(notifQueue[k])' <=> OneEnd(notifQueue[k]))
      /\ \A k \in LRT : k # l => (Over(k)' <=> Over(k))
      /\ Over(l)'
  BY <1>3, <1>5 DEF HasEnd, Over, OneEnd
<1>8. \A k : k # l /\ FinishedFrom(k, notifQueue[nLrt])' => FinishedFrom(k, notifQueue[nLrt])
  <2> SUFFICES ASSUME NEW k, k # l, NEW x \in DOMAIN notifQueue'[nLrt],
                      IsFinished(notifQueue'[nLrt][x]), notifQueue'[nLrt][x].lrtID = k
               PROVE  FinishedFrom(k, notifQueue[nLrt])
    BY DEF FinishedFrom, IsFinished
  <2>1. CASE notifQueue'[nLrt] = notifQueue[nLrt]
    BY <2>1 DEF FinishedFrom, IsFinished
  <2>2. CASE notifQueue'[nLrt] = Append(notifQueue[nLrt], m)
    <3>1. PICK q \in Seq(MessageType) : q = notifQueue[nLrt]
      BY QueueDomains, ConstantTypes
    <3>2. /\ DOMAIN Append(q, m) = 1..(Len(q) + 1) /\ Len(q) \in Nat /\ DOMAIN q = 1..Len(q)
          /\ Append(q, m)[Len(q) + 1] = m /\ \A y \in 1..Len(q) : Append(q, m)[y] = q[y]
      BY AppendProperties, LenProperties
    <3>3. x # Len(q) + 1
      BY <1>4, <2>2, <3>1, <3>2
    <3>4. x \in DOMAIN q /\ notifQueue'[nLrt][x] = q[x]
      BY <2>2, <3>1, <3>2, <3>3
    <3> QED BY <3>1, <3>4 DEF FinishedFrom
  <2> QED BY <1>5, <2>1, <2>2
<1>9. EndsOnce'
  BY <1>1, <1>2, <1>3, <1>7, <1>8 DEF QInv, EndsOnce
<1>10. FinishedAreOver(notifQueue[nLrt])'
  <2>1. PICK F \in SUBSET (Activated \ {grt}) :
          /\ Cardinality(F) = nFinishedPE
          /\ \A i \in F : Over(i) /\ ~FinishedFrom(i, notifQueue[nLrt])
    BY DEF QInv, FinishedAreOver
  <2>2. \A i \in F : i # l /\ i \in LRT
    BY <1>2, <1>3, <2>1
  <2>3. \A i \in F : Over(i)' /\ ~FinishedFrom(i, notifQueue[nLrt])'
    BY <1>7, <1>8, <2>1, <2>2
  <2>4. pc'[grt] = "recv" => Over(grt)'
    <3>1. CASE l = grt
      BY <1>7, <3>1
    <3>2. CASE l # grt
      <4>1. pc'[grt] = pc[grt]
        BY <1>2, <3>2 DEF NoMoreJobs
      <4> QED BY <1>2, <1>7, <3>2, <4>1 DEF QInv, FinishedAreOver
    <3> QED BY <3>1, <3>2
  <2>5. \A i \in Activated : FinishedFrom(i, notifQueue[nLrt])' => Over(i)'
    BY <1>2, <1>7, <1>8 DEF QInv, FinishedAreOver
  <2>6. Cardinality(F) = nFinishedPE'
    BY <1>1, <2>1
  <2> QED BY <2>1, <2>3, <2>4, <2>5, <2>6 DEF FinishedAreOver
<1> QED BY <1>1, <1>6, <1>9, <1>10 DEF QInv

LEMMA RunQuiet ==
  ASSUME TInv, TInv', OInv, QInv, NEW l \in LRT, Run(l), ~GrtMisses
  PROVE  QInv'
<1>1. CASE HandleNotification(l)
  BY <1>1, JobStepQuiet, HandleEndQuiet, HandleStopQuiet DEF HandleNotification
<1>2. CASE PassWithoutJob(l) \/ PassWithJob(l)
  <2>1. PICK r \in {"wait", "drain"} : EndPass(l, r) /\ pc[l] \in {"drain", "notify"}
    BY <1>2 DEF PassWithoutJob, PassWithJob, Drained, At
  <2>2. pc[l] \in LrtPC
    BY <2>1 DEF LrtPC
  <2> QED BY <2>1, <2>2, IdlePassQuiet, LastPassQuiet
<1> QED BY <1>1, <1>2, JobStepQuiet DEF Run

-----------------------------------------------------------------------------
(* The steps of the GRT.                                                   *)

(* The GRT executes nothing, and nothing that was sent is lost.            *)
LEMMA GrtMoveQuiet ==
  ASSUME TInv, TInv', OInv, QInv,
         Iterate \/ SendJob \/ RunUntilNoMoreJobs \/ PushBackTrace \/ Destroy \/ Barrier
  PROVE  QInv'
<1>1. /\ pc \in [LRT -> LrtPC \cup GrtPC] /\ grt \in LRT /\ nLrt \in Queues /\ LRT \subseteq Queues
      /\ notifQueue \in [Queues -> Seq(MessageType)] /\ iteration \in Nat /\ nLrt \notin LRT
      /\ \A j \in Jobs : mappedPE[j] \in LRT
  BY ConstantTypes DEF TInv, LrtTypes, QueueTypes, GrtTypes
<1>2. /\ UNCHANGED <<lrtVars, nFinishedPE, ran>> /\ lastJobID' = lastJobID /\ jobIx' = jobIx
      /\ pc' = pc \/ \E p \in {"send", "drain", "stop", "done"} : pc' = [pc EXCEPT ![grt] = p]
  BY DEF Iterate, SendJob, RunUntilNoMoreJobs, PushBackTrace, Destroy, Barrier, grtVars, lrtVars
<1>3. /\ pc'[grt] = "recv" => pc[grt] = "recv"
      /\ pc[grt] \in {"stop", "done"} => pc'[grt] \in {"stop", "done"}
      /\ \A k \in LRT : Unsent(k)' => Unsent(k)
  <2>1. CASE SendJob \/ PushBackTrace
    <3>1. pc' = pc /\ sentTo' = sentTo
      BY <2>1 DEF SendJob, PushBackTrace, grtVars
    <3> QED BY <3>1 DEF Unsent
  <2>2. CASE Iterate \/ Destroy \/ Barrier
    <3>1. pc[grt] \in {"idle", "stop"} /\ pc'[grt] \in {"send", "stop", "done"}
          /\ (pc[grt] = "stop" => pc'[grt] = "done")
      BY <1>1, <2>2 DEF Iterate, Destroy, Barrier, At
    <3> QED BY <3>1 DEF Unsent
  <2>3. CASE RunUntilNoMoreJobs
    <3>1. pc[grt] = "send" /\ pc'[grt] = "drain"
      BY <1>1, <2>3 DEF RunUntilNoMoreJobs, At
    <3> QED BY <3>1 DEF Unsent
  <2> QED BY <2>1, <2>2, <2>3
<1>4. GrtHasItsJobs'
  <2>1. CASE Iterate
    <3>1. /\ pc[grt] = "idle" /\ iteration' = iteration + 1 /\ ran' = ran
      BY <2>1 DEF Iterate, At
    <3>2. \A j \in Jobs : ran'[j] # iteration'
      BY <1>1, <3>1, CompleteIterations DEF IterationComplete
    <3> QED BY <3>2 DEF GrtHasItsJobs, JobsOf, HasRun
  <2>2. CASE ~Iterate
    <3>1. /\ iteration' = iteration /\ ran' = ran /\ jobIx' = jobIx
          /\ pc'[grt] \notin {"idle", "recv", "stop", "done"} =>
               pc[grt] \notin {"idle", "recv", "stop", "done"}
      <4>1. iteration' = iteration
        BY <2>2 DEF SendJob, RunUntilNoMoreJobs, PushBackTrace, Destroy, Barrier, grtVars
      <4>2. CASE SendJob \/ PushBackTrace
        BY <1>2, <4>1, <4>2 DEF SendJob, PushBackTrace
      <4>3. CASE RunUntilNoMoreJobs
        BY <1>2, <4>1, <4>3 DEF RunUntilNoMoreJobs, At
      <4>4. CASE Destroy \/ Barrier
        <5>1. pc'[grt] \in {"stop", "done"}
          BY <1>1, <4>4 DEF Destroy, Barrier
        <5> QED BY <1>2, <4>1, <5>1
      <4> QED BY <2>2, <4>2, <4>3, <4>4
    <3> QED BY <3>1 DEF QInv, GrtHasItsJobs, HasRun, JobsOf
  <2> QED BY <2>1, <2>2
<1>5. \A l \in LRT : \A S : S \cap {"JOB_ADD", "JOB_UPDATE_JOBSTAMP"} = {} =>
        SameMessages(notifQueue[l], notifQueue'[l], S)
  <2>1. CASE SendJob
    <3>1. PICK i \in LRT, m \in MessageType : m.subType = "JOB_ADD" /\ Push(grt, i, m)
      <4>1. nSentJobs + 1 \in Jobs
        BY <2>1, ScheduleTypes DEF SendJob, TInv, GrtTypes, Jobs
      <4>2. mappedPE[nSentJobs + 1] \in LRT
        BY <1>1, <4>1
      <4>3. Message("JOB_ADD", grt, nSentJobs + 1) \in MessageType
        BY <1>1, <4>1, JobMessages
      <4> QED BY <2>1, <4>2, <4>3 DEF SendJob, Message
    <3>2. \A r \in Queues : \A S : r # i \/ "JOB_ADD" \notin S =>
            SameMessages(notifQueue[r], notifQueue'[r], S)
      BY <1>1, <3>1, PushMoves
    <3> QED BY <1>1, <3>2
  <2>2. CASE ~SendJob
    <3>1. \A l \in LRT : notifQueue'[l] = notifQueue[l]
      <4>1. notifQueue' = notifQueue \/ \E q : notifQueue' = [notifQueue EXCEPT ![nLrt] = q]
        BY <2>2 DEF Iterate, RunUntilNoMoreJobs, PushBackTrace, Destroy, Barrier, queueVars
      <4> QED BY <1>1, <4>1
    <3> QED BY <1>1, <3>1, SameQueue
  <2> QED BY <2>1, <2>2
<1>6. \A S : S \cap {"TRACE_LRT"} = {} => SameMessages(notifQueue[nLrt], notifQueue'[nLrt], S)
  <2>1. CASE PushBackTrace
    <3>1. PICK q \in Seq(MessageType) : q = notifQueue[nLrt]
      BY <1>1
    <3>2. /\ Head(q).subType # "LRT_FINISHED_ITERATION" /\ credits[nLrt] > 0
          /\ notifQueue'[nLrt] = Append(Tail(q), Head(q))
      BY <1>1, <2>1, <3>1 DEF PushBackTrace
    <3>3. q # <<>>
      BY <1>1, <3>1, <3>2, CreditMeansItem DEF TInv
    <3>4. Head(q).subType = "TRACE_LRT"
      <4>1. Absent(q, OwnKinds)
        BY <3>1 DEF QInv, Kinds
      <4>2. Head(q).subType \notin OwnKinds /\ Head(q).subType \in SubTypes
        BY <3>3, <4>1, TailElements, MessageFields DEF Absent
      <4> QED BY <3>2, <4>2 DEF OwnKinds, SubTypes
    <3> QED BY <3>1, <3>2, <3>3, <3>4, RotatedQueue
  <2>2. CASE SendJob
    <3>1. \E i \in LRT : \E m : Push(grt, i, m)
      <4>1. mappedPE[nSentJobs + 1] \in LRT
        BY <1>1, <2>2, ScheduleTypes DEF SendJob, TInv, GrtTypes, Jobs
      <4> QED BY <2>2, <4>1 DEF SendJob
    <3>2. notifQueue'[nLrt] = notifQueue[nLrt]
      BY <1>1, <3>1 DEF Push
    <3> QED BY <1>1, <3>2, SameQueue
  <2>3. CASE Iterate \/ RunUntilNoMoreJobs \/ Destroy \/ Barrier
    <3>1. notifQueue'[nLrt] = notifQueue[nLrt]
      BY <2>3 DEF Iterate, RunUntilNoMoreJobs, Destroy, Barrier, queueVars
    <3> QED BY <1>1, <3>1, SameQueue
  <2> QED BY <2>1, <2>2, <2>3
<1> QED BY <1>2, <1>3, <1>4, <1>5, <1>6, QuietKept

(* LRT_STOP is only sent by the destructor.                                *)
LEMMA SendStopQuiet ==
  ASSUME TInv, TInv', OInv, QInv, SendStop
  PROVE  QInv'
<1>1. /\ pc[grt] = "stop" /\ UNCHANGED <<lrtVars, nFinishedPE, pc, ran, iteration>>
      /\ sentTo \in LRT /\ grt \in LRT /\ nLrt \in Queues /\ LRT \subseteq Queues /\ nLrt \notin LRT
  BY ConstantTypes DEF SendStop, At, TInv, GrtTypes, LRT
<1>2. \A r \in Queues : \A S : "LRT_STOP" \notin S => SameMessages(notifQueue[r], notifQueue'[r], S)
  <2>1. CASE sentTo = grt
    BY <2>1, SameQueue, QueueDomains DEF SendStop, queueVars
  <2>2. CASE sentTo # grt
    <3>1. Message("LRT_STOP", grt, -1) \in MessageType
      BY OtherMessages, ConstantTypes DEF SubTypes
    <3>2. PICK m \in MessageType : m.subType = "LRT_STOP" /\ Push(grt, sentTo, m)
      BY <2>2, <3>1 DEF SendStop, Message
    <3> QED BY <1>1, <3>2, PushMoves
  <2> QED BY <2>1, <2>2
<1>3. notifQueue'[nLrt] = notifQueue[nLrt]
  <2>1. \/ notifQueue' = notifQueue
        \/ \E m : notifQueue' = [notifQueue EXCEPT ![sentTo] = Append(@, m)]
    BY DEF SendStop, Push, queueVars
  <2>2. notifQueue \in [Queues -> Seq(MessageType)]
    BY DEF TInv, QueueTypes
  <2> QED BY <1>1, <2>1, <2>2
<1>4. Kinds'
  <2>1. \A l \in LRT : Absent(notifQueue[l], GrtKinds) => Absent(notifQueue'[l], GrtKinds)
    BY <1>1, <1>2, AbsentKept DEF GrtKinds
  <2> QED BY <1>1, <1>3, <2>1 DEF QInv, Kinds, Absent
<1>5. EndsOnce' /\ FinishedAreOver(notifQueue[nLrt])'
  <2>1. /\ \A l \in LRT : SameMessages(notifQueue[l], notifQueue'[l], {"LRT_END_ITERATION"})
        /\ SameMessages(notifQueue[nLrt], notifQueue'[nLrt], {"LRT_FINISHED_ITERATION"})
    BY <1>1, <1>2
  <2>2. \A l \in LRT : Unsent(l)' => Unsent(l)
    BY <1>1 DEF Unsent
  <2> QED BY <1>1, <2>1, <2>2, EndsKept DEF QInv, lrtVars
<1>6. GrtHasItsJobs'
  BY <1>1 DEF GrtHasItsJobs
<1> QED BY <1>4, <1>5, <1>6 DEF QInv

(* The one end of iteration for LRT l; nobody has finished before it.      *)
LEMMA SendEndQuiet ==
  ASSUME TInv, TInv', OInv, QInv, SendEndNotification
  PROVE  QInv'
<1>0. PICK l \in LRT : l = sentTo
  <2>1. sentTo \in 0..nLrt /\ sentTo < nLrt /\ nLrt \in Nat
    BY ConstantTypes DEF SendEndNotification, TInv, GrtTypes
  <2> QED BY <2>1 DEF LRT
<1>1. /\ pc[grt] = "send" /\ UNCHANGED <<lrtVars, nFinishedPE, pc, ran, iteration>>
      /\ lastJobID' = lastJobID /\ jobIx' = jobIx /\ sentTo' = l + 1
      /\ grt \in LRT /\ nLrt \in Queues /\ LRT \subseteq Queues /\ nLrt \notin LRT
      /\ LRT \subseteq Int /\ Activated \subseteq LRT
  BY <1>0, ConstantTypes, PlatformAssumption DEF SendEndNotification, At, LRT, lrtVars
<1>2. PICK m \in MessageType : m.subType = "LRT_END_ITERATION" /\ Push(grt, l, m)
  <2>1. Message("LRT_END_ITERATION", grt, nJobPerPE[l] - 1) \in MessageType
    BY <1>1, OtherMessages, ConstantTypes DEF SubTypes
  <2> QED BY <1>0, <2>1 DEF SendEndNotification, Message
<1>3. /\ \A r \in Queues : \A S : r # l \/ "LRT_END_ITERATION" \notin S =>
           SameMessages(notifQueue[r], notifQueue'[r], S)
      /\ notifQueue'[l] = Append(notifQueue[l], m)
      /\ \A r \in Queues : r # l => notifQueue'[r] = notifQueue[r]
  BY <1>1, <1>2, PushMoves
<1>4. Kinds'
  <2>1. /\ \A k \in LRT : Absent(notifQueue[k], GrtKinds) => Absent(notifQueue'[k], GrtKinds)
        /\ \A k \in LRT : Absent(notifQueue[k], {"LRT_STOP"}) => Absent(notifQueue'[k], {"LRT_STOP"})
    BY <1>1, <1>3, AbsentKept DEF GrtKinds
  <2>2. notifQueue'[nLrt] = notifQueue[nLrt]
    BY <1>1, <1>3
  <2> QED BY <1>1, <2>1, <2>2 DEF QInv, Kinds, Absent
<1>5. GrtHasItsJobs'
  BY <1>1 DEF QInv, GrtHasItsJobs, HasRun, JobsOf
<1>6. \A k \in LRT : Unsent(k)' => Unsent(k) /\ k # l
  BY <1>0, <1>1 DEF Unsent
<1>7. /\ \A k \in LRT : k # l => (HasEnd(k)' <=> HasEnd(k)) /\ (Over(k)' <=> Over(k))
      /\ \A k \in LRT : k # l => (OneEnd(notifQueue[k])' <=> OneEnd(notifQueue[k]))
      /\ \A k : FinishedFrom(k, notifQueue[nLrt])' <=> FinishedFrom(k, notifQueue[nLrt])
  BY <1>1, <1>3 DEF HasEnd, Over, OneEnd, FinishedFrom, IsFinished
<1>8. ASSUME l \in Activated
      PROVE  /\ lastJobID[l] = -1 /\ ~FinishedFrom(l, notifQueue[nLrt])
             /\ OneEnd(notifQueue[l])'
  <2>1. Unsent(l)
    BY <1>0, <1>1 DEF Unsent
  <2>2. Over(l) /\ ~FinishedFrom(l, notifQueue[nLrt])
    BY <1>8, <2>1 DEF QInv, EndsOnce
  <2>3. PICK q \in Seq(MessageType) : q = notifQueue[l]
    BY <1>1, QueueDomains
  <2>4. /\ DOMAIN Append(q, m) = 1..(Len(q) + 1) /\ Len(q) \in Nat /\ DOMAIN q = 1..Len(q)
        /\ Append(q, m)[Len(q) + 1] = m /\ \A y \in 1..Len(q) : Append(q, m)[y] = q[y]
    BY AppendProperties, LenProperties
  <2>5. \A x \in DOMAIN Append(q, m) :
          Append(q, m)[x].subType = "LRT_END_ITERATION" => x = Len(q) + 1
    BY <2>2, <2>3, <2>4 DEF Over, HasEnd
  <2>6. OneEnd(Append(q, m))
    BY <2>5 DEF OneEnd
  <2> QED BY <1>3, <2>2, <2>3, <2>6 DEF OneEnd, Over
<1>9. EndsOnce'
  BY <1>1, <1>6, <1>7, <1>8 DEF QInv, EndsOnce
<1>10. FinishedAreOver(notifQueue[nLrt])'
  <2>1. nFinishedPE' = 0
    BY <1>1 DEF OInv, FinishedAreRested
  <2>2. {} \in SUBSET (Activated \ {grt}) /\ Cardinality({}) = 0
    BY FS_EmptySet
  <2>3. \A i \in Activated : FinishedFrom(i, notifQueue[nLrt])' => Over(i)'
    BY <1>1, <1>7, <1>8 DEF QInv, FinishedAreOver
  <2> QED BY <1>1, <2>1, <2>2, <2>3 DEF FinishedAreOver
<1> QED BY <1>4, <1>5, <1>9, <1>10 DEF QInv

(* The GRT counts one more LRT, that has ended its iteration.              *)
LEMMA ReceiveQuiet ==
  ASSUME TInv, TInv', OInv, QInv, ReceiveFinished
  PROVE  QInv'
<1>0. PICK q \in Seq(MessageType) : q = notifQueue[nLrt]
  BY QueueDomains, ConstantTypes
<1>1. /\ pc[grt] = "recv" /\ UNCHANGED <<lrtVars, sentTo, pc, ran, iteration>>
      /\ IsFinished(Head(q)) /\ nFinishedPE' = nFinishedPE + 1 /\ credits[nLrt] > 0
      /\ notifQueue' = [notifQueue EXCEPT ![nLrt] = Tail(q)]
      /\ lastJobID' = lastJobID /\ jobIx' = jobIx
      /\ grt \in LRT /\ nLrt \in Queues /\ LRT \subseteq Queues /\ nLrt \notin LRT
      /\ Activated \subseteq LRT /\ notifQueue \in [Queues -> Seq(MessageType)]
  BY <1>0, ConstantTypes, PlatformAssumption
  DEF ReceiveFinished, At, IsFinished, lrtVars, TInv, QueueTypes
<1>2. /\ notifQueue'[nLrt] = Tail(q) /\ \A k \in LRT : notifQueue'[k] = notifQueue[k]
  BY <1>0, <1>1
<1>3. q # <<>>
  BY <1>0, <1>1, CreditMeansItem DEF TInv
<1>4. /\ 1 \in DOMAIN q /\ q[1] = Head(q) /\ DOMAIN Tail(q) \subseteq Nat
      /\ \A x \in DOMAIN Tail(q) : x + 1 \in DOMAIN q /\ Tail(q)[x] = q[x + 1] /\ x + 1 # 1
  BY <1>3, TailElements
<1>5. Kinds'
  <2>1. SameMessages(q, Tail(q), OwnKinds)
    BY <1>1, <1>3, TailQueue DEF OwnKinds, IsFinished
  <2>2. Absent(q, OwnKinds) => Absent(Tail(q), OwnKinds)
    BY <2>1, AbsentKept
  <2> QED BY <1>0, <1>1, <1>2, <2>2 DEF QInv, Kinds, Absent
<1>6. GrtHasItsJobs'
  BY <1>1 DEF GrtHasItsJobs
<1>7. \A k \in LRT : /\ HasEnd(k)' <=> HasEnd(k)
                     /\ Over(k)' <=> Over(k)
                     /\ OneEnd(notifQueue[k])' <=> OneEnd(notifQueue[k])
                     /\ Unsent(k)' <=> Unsent(k)
  BY <1>1, <1>2 DEF HasEnd, Over, OneEnd, Unsent
<1>8. \A k : FinishedFrom(k, Tail(q)) => FinishedFrom(k, q)
  BY <1>4 DEF FinishedFrom
<1>9. EndsOnce'
  <2>1. \A k : FinishedFrom(k, notifQueue[nLrt])' => FinishedFrom(k, notifQueue[nLrt])
    BY <1>0, <1>2, <1>8 DEF FinishedFrom, IsFinished
  <2> QED BY <1>1, <1>7, <2>1 DEF QInv, EndsOnce
<1>10. PICK i : i = Head(q).lrtID
  OBVIOUS
<1>11. /\ i \in Activated \ {grt} /\ FinishedFrom(i, q) /\ ~FinishedFrom(i, Tail(q))
  <2>1. FinishedAreRested(q)
    BY <1>0 DEF OInv
  <2>2. i \in Activated \ {grt} /\ FinishedFrom(i, q)
    BY <1>1, <1>4, <1>10, <2>1 DEF FinishedAreRested, FinishedFrom
  <2>3. ~FinishedFrom(i, Tail(q))
    BY <1>1, <1>4, <1>10, <2>1 DEF FinishedAreRested, FinishedFrom
  <2> QED BY <2>2, <2>3
<1>12. FinishedAreOver(q)
  BY <1>0 DEF QInv
<1>13. PICK F \in SUBSET (Activated \ {grt}) :
         /\ Cardinality(F) = nFinishedPE
         /\ \A k \in F : Over(k) /\ ~FinishedFrom(k, q)
  BY <1>12 DEF FinishedAreOver
<1>14. Cardinality(F \cup {i}) = nFinishedPE + 1
  <2>1. IsFiniteSet(F)
    <3>1. IsFiniteSet(LRT)
      BY PlatformAssumption, FS_Interval DEF LRT
    <3> QED BY <1>1, <3>1, FS_Subset
  <2> QED BY <1>11, <1>13, <2>1, FS_AddElement
<1>15. \A k \in F \cup {i} : Over(k)' /\ ~FinishedFrom(k, Tail(q))
  <2>1. Over(i)
    BY <1>11, <1>12 DEF FinishedAreOver
  <2> QED BY <1>1, <1>7, <1>8, <1>11, <1>13, <2>1
<1>16. FinishedAreOver(Tail(q))'
  <2>1. \A k \in Activated : FinishedFrom(k, Tail(q)) => Over(k)'
    BY <1>1, <1>7, <1>8, <1>12 DEF FinishedAreOver
  <2>2. pc'[grt] = "recv" => Over(grt)'
    BY <1>1, <1>7, <1>12 DEF FinishedAreOver
  <2>3. F \cup {i} \in SUBSET (Activated \ {grt})
    BY <1>11, <1>13
  <2> QED BY <1>1, <1>14, <1>15, <2>1, <2>2, <2>3 DEF FinishedAreOver, FinishedFrom, IsFinished
<1>17. FinishedAreOver(notifQueue[nLrt])'
  BY <1>2, <1>16 DEF FinishedAreOver, FinishedFrom, IsFinished
<1> QED BY <1>5, <1>6, <1>9, <1>17 DEF QInv

(* All LRTs that take part are counted, and so have ended their iteration. *)
LEMMA ReturnQuiet ==
  ASSUME TInv, TInv', OInv, QInv, IterateReturns
  PROVE  QInv'
<1>1. /\ pc[grt] = "recv" /\ nFinishedPE = NPEToWait /\ nFinishedPE' = 0
      /\ pc' = [pc EXCEPT ![grt] = "idle"] /\ pc \in [LRT -> LrtPC \cup GrtPC]
      /\ UNCHANGED <<queueVars, lrtVars, sentTo, ran, iteration>> /\ notifQueue' = notifQueue
      /\ lastJobID' = lastJobID /\ jobIx' = jobIx
      /\ grt \in LRT /\ grt \in Activated /\ Activated \subseteq LRT
  BY PlatformAssumption DEF IterateReturns, At, TInv, LrtTypes, queueVars, lrtVars
<1>2. pc'[grt] = "idle"
  BY <1>1
<1>3. PICK F \in SUBSET (Activated \ {grt}) :
        /\ Cardinality(F) = nFinishedPE
        /\ \A k \in F : Over(k) /\ ~FinishedFrom(k, notifQueue[nLrt])
  BY DEF QInv, FinishedAreOver
<1>4. F = Activated \ {grt}
  <2>1. IsFiniteSet(Activated)
    <3>1. IsFiniteSet(LRT)
      BY PlatformAssumption, FS_Interval DEF LRT
    <3> QED BY <1>1, <3>1, FS_Subset
  <2>2. IsFiniteSet(Activated \ {grt}) /\ Cardinality(Activated \ {grt}) = NPEToWait
    BY <1>1, <2>1, FS_RemoveElement DEF NPEToWait
  <2> QED BY <1>1, <1>3, <2>2, FS_Subset
<1>5. \A k \in Activated : Over(k) /\ ~FinishedFrom(k, notifQueue[nLrt])
  <2>1. Over(grt)
    BY <1>1 DEF QInv, FinishedAreOver
  <2>2. ~FinishedFrom(grt, notifQueue[nLrt])
    BY DEF OInv, FinishedAreRested, FinishedFrom
  <2> QED BY <1>3, <1>4, <2>1, <2>2
<1>6. /\ \A k \in LRT : /\ HasEnd(k)' <=> HasEnd(k)
                        /\ Over(k)' <=> Over(k)
                        /\ OneEnd(notifQueue[k])' <=> OneEnd(notifQueue[k])
      /\ \A k : FinishedFrom(k, notifQueue[nLrt])' <=> FinishedFrom(k, notifQueue[nLrt])
  BY <1>1 DEF HasEnd, Over, OneEnd, FinishedFrom, IsFinished
<1>7. Kinds' /\ GrtHasItsJobs'
  BY <1>1, <1>2 DEF QInv, Kinds, Absent, GrtHasItsJobs
<1>8. EndsOnce'
  BY <1>1, <1>5, <1>6 DEF QInv, EndsOnce
<1>9. FinishedAreOver(notifQueue[nLrt])'
  <2>1. {} \in SUBSET (Activated \ {grt}) /\ Cardinality({}) = 0
    BY FS_EmptySet
  <2> QED BY <1>1, <1>2, <1>5, <1>6, <2>1 DEF FinishedAreOver
<1> QED BY <1>7, <1>8, <1>9 DEF QInv

-----------------------------------------------------------------------------
LEMMA InitQuiet == Init => QInv
<1> SUFFICES ASSUME Init PROVE QInv
  OBVIOUS
<1>1. /\ \A q \in Queues : notifQueue[q] = <<>> /\ DOMAIN notifQueue[q] = {}
      /\ \A l \in LRT : lastJobID[l] = -1
      /\ pc[grt] = "idle" /\ nFinishedPE = 0 /\ Activated \subseteq LRT
      /\ grt \in LRT /\ nLrt \in Queues /\ LRT \subseteq Queues
  BY ConstantTypes, PlatformAssumption DEF Init, Queues
<1>2. /\ \A l \in LRT : Over(l) /\ OneEnd(notifQueue[l]) /\ ~HasEnd(l)
      /\ \A i : ~FinishedFrom(i, notifQueue[nLrt])
  BY <1>1 DEF Over, OneEnd, HasEnd, FinishedFrom
<1>3. Kinds /\ GrtHasItsJobs
  BY <1>1 DEF Kinds, Absent, GrtHasItsJobs
<1>4. EndsOnce
  BY <1>1, <1>2 DEF EndsOnce
<1>5. FinishedAreOver(notifQueue[nLrt])
  <2>1. {} \in SUBSET (Activated \ {grt}) /\ Cardinality({}) = 0
    BY FS_EmptySet
  <2> QED BY <1>1, <1>2, <2>1 DEF FinishedAreOver
<1> QED BY <1>3, <1>4, <1>5 DEF QInv

LEMMA StepQuiet ==
  ASSUME TInv, TInv', OInv, QInv, [Next]_vars, ~GrtMisses
  PROVE  QInv'
<1>1. CASE UNCHANGED <<queueVars, lrtVars, grtVars, pc, ran>>
  <2>1. /\ UNCHANGED <<notifQueue, pc, lastJobID, jobIx, ran, iteration, sentTo, nFinishedPE>>
    BY <1>1 DEF queueVars, lrtVars, grtVars
  <2> QED BY <2>1 DEF QInv, Kinds, Absent, GrtHasItsJobs, HasRun, JobsOf, EndsOnce, OneEnd, Over,
                      HasEnd, Unsent, FinishedAreOver, FinishedFrom, IsFinished
<1>2. CASE UNCHANGED vars
  BY <1>1, <1>2 DEF vars
<1>3. ASSUME NEW l \in LRT, Post(l) PROVE QInv'
  <2>1. /\ UNCHANGED <<notifQueue, pc, lastJobID, jobIx, ran, iteration, sentTo, nFinishedPE>>
    BY <1>3 DEF Post, lrtVars, grtVars
  <2> QED BY <2>1 DEF QInv, Kinds, Absent, GrtHasItsJobs, HasRun, JobsOf, EndsOnce, OneEnd, Over,
                      HasEnd, Unsent, FinishedAreOver, FinishedFrom, IsFinished
<1>4. CASE Iterate \/ Destroy \/ GrtStops
  BY <1>4, GrtMoveQuiet, SendStopQuiet DEF GrtStops
<1>5. CASE GrtIterates
  BY <1>5, GrtMoveQuiet, SendEndQuiet, ReceiveQuiet, ReturnQuiet DEF GrtIterates
<1> QED BY <1>2, <1>3, <1>4, <1>5, RunQuiet DEF Next, Terminated

LEMMA QuietAtEnd == TInv /\ OInv /\ QInv => QuietBetweenIterations
<1> SUFFICES ASSUME TInv, OInv, QInv, pc[grt] = "idle" PROVE QuietBetweenIterations
  BY DEF QuietBetweenIterations
<1>1. ASSUME NEW l \in LRT, NEW k \in DOMAIN notifQueue[l]
      PROVE  notifQueue[l][k].subType = "LRT_END_ITERATION"
  <2>1. PICK m \in MessageType : m = notifQueue[l][k] /\ m.subType \in SubTypes
    BY <1>1, QueueDomains, ElementOfSeq, MessageFields
  <2>2. m.subType \notin GrtKinds /\ m.subType # "LRT_STOP"
    BY <1>1, <2>1 DEF QInv, Kinds, Absent
  <2>3. \A j \in Jobs : HasRun(j)
    BY CompleteIterations DEF IterationComplete, HasRun
  <2>4. m.subType # "JOB_ADD"
    <3> SUFFICES ASSUME m.subType = "JOB_ADD" PROVE FALSE
      OBVIOUS
    <3>1. m.index \in Jobs
      BY MessageFields
    <3>2. ~HasRun(m.index)
      BY <1>1, <2>1 DEF OInv, MessagesInOrder, AddsInOrder
    <3> QED BY <2>3, <3>1, <3>2
  <2>5. m.subType # "JOB_UPDATE_JOBSTAMP"
    <3> SUFFICES ASSUME m.subType = "JOB_UPDATE_JOBSTAMP" PROVE FALSE
      OBVIOUS
    <3>1. Awaited(l, m.lrtID, m.index)
      BY <1>1, <2>1 DEF OInv, MessagesInOrder, UpdatesAreNews
    <3> QED BY <2>3, <3>1 DEF Awaited, Waiting, JobsOf
  <2> QED BY <2>1, <2>2, <2>4, <2>5 DEF GrtKinds, SubTypes
<1>2. ASSUME NEW l \in Activated PROVE lastJobID[l] = -1 /\ notifQueue[l] = <<>>
  <2>1. l \in LRT /\ Over(l)
    BY PlatformAssumption DEF QInv, EndsOnce, Unsent
  <2>2. DOMAIN notifQueue[l] = {}
    BY <1>1, <2>1 DEF Over, HasEnd
  <2>3. notifQueue[l] \in Seq(MessageType)
    BY <2>1, QueueDomains
  <2>4. notifQueue[l] = <<>>
    <3>1. Len(notifQueue[l]) \in Nat /\ 1..Len(notifQueue[l]) = {}
      BY <2>2, <2>3, LenProperties
    <3>2. Len(notifQueue[l]) # 0 => 1 \in 1..Len(notifQueue[l])
      BY <3>1
    <3> QED BY <2>3, <3>1, <3>2, EmptySeq
  <2> QED BY <2>1, <2>4 DEF Over
<1>3. ASSUME NEW l \in LRT, l \notin Activated PROVE lastJobID[l] = -1
  <2>1. JobsOf(l) = {}
    BY <1>3, ScheduleTypes DEF JobsOf
  <2>2. ~(0 < nJobPerPE[l]) /\ nJobPerPE[l] \in Nat
    BY <2>1, ScheduleFacts
  <2>3. lastJobID[l] \in {-1, nJobPerPE[l] - 1}
    BY DEF OInv, LastIDs
  <2> QED BY <2>2, <2>3
<1>4. \A l \in LRT : jobQueue[l] = <<>> /\ jobIx[l] = -1 /\ \A i \in LRT : jobStamps[l][i] = -1
  BY DEF OInv, GrtPhases, Rested, Blank
<1>5. ASSUME NEW k \in DOMAIN notifQueue[nLrt]
      PROVE  notifQueue[nLrt][k].subType = "TRACE_LRT"
  <2>1. PICK m \in MessageType : m = notifQueue[nLrt][k] /\ m.subType \in SubTypes
    BY <1>5, QueueDomains, ConstantTypes, ElementOfSeq, MessageFields
  <2>2. m.subType \notin OwnKinds /\ ~IsFinished(m)
    BY <1>5, <2>1 DEF QInv, Kinds, Absent, OInv, FinishedAreRested
  <2> QED BY <2>1, <2>2 DEF OwnKinds, IsFinished, SubTypes
<1> QED BY <1>1, <1>2, <1>3, <1>4, <1>5 DEF QuietBetweenIterations

-----------------------------------------------------------------------------
(* The refinement: an execution of the runtime is an execution of the      *)
(* iterated dataflow graph.                                                *)

(* Jobs begin and end only where an LRT enters and leaves "exec".          *)
LEMMA StartedKept ==
  ASSUME ran' = ran, \A l \in LRT : pc'[l] = "exec" <=> pc[l] = "exec",
         \A l \in LRT : pc[l] = "exec" =>
           jobQueue'[l] = jobQueue[l] /\ jobQueueIndex'[l] = jobQueueIndex[l]
  PROVE  started' = started
<1>1. \A j \in Jobs : Executing(j)' <=> Executing(j)
  BY DEF Executing, CurrentJob
<1> QED BY <1>1 DEF started

(* A step of LRT l outside of runJob, or inside of its loop of notifies.   *)
LEMMA MoveStutters ==
  ASSUME TInv, NEW l \in LRT, NEW p, p # "exec", pc[l] # "exec", pc' = [pc EXCEPT ![l] = p],
         UNCHANGED <<ran, iteration>>,
         \A k \in LRT : k # l => jobQueue'[k] = jobQueue[k] /\ jobQueueIndex'[k] = jobQueueIndex[k]
  PROVE  UNCHANGED Dataflow!vars
<1>1. pc \in [LRT -> LrtPC \cup GrtPC]
  BY DEF TInv, LrtTypes
<1>2. pc'[l] # "exec" /\ \A k \in LRT : k # l => pc'[k] = pc[k]
  BY <1>1
<1>3. started' = started
  BY <1>2, StartedKept
<1> QED BY <1>3 DEF Dataflow!vars

LEMMA SilentStutters ==
  ASSUME UNCHANGED <<ran, iteration, pc, jobQueue, jobQueueIndex>>
  PROVE  UNCHANGED Dataflow!vars
<1>1. started' = started
  BY StartedKept
<1> QED BY <1>1 DEF Dataflow!vars

LEMMA PassStutters ==
  ASSUME TInv, NEW l \in LRT, NEW resume \in {"wait", "drain"}, pc[l] # "exec",
         EndPass(l, resume)
  PROVE  UNCHANGED Dataflow!vars
<1>1. /\ jobQueue \in [LRT -> Seq(Jobs)] /\ jobQueueIndex \in [LRT -> Nat]
  BY DEF TInv, LrtTypes
<1>2. UNCHANGED <<ran, iteration>>
  BY DEF EndPass
<1>3. \E p \in {"wait", "drain", "recv"} : pc' = [pc EXCEPT ![l] = p]
  BY DEF EndPass, NoMoreJobs
<1>4. \/ UNCHANGED <<jobQueue, jobQueueIndex>>
      \/ /\ jobQueue' = [jobQueue EXCEPT ![l] = <<>>]
         /\ jobQueueIndex' = [jobQueueIndex EXCEPT ![l] = 0]
  BY DEF EndPass, ResetLrt, ClearJobQueue, lrtVars
<1>5. \A k \in LRT : k # l => jobQueue'[k] = jobQueue[k] /\ jobQueueIndex'[k] = jobQueueIndex[k]
  BY <1>1, <1>4
<1> QED BY <1>2, <1>3, <1>5, MoveStutters

LEMMA StartJobStarts ==
  ASSUME TInv, OInv, TInv', OInv', NEW l \in LRT, StartJob(l)
  PROVE  \E j \in Jobs : Dataflow!Start(j)
<1>1. /\ pc \in [LRT -> LrtPC \cup GrtPC] /\ jobQueueIndex \in [LRT -> Nat]
      /\ ran \in [Jobs -> Nat] /\ iteration \in Nat /\ Counted
  BY DEF TInv, LrtTypes, GrtTypes, OInv
<1>2. /\ pc[l] = "drain" /\ GotJobToDo(l)
      /\ jobQueueIndex' = [jobQueueIndex EXCEPT ![l] = @ + 1]
      /\ pc' = [pc EXCEPT ![l] = "exec"]
      /\ UNCHANGED <<jobQueue, ran, iteration>>
  BY DEF StartJob, Drained, At, grtVars
<1>3. PICK j \in Jobs : j = NextJob(l) /\ mappedPE[j] = l /\ ~HasRun(j)
  BY <1>2, NextJobIsNext, ScheduleFacts
<1>4. /\ pc'[l] = "exec" /\ CurrentJob(l)' = j
      /\ \A k \in LRT : k # l => pc'[k] = pc[k] /\ CurrentJob(k)' = CurrentJob(k)
  BY <1>1, <1>2, <1>3 DEF CurrentJob, NextJob
<1>5. ~Executing(j)
  <2> SUFFICES ASSUME NEW k \in LRT, pc[k] = "exec", CurrentJob(k) = j PROVE FALSE
    BY DEF Executing
  <2>1. mappedPE[j] = k
    BY CurrentJobIsNext, ScheduleFacts
  <2> QED BY <1>2, <1>3, <2>1
<1>6. Executing(j)' /\ \A i \in Jobs : i # j => (Executing(i)' <=> Executing(i))
  BY <1>2, <1>4 DEF Executing
<1>7. started' = [started EXCEPT ![j] = @ + 1]
  <2>1. started \in [Jobs -> Nat] /\ started' \in [Jobs -> Nat] /\ started[j] = ran[j]
        /\ started'[j] = ran[j] + 1
    BY <1>1, <1>2, <1>5, <1>6 DEF started
  <2>2. \A i \in Jobs : i # j => started'[i] = started[i]
    BY <1>2, <1>6 DEF started
  <2> QED BY <2>1, <2>2
<1>8. started[j] < iteration
  <2>1. started[j] = ran[j] /\ ran[j] \in Nat
    BY <1>1, <1>5 DEF started
  <2>2. ran[j] + 1 = iteration
    BY <1>3 DEF OInv, Counted, HasRun
  <2> QED BY <1>1, <2>1, <2>2
<1>9. \A p \in preds[j] : ran[p] = iteration
  <2>1. (TInv /\ OInv => PrecedenceRespected)'
    BY OrderOfJobs, PTL
  <2>2. PrecedenceRespected'
    BY <2>1
  <2>3. \A p \in preds[j] : p \in Jobs /\ ran[j] < ran[p]
    BY <1>2, <1>6, <2>2, ScheduleTypes DEF PrecedenceRespected
  <2>4. ran[j] + 1 = iteration
    BY <1>3 DEF OInv, Counted, HasRun
  <2> QED BY <1>1, <2>3, <2>4 DEF Counted
<1>10. Dataflow!Start(j)
  BY <1>2, <1>7, <1>8, <1>9 DEF Dataflow!Start
<1> QED BY <1>10

LEMMA FinishJobEnds ==
  ASSUME TInv, OInv, NEW l \in LRT, FinishJob(l)
  PROVE  \E j \in Jobs : Dataflow!End(j)
<1>1. /\ pc \in [LRT -> LrtPC \cup GrtPC] /\ ran \in [Jobs -> Nat]
  BY DEF TInv, LrtTypes, GrtTypes
<1>2. PICK j \in Jobs : j = CurrentJob(l) /\ mappedPE[j] = l
  BY CurrentJobIsNext, ScheduleFacts DEF FinishJob, At
<1>3. /\ pc[l] = "exec" /\ pc' = [pc EXCEPT ![l] = "notify"]
      /\ ran' = [ran EXCEPT ![j] = @ + 1]
      /\ UNCHANGED <<jobQueue, jobQueueIndex, iteration>>
  BY <1>2 DEF FinishJob, At, grtVars
<1>4. /\ pc'[l] # "exec" /\ \A k \in LRT : k # l => pc'[k] = pc[k]
      /\ \A k \in LRT : CurrentJob(k)' = CurrentJob(k)
  BY <1>1, <1>3 DEF CurrentJob
<1>5. Executing(j) /\ ~Executing(j)'
  <2>1. \A k \in LRT : pc[k] = "exec" /\ CurrentJob(k) = j => k = l
    BY <1>2, CurrentJobIsNext, ScheduleFacts
  <2> QED BY <1>2, <1>3, <1>4, <2>1 DEF Executing
<1>6. \A i \in Jobs : i # j => (Executing(i)' <=> Executing(i))
  BY <1>2, <1>4 DEF Executing
<1>7. started' = started /\ ran[j] < started[j]
  <2>1. started'[j] = ran[j] + 1 /\ started[j] = ran[j] + 1
    BY <1>1, <1>3, <1>5 DEF started
  <2>2. \A i \in Jobs : started'[i] = started[i]
    BY <1>1, <1>3, <1>6, <2>1 DEF started
  <2>3. started' = started
    BY <2>2 DEF started
  <2>4. ran[j] \in Nat
    BY <1>1
  <2> QED BY <2>1, <2>3, <2>4
<1>8. Dataflow!End(j)
  BY <1>3, <1>7 DEF Dataflow!End
<1> QED BY <1>8

LEMMA RunRefines ==
  ASSUME TInv, OInv, TInv', OInv', NEW l \in LRT, Run(l)
  PROVE  [Dataflow!Next]_(Dataflow!vars)
<1>1. CASE HandleNotification(l)
  <2>1. PICK s \in SubTypes : Pop(l, s)
    BY <1>1 DEF HandleNotification, HandleJobAdd, HandleUpdateJobStamp, HandleEndIteration,
       HandleStop, SubTypes
  <2>2. pc' = [pc EXCEPT ![l] = "drain"] /\ pc[l] # "exec" /\ UNCHANGED <<ran, iteration>>
    BY <2>1 DEF Pop, At, grtVars
  <2>3. \A k \in LRT : k # l => jobQueue'[k] = jobQueue[k] /\ jobQueueIndex'[k] = jobQueueIndex[k]
    BY <1>1 DEF HandleNotification, HandleJobAdd, HandleUpdateJobStamp, HandleEndIteration,
       HandleStop, lrtVars, TInv, LrtTypes
  <2> QED BY <2>2, <2>3, MoveStutters
<1>2. CASE ExitRun(l)
  BY <1>2, MoveStutters DEF ExitRun, Drained, At, lrtVars, grtVars
<1>3. CASE PassWithoutJob(l) \/ PassWithJob(l)
  BY <1>3, PassStutters DEF PassWithoutJob, PassWithJob, Drained, At
<1>4. CASE StartJob(l)
  BY <1>4, StartJobStarts DEF Dataflow!Next
<1>5. CASE FinishJob(l)
  BY <1>5, FinishJobEnds DEF Dataflow!Next
<1>6. CASE NotifyLRTJobStamp(l)
  BY <1>6, SilentStutters DEF NotifyLRTJobStamp, lrtVars, grtVars
<1> QED BY <1>1, <1>2, <1>3, <1>4, <1>5, <1>6 DEF Run

LEMMA GrtRefines ==
  ASSUME TInv, OInv, Iterate \/ GrtIterates \/ Destroy \/ GrtStops
  PROVE  [Dataflow!Next]_(Dataflow!vars)
<1>1. grt \in LRT /\ pc \in [LRT -> LrtPC \cup GrtPC]
  BY ConstantTypes DEF TInv, LrtTypes
<1>2. CASE Iterate
  <2>1. /\ pc[grt] = "idle" /\ pc' = [pc EXCEPT ![grt] = "send"] /\ iteration' = iteration + 1
        /\ UNCHANGED <<ran, jobQueue, jobQueueIndex>>
    BY <1>2 DEF Iterate, At, lrtVars
  <2>2. \A j \in Jobs : ran[j] = iteration
    BY <2>1, CompleteIterations DEF IterationComplete
  <2>3. started' = started
    <3>1. pc'[grt] = "send" /\ \A k \in LRT : k # grt => pc'[k] = pc[k]
      BY <1>1, <2>1
    <3> QED BY <2>1, <3>1, StartedKept
  <2>4. Dataflow!Begin
    BY <2>1, <2>2, <2>3 DEF Dataflow!Begin
  <2> QED BY <2>4 DEF Dataflow!Next
<1>3. CASE SendJob \/ SendEndNotification \/ ReceiveFinished \/ PushBackTrace \/ SendStop
  BY <1>3, SilentStutters DEF SendJob, SendEndNotification, ReceiveFinished, PushBackTrace,
     SendStop, lrtVars, grtVars
<1>4. CASE RunUntilNoMoreJobs \/ IterateReturns \/ Destroy \/ Barrier
  <2>1. /\ \E p \in {"drain", "idle", "stop", "done"} : pc' = [pc EXCEPT ![grt] = p]
        /\ pc[grt] # "exec" /\ UNCHANGED <<ran, iteration, jobQueue, jobQueueIndex>>
    BY <1>4 DEF RunUntilNoMoreJobs, IterateReturns, Destroy, Barrier, At, lrtVars, grtVars
  <2> QED BY <1>1, <2>1, MoveStutters
<1> QED BY <1>2, <1>3, <1>4 DEF GrtIterates, GrtStops

LEMMA InitRefines == Init => Dataflow!Init
<1> SUFFICES ASSUME Init PROVE Dataflow!Init
  OBVIOUS
<1>1. \A j \in Jobs : ~Executing(j)
  BY DEF Init, Executing
<1>2. started = [j \in Jobs |-> 0]
  BY <1>1 DEF Init, started
<1> QED BY <1>2 DEF Init, Dataflow!Init

LEMMA StepRefines ==
  ASSUME TInv, OInv, TInv', OInv', [Next]_vars
  PROVE  [Dataflow!Next]_(Dataflow!vars)
<1>1. CASE UNCHANGED vars
  BY <1>1, SilentStutters DEF vars, lrtVars, grtVars
<1>2. ASSUME NEW l \in LRT, Post(l) PROVE UNCHANGED Dataflow!vars
  BY <1>2, SilentStutters DEF Post, lrtVars, grtVars
<1> QED BY <1>1, <1>2, RunRefines, GrtRefines DEF Next, Terminated

-----------------------------------------------------------------------------
(* The theorems: what the runtime guarantees for every schedule, every     *)
(* interleaving and every choice of LazyPosters, until the GRT misses work *)
(* of its own.                                                             *)

IInv == TInv /\ OInv /\ SentToIsReset /\ QInv

(* A step of HistorySpec that does not miss work is one of Next.           *)
LEMMA HistorySteps ==
  ASSUME [HistoryNext]_historyVars
  PROVE  /\ [Next]_vars
         /\ ~missed' => ~missed /\ ~GrtMisses
<1>1. CASE HistoryNext
  BY <1>1 DEF HistoryNext
<1>2. CASE UNCHANGED historyVars
  <2>1. vars' = vars /\ missed' = missed
    BY <1>2 DEF historyVars
  <2>2. pc' = pc
    BY <2>1 DEF vars
  <2> QED BY <2>1, <2>2 DEF GrtMisses, GrtLeavesRun
<1> QED BY <1>1, <1>2

LEMMA InitHolds == HistoryInit => TInv /\ IInv
  BY InitTyped, InitInOrder, InitQuiet DEF HistoryInit, IInv

LEMMA StepHolds ==
  ASSUME missed \/ IInv, [HistoryNext]_historyVars
  PROVE  missed' \/ IInv'
<1> SUFFICES ASSUME ~missed' PROVE IInv'
  OBVIOUS
<1>1. IInv /\ [Next]_vars /\ ~GrtMisses
  BY HistorySteps
<1>2. TInv' /\ OInv' /\ SentToIsReset'
  BY <1>1, StepInOrder DEF IInv
<1>3. QInv'
  BY <1>1, <1>2, StepQuiet DEF IInv
<1> QED BY <1>2, <1>3 DEF IInv

(* The invariant of the jobs' order, and of what is left between two       *)
(* iterations, holds until the GRT misses work.                            *)
THEOREM OrderIsKept == HistorySpec => [](missed \/ IInv)
<1>1. HistoryInit => missed \/ IInv
  BY InitHolds
<1>2. (missed \/ IInv) /\ [HistoryNext]_historyVars => (missed \/ IInv)'
  BY StepHolds
<1> QED BY <1>1, <1>2, PTL DEF HistorySpec

(* Until then, in every iteration, a job executes after the jobs whose     *)
(* output it reads, stamps are true and no LRT waits for itself.           *)
THEOREM OrderHolds == HistorySpec => []OrderUntilMissed
<1>1. (missed \/ IInv) => OrderUntilMissed
  BY OrderOfJobs, TruthOfStamps, OwnJobsAreOver DEF IInv, OrderUntilMissed
<1> QED BY <1>1, OrderIsKept, PTL

(* Until then iterate returns with every job executed and nothing left     *)
(* over, and jobQueueSanityCheck never throws.                             *)
THEOREM EndHolds == HistorySpec => []EndUntilMissed
<1>1. (missed \/ IInv) => EndUntilMissed
  BY CompleteIterations, QuietAtEnd, QueuesAreSane DEF IInv, EndUntilMissed
<1> QED BY <1>1, OrderIsKept, PTL

(* Until then updateLRTJobStamp never sets a stamp back.                   *)
THEOREM AdvanceHolds == HistorySpec => StampsAdvanceUntilMissed
<1>1. (missed \/ IInv) /\ [HistoryNext]_historyVars => [missed' \/ StampsAdvance]_historyVars
  <2> SUFFICES ASSUME missed \/ IInv, [HistoryNext]_historyVars, ~missed' PROVE StampsAdvance
    OBVIOUS
  <2> QED BY HistorySteps, StepsAdvance DEF IInv
<1>2. HistorySpec => [][missed' \/ StampsAdvance]_historyVars
  BY <1>1, OrderIsKept, PTL DEF HistorySpec
<1> QED BY <1>2 DEF StampsAdvanceUntilMissed

(* Until then the runtime implements the iterated execution of the graph.  *)
THEOREM RuntimeImplementsDataflow == HistorySpec => DataflowUntilMissed
<1> DEFINE Refines == missed' \/ [Dataflow!Next]_(Dataflow!vars)
<1>1. HistoryInit => Dataflow!Init
  BY InitRefines DEF HistoryInit
<1>2. (missed \/ IInv) /\ (missed \/ IInv)' /\ [HistoryNext]_historyVars
        => [Refines]_historyVars
  <2> SUFFICES ASSUME missed \/ IInv, missed' \/ IInv', [HistoryNext]_historyVars, ~missed'
               PROVE  [Dataflow!Next]_(Dataflow!vars)
    OBVIOUS
  <2> QED BY HistorySteps, StepRefines DEF IInv
<1>3. HistorySpec => [][Refines]_historyVars
  BY <1>2, OrderIsKept, PTL DEF HistorySpec
<1> QED BY <1>1, <1>3, PTL DEF HistorySpec, DataflowUntilMissed

-----------------------------------------------------------------------------
(* When the GRT misses work.                                               *)

(* The GRT has read its queue to the end if no post to it was late.        *)
SeesItsWork == ~hidden /\ pc[grt] \in {"exec", "notify"} => ~UnreadWork(grt)

LEMMA EmptyWhenPosted ==
  ASSUME TInv, Drained(grt), ~PostIsLate
  PROVE  ~UnreadWork(grt)
<1>1. /\ grt \in LRT /\ grt \in Queues /\ -1 # grt /\ unposted[grt] = -1 /\ credits[grt] = 0
      /\ notifQueue[grt] \in Seq(MessageType)
  BY QueueDomains, ConstantTypes DEF Drained, At
<1>2. Owing(grt) = {}
  BY <1>1 DEF Owing, PostIsLate, Others
<1>3. Len(notifQueue[grt]) = 0
  <2>1. Len(notifQueue[grt]) = credits[grt] + Cardinality(Owing(grt))
    BY <1>1 DEF TInv, CreditsMatch
  <2> QED BY <1>1, <1>2, <2>1, FS_EmptySet
<1>4. DOMAIN notifQueue[grt] = {}
  BY <1>1, <1>3, LenProperties
<1> QED BY <1>4 DEF UnreadWork

(* Where the GRT is before it executes a job or leaves run.                *)
LEMMA GrtMoves ==
  ASSUME TInv, [Next]_vars
  PROVE  /\ pc'[grt] \in {"exec", "notify"} => pc[grt] \in {"exec", "notify"} \/ Drained(grt)
         /\ GrtLeavesRun => pc[grt] = "notify" \/ Drained(grt)
<1>1. pc \in [LRT -> LrtPC \cup GrtPC] /\ grt \in LRT
  BY ConstantTypes DEF TInv, LrtTypes
<1>2. ASSUME NEW l \in LRT, Run(l)
      PROVE  \/ pc' = pc
             \/ \E p \in {"drain", "ended"} : pc' = [pc EXCEPT ![l] = p]
             \/ pc[l] = "exec" /\ pc' = [pc EXCEPT ![l] = "notify"]
             \/ /\ pc[l] = "notify" \/ Drained(l)
                /\ \E p \in {"wait", "drain", "exec", "recv"} : pc' = [pc EXCEPT ![l] = p]
                /\ pc[l] = "notify" => pc' # [pc EXCEPT ![l] = "exec"]
  <2>1. CASE HandleNotification(l)
    BY <2>1 DEF HandleNotification, HandleJobAdd, HandleUpdateJobStamp, HandleEndIteration,
       HandleStop, Pop
  <2>2. CASE ExitRun(l) \/ StartJob(l) \/ FinishJob(l) \/ NotifyLRTJobStamp(l)
    <3>1. pc[l] = "drain" => pc[l] # "notify"
      OBVIOUS
    <3> QED BY <2>2, <3>1 DEF ExitRun, StartJob, FinishJob, NotifyLRTJobStamp, Drained, At
  <2>3. CASE PassWithoutJob(l) \/ PassWithJob(l)
    <3>1. pc[l] = "notify" \/ Drained(l)
      BY <2>3 DEF PassWithoutJob, PassWithJob, At
    <3>2. \E p \in {"wait", "drain", "recv"} : pc' = [pc EXCEPT ![l] = p]
      BY <2>3 DEF PassWithoutJob, PassWithJob, EndPass, NoMoreJobs
    <3>3. pc' # [pc EXCEPT ![l] = "exec"]
      BY <1>1, <3>2
    <3> QED BY <3>1, <3>2, <3>3
  <2> QED BY <1>2, <2>1, <2>2, <2>3 DEF Run
<1>3. ASSUME NEW l \in LRT, Run(l)
      PROVE  /\ pc'[grt] \in {"exec", "notify"} => pc[grt] \in {"exec", "notify"} \/ Drained(grt)
             /\ GrtLeavesRun => pc[grt] = "notify" \/ Drained(grt)
  <2>1. CASE l = grt
    BY <1>1, <1>2, <1>3, <2>1 DEF GrtLeavesRun
  <2>2. CASE l # grt
    <3>1. pc'[grt] = pc[grt]
      BY <1>1, <1>2, <1>3, <2>2
    <3> QED BY <3>1 DEF GrtLeavesRun
  <2> QED BY <2>1, <2>2
<1>4. CASE Iterate \/ GrtIterates \/ Destroy \/ GrtStops
  <2>1. pc' = pc \/ \E p \in {"send", "drain", "idle", "stop", "done"} : pc' = [pc EXCEPT ![grt] = p]
    BY <1>4 DEF Iterate, GrtIterates, SendJob, SendEndNotification, RunUntilNoMoreJobs,
       ReceiveFinished, PushBackTrace, IterateReturns, Destroy, GrtStops, SendStop, Barrier
  <2> QED BY <1>1, <2>1 DEF GrtLeavesRun
<1>5. ASSUME pc' = pc
      PROVE  /\ pc'[grt] \in {"exec", "notify"} => pc[grt] \in {"exec", "notify"} \/ Drained(grt)
             /\ GrtLeavesRun => pc[grt] = "notify" \/ Drained(grt)
  BY <1>5 DEF GrtLeavesRun
<1>6. CASE (\E l \in LRT : Post(l)) \/ UNCHANGED vars
  <2>1. pc' = pc
    BY <1>6 DEF Post, vars
  <2> QED BY <1>5, <2>1
<1> QED BY <1>3, <1>4, <1>6 DEF Next, Terminated

(* Only the GRT pushes work to its queue, and not while it is in run.      *)
LEMMA WorkIsSent ==
  ASSUME TInv, [Next]_vars, pc[grt] \in LrtPC, ~UnreadWork(grt)
  PROVE  ~UnreadWork(grt)'
<1> DEFINE Work == {"JOB_ADD", "LRT_END_ITERATION"}
<1>1. /\ grt \in LRT /\ grt \in Queues /\ nLrt # grt /\ LRT \subseteq Queues
      /\ notifQueue \in [Queues -> Seq(MessageType)] /\ jobIx \in [LRT -> Stamp]
  BY ConstantTypes DEF TInv, QueueTypes, LrtTypes
<1>2. \A k \in DOMAIN notifQueue[grt] : notifQueue[grt][k].subType \notin Work
  BY DEF UnreadWork
<1>3. SUFFICES \A k \in DOMAIN notifQueue'[grt] : notifQueue'[grt][k].subType \notin Work
  BY DEF UnreadWork
<1>4. CASE notifQueue'[grt] = notifQueue[grt]
  BY <1>2, <1>4
<1>5. ASSUME NEW l \in LRT, Run(l)
      PROVE  \A k \in DOMAIN notifQueue'[grt] : notifQueue'[grt][k].subType \notin Work
  <2>1. CASE HandleNotification(l)
    <3>1. PICK s \in SubTypes : Pop(l, s)
      BY <2>1 DEF HandleNotification, HandleJobAdd, HandleUpdateJobStamp, HandleEndIteration,
         HandleStop, SubTypes
    <3>2. CASE l # grt
      BY <1>1, <1>4, <3>1, <3>2, PopMoves
    <3>3. CASE l = grt
      <4>1. PICK q \in Seq(MessageType) : q = notifQueue[grt] /\ q # <<>> /\ notifQueue'[grt] = Tail(q)
        BY <3>1, <3>3, PopMoves
      <4>2. \A k \in DOMAIN Tail(q) : k + 1 \in DOMAIN q /\ Tail(q)[k] = q[k + 1]
        BY <4>1, TailElements
      <4> QED BY <1>2, <4>1, <4>2
    <3> QED BY <3>2, <3>3
  <2>2. CASE NotifyLRTJobStamp(l)
    <3>1. PICK i \in toNotify[l] : Push(l, i, Message("JOB_UPDATE_JOBSTAMP", l, jobIx[l]))
      BY <2>2 DEF NotifyLRTJobStamp
    <3>2. i \in LRT
      BY <3>1 DEF TInv, LrtTypes
    <3>3. PICK m \in MessageType : m.subType = "JOB_UPDATE_JOBSTAMP" /\ Push(l, i, m)
      <4>1. Message("JOB_UPDATE_JOBSTAMP", l, jobIx[l]) \in MessageType
        BY <1>1, OtherMessages DEF SubTypes
      <4> QED BY <3>1, <4>1 DEF Message
    <3>4. SameMessages(notifQueue[grt], notifQueue'[grt], Work)
      BY <1>1, <3>2, <3>3, PushMoves
    <3> QED BY <1>2, <3>4, AbsentKept DEF Absent
  <2>3. CASE ExitRun(l) \/ StartJob(l) \/ FinishJob(l) \/ PassWithoutJob(l) \/ PassWithJob(l)
    <3>1. \/ notifQueue' = notifQueue
          \/ \E m : notifQueue' = [notifQueue EXCEPT ![nLrt] = Append(@, m)]
      BY <2>3 DEF ExitRun, StartJob, FinishJob, PassWithoutJob, PassWithJob, EndPass, Push, queueVars
    <3> QED BY <1>1, <1>4, <3>1
  <2> QED BY <1>5, <2>1, <2>2, <2>3 DEF Run
<1>6. CASE Iterate \/ GrtIterates \/ Destroy \/ GrtStops
  BY <1>6 DEF Iterate, GrtIterates, SendJob, SendEndNotification, RunUntilNoMoreJobs,
     ReceiveFinished, PushBackTrace, IterateReturns, Destroy, GrtStops, SendStop, Barrier, At, LrtPC
<1>7. CASE (\E l \in LRT : Post(l)) \/ UNCHANGED vars
  BY <1>4, <1>7 DEF Post, vars, queueVars
<1> QED BY <1>5, <1>6, <1>7 DEF Next, Terminated

LEMMA SeesItsWorkKept ==
  ASSUME TInv, SeesItsWork, [HistoryNext]_historyVars
  PROVE  /\ SeesItsWork'
         /\ ~missed /\ missed' => hidden'
<1>1. CASE UNCHANGED historyVars
  <2>1. vars' = vars /\ hidden' = hidden /\ missed' = missed
    BY <1>1 DEF historyVars
  <2>2. pc' = pc /\ notifQueue' = notifQueue
    BY <2>1 DEF vars, queueVars
  <2> QED BY <2>1, <2>2 DEF SeesItsWork, UnreadWork
<1>2. CASE HistoryNext
  <2>0. [Next]_vars
    BY <1>2 DEF HistoryNext
  <2>1. ASSUME pc'[grt] \notin {"drain", "wait"}, ~hidden',
               pc[grt] \in {"exec", "notify"} \/ Drained(grt)
        PROVE  pc[grt] \in LrtPC /\ ~UnreadWork(grt)
    <3>1. CASE Drained(grt)
      <4>1. GrtFindsNothing
        BY <2>1, <3>1 DEF GrtFindsNothing, Drained, At
      <4>2. ~PostIsLate
        BY <1>2, <2>1, <4>1 DEF HistoryNext
      <4> QED BY <3>1, <4>2, EmptyWhenPosted DEF Drained, At, LrtPC
    <3>2. CASE pc[grt] \in {"exec", "notify"}
      <4>1. ~hidden
        BY <1>2, <2>1, <3>2 DEF HistoryNext, GrtFindsNothing
      <4> QED BY <3>2, <4>1 DEF SeesItsWork, LrtPC
    <3> QED BY <2>1, <3>1, <3>2
  <2>2. SeesItsWork'
    <3> SUFFICES ASSUME ~hidden', pc'[grt] \in {"exec", "notify"} PROVE ~UnreadWork(grt)'
      BY DEF SeesItsWork, UnreadWork
    <3>1. pc[grt] \in {"exec", "notify"} \/ Drained(grt)
      BY <2>0, GrtMoves
    <3> QED BY <2>0, <2>1, <3>1, WorkIsSent
  <2>3. ASSUME ~missed, missed', ~hidden' PROVE FALSE
    <3>1. GrtLeavesRun /\ UnreadWork(grt) /\ pc'[grt] = "recv"
      BY <1>2, <2>3 DEF HistoryNext, GrtMisses, GrtLeavesRun
    <3>2. pc[grt] \in {"exec", "notify"} \/ Drained(grt)
      BY <2>0, <3>1, GrtMoves
    <3> QED BY <2>1, <2>3, <3>1, <3>2
  <2> QED BY <2>2, <2>3
<1> QED BY <1>1, <1>2

(* The GRT misses work only when its last try-pop was made while another   *)
(* LRT was between the push to its queue and the post.                     *)
THEOREM MissedHolds == HistorySpec => MissedForALatePost
<1> DEFINE Late == ~missed /\ missed' => hidden'
<1>1. HistoryInit => TInv /\ SeesItsWork
  <2>1. HistoryInit => pc[grt] = "idle"
    BY ConstantTypes DEF HistoryInit, Init
  <2> QED BY <2>1, InitHolds DEF SeesItsWork
<1>2. (TInv /\ SeesItsWork) /\ [HistoryNext]_historyVars => (TInv /\ SeesItsWork)'
  BY HistorySteps, StepTyped, SeesItsWorkKept
<1>3. (TInv /\ SeesItsWork) /\ [HistoryNext]_historyVars => [Late]_historyVars
  BY SeesItsWorkKept
<1>4. HistorySpec => [][Late]_historyVars
  BY <1>1, <1>2, <1>3, PTL DEF HistorySpec
<1>5. [][Late]_historyVars <=> MissedForALatePost
  BY DEF MissedForALatePost
<1> QED BY <1>4, <1>5
=============================================================================

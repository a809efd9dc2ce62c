---------------------- MODULE StaticRuntimeOrder_proofs ----------------------
(***************************************************************************)
(* Proofs about StaticRuntime, for any number of LRTs, any schedule that   *)
(* satisfies the assumptions, and any set of lazy posters.  First types,   *)
(* then the order of the jobs.                                             *)
(*                                                                         *)
(* A thread reads the head of a queue when the semaphore allows it, so     *)
(* typing rests on the queues' credits: an item that may be popped is      *)
(* there.  It also rests on a running LRT's index lying in its job queue.  *)
(*                                                                         *)
(* The order: whatever the schedule, the number of LRTs and of             *)
(* iterations, a job starts after the jobs it reads, and iterate returns   *)
(* when every job has run.                                                 *)
(*                                                                         *)
(* An LRT has a part in an iteration until its jobs have all run and it    *)
(* has cleared its state: it is then rested, and the invariant says that   *)
(* nothing on its way to it could still wake it up.  A stamp sent to it is *)
(* news, larger than the stamps it has of that sender, and one of its jobs *)
(* that has not started waits for it; so no stamp outlives its iteration.  *)
(***************************************************************************)
EXTENDS StaticRuntime, SequenceTheorems, FiniteSetTheorems, TLAPS

Queues == 0..nLrt

(* The threads that have still to post queue q.                            *)
Owing(q) == {l \in LRT : unposted[l] = q}

QueueTypes ==
  /\ notifQueue \in [Queues -> Seq(MessageType)]
  /\ credits \in [Queues -> Nat]
  /\ unposted \in [LRT -> Queues \cup {-1}]

(* Items = semaphore value + posts that are owed.                          *)
CreditsMatch ==
  \A q \in Queues : Len(notifQueue[q]) = credits[q] + Cardinality(Owing(q))

LrtTypes ==
  /\ pc \in [LRT -> LrtPC \cup GrtPC]
  /\ run \in [LRT -> BOOLEAN]
  /\ jobQueue \in [LRT -> Seq(Jobs)]
  /\ jobQueueIndex \in [LRT -> Nat]
  /\ jobIx \in [LRT -> Stamp]
  /\ lastJobID \in [LRT -> Stamp]
  /\ jobStamps \in [LRT -> [LRT -> Stamp]]
  /\ toNotify \in [LRT -> SUBSET LRT]
  /\ ran \in [Jobs -> Nat]

GrtTypes ==
  /\ nSentJobs \in 0..NJobs /\ sentTo \in 0..nLrt
  /\ nFinishedPE \in Nat /\ iteration \in Nat

(* A job that executes was taken out of the job queue.                     *)
ExecutingIsQueued ==
  \A l \in LRT : pc[l] = "exec" => jobQueueIndex[l] \in DOMAIN jobQueue[l]

TInv == QueueTypes /\ CreditsMatch /\ LrtTypes /\ GrtTypes /\ ExecutingIsQueued

LEMMA TInvImpliesTypeOK == TInv => TypeOK
  BY DEF TInv, QueueTypes, LrtTypes, GrtTypes, TypeOK, Queues

-----------------------------------------------------------------------------
LEMMA ConstantTypes ==
  /\ grt \in LRT /\ LRT \subseteq Queues /\ nLrt \in Queues /\ nLrt \in Nat
  /\ -1 \notin Queues /\ nLrt \notin LRT
  /\ \A j \in Jobs : mappedPE[j] \in LRT /\ mappedPE[j] \in Queues
  /\ \A l \in LRT : nJobPerPE[l] - 1 \in Stamp
  /\ Stamp \subseteq Int /\ -1 \in Stamp /\ 0 \in Stamp
<1>1. /\ grt \in LRT /\ LRT \subseteq Queues /\ nLrt \in Queues /\ nLrt \in Nat
      /\ -1 \notin Queues /\ nLrt \notin LRT
  BY PlatformAssumption DEF Queues, LRT
<1>2. \A j \in Jobs : mappedPE[j] \in LRT
  BY PlatformAssumption, ScheduleTypes
<1>3. \A l \in LRT : nJobPerPE[l] - 1 \in Stamp
  <2> TAKE l \in LRT
  <2>1. nJobPerPE[l] \in Nat
    BY ScheduleTypes
  <2> QED BY <2>1 DEF Stamp
<1>4. Stamp \subseteq Int /\ -1 \in Stamp /\ 0 \in Stamp
  BY DEF Stamp
<1> QED BY <1>1, <1>2, <1>3, <1>4

LEMMA OwingIsFinite ==
  \A q \in Queues : IsFiniteSet(Owing(q)) /\ Cardinality(Owing(q)) \in Nat
<1> TAKE q \in Queues
<1>1. IsFiniteSet(LRT)
  BY PlatformAssumption, FS_Interval DEF LRT
<1>2. Owing(q) \subseteq LRT
  BY DEF Owing
<1> QED BY <1>1, <1>2, FS_Subset, FS_CardinalityType

(* A queue that can be popped has a head.                                  *)
LEMMA CreditMeansItem ==
  ASSUME QueueTypes, CreditsMatch, NEW q \in Queues, credits[q] > 0
  PROVE  /\ notifQueue[q] # <<>>
         /\ Head(notifQueue[q]) \in MessageType
         /\ Tail(notifQueue[q]) \in Seq(MessageType)
         /\ Len(Tail(notifQueue[q])) = Len(notifQueue[q]) - 1
<1>1. notifQueue[q] \in Seq(MessageType) /\ credits[q] \in Nat
  BY DEF QueueTypes
<1>2. Cardinality(Owing(q)) \in Nat
  BY OwingIsFinite
<1>3. Len(notifQueue[q]) > 0
  BY <1>1, <1>2 DEF CreditsMatch
<1>4. notifQueue[q] # <<>>
  BY <1>1, <1>3, EmptySeq
<1> QED BY <1>1, <1>4, HeadTailProperties

(* Appending to queue q and posting it at once.                            *)
LEMMA PushKeepsQueues ==
  ASSUME QueueTypes, CreditsMatch, NEW l \in LRT, NEW q \in Queues,
         NEW m \in MessageType, unposted[l] = -1, Push(l, q, m)
  PROVE  QueueTypes' /\ CreditsMatch'
<1> USE DEF QueueTypes, Queues
<1>0. nLrt \in Nat
  BY PlatformAssumption
<1>1. /\ Append(notifQueue[q], m) \in Seq(MessageType)
      /\ Len(Append(notifQueue[q], m)) = Len(notifQueue[q]) + 1
      /\ Len(notifQueue[q]) \in Nat
  <2>1. notifQueue[q] \in Seq(MessageType)
    OBVIOUS
  <2> QED BY <2>1, AppendProperties, LenProperties
<1>2. notifQueue' \in [Queues -> Seq(MessageType)]
  BY <1>1 DEF Push
<1>3. \A r \in Queues : r # q => notifQueue'[r] = notifQueue[r]
  BY DEF Push
<1>4. Len(notifQueue'[q]) = Len(notifQueue[q]) + 1
  BY <1>1 DEF Push
<1>5. CASE l \notin LazyPosters
  <2>1. credits' = [credits EXCEPT ![q] = @ + 1] /\ unposted' = unposted
    BY <1>5 DEF Push
  <2>2. \A r \in Queues : Owing(r)' = Owing(r)
    BY <2>1 DEF Owing
  <2>3. credits' \in [Queues -> Nat] /\ credits'[q] = credits[q] + 1
    BY <2>1
  <2>4. \A r \in Queues : Len(notifQueue'[r]) = credits'[r] + Cardinality(Owing(r)')
    <3> TAKE r \in Queues
    <3>1. Len(notifQueue[r]) = credits[r] + Cardinality(Owing(r))
      BY DEF CreditsMatch
    <3>2. CASE r = q
      <4>1. Owing(r)' = Owing(r) /\ Cardinality(Owing(r)) \in Nat
        BY <2>2, OwingIsFinite
      <4>2. credits[r] \in Nat /\ credits'[r] = credits[r] + 1
        BY <2>3, <3>2
      <4>3. Len(notifQueue'[r]) = Len(notifQueue[r]) + 1
        BY <1>4, <3>2
      <4> QED BY <3>1, <4>1, <4>2, <4>3
    <3>3. CASE r # q
      BY <1>3, <2>1, <2>2, <3>1, <3>3
    <3> QED BY <3>2, <3>3
  <2> QED BY <1>2, <2>1, <2>3, <2>4 DEF CreditsMatch
<1>6. CASE l \in LazyPosters
  <2>1. credits' = credits /\ unposted' = [unposted EXCEPT ![l] = q]
    BY <1>6 DEF Push
  <2>2. Owing(q)' = Owing(q) \cup {l} /\ l \notin Owing(q)
    BY <1>0, <2>1 DEF Owing
  <2>3. \A r \in Queues : r # q => Owing(r)' = Owing(r)
    BY <1>0, <2>1 DEF Owing
  <2>4. Cardinality(Owing(q)') = Cardinality(Owing(q)) + 1
    BY <2>2, OwingIsFinite, FS_AddElement
  <2>5. \A r \in Queues : Len(notifQueue'[r]) = credits'[r] + Cardinality(Owing(r)')
    <3> TAKE r \in Queues
    <3>1. Len(notifQueue[r]) = credits[r] + Cardinality(Owing(r))
      BY DEF CreditsMatch
    <3>2. CASE r = q
      BY <1>1, <1>4, <2>1, <2>4, <3>1, <3>2, OwingIsFinite
    <3>3. CASE r # q
      BY <1>3, <2>1, <2>3, <3>1, <3>3
    <3> QED BY <3>2, <3>3
  <2> QED BY <1>2, <2>1, <2>5 DEF CreditsMatch
<1> QED BY <1>5, <1>6

LEMMA PostKeepsQueues ==
  ASSUME QueueTypes, CreditsMatch, NEW l \in LRT, Post(l)
  PROVE  QueueTypes' /\ CreditsMatch'
<1>0. PICK q \in Queues :
        /\ q = unposted[l] /\ notifQueue' = notifQueue
        /\ credits' = [credits EXCEPT ![q] = @ + 1]
        /\ unposted' = [unposted EXCEPT ![l] = -1]
  BY DEF Post, QueueTypes
<1>1. QueueTypes'
  BY <1>0 DEF QueueTypes
<1>2. l \in Owing(q) /\ Owing(q)' = Owing(q) \ {l}
  BY <1>0, ConstantTypes DEF Owing, QueueTypes
<1>3. Cardinality(Owing(q)') = Cardinality(Owing(q)) - 1
  BY <1>0, <1>2, OwingIsFinite, FS_RemoveElement
<1>4. \A r \in Queues : r # q => Owing(r)' = Owing(r)
  BY <1>0, ConstantTypes DEF Owing, QueueTypes
<1>5. credits[q] \in Nat /\ credits'[q] = credits[q] + 1
  BY <1>0 DEF QueueTypes
<1>6. \A r \in Queues : Len(notifQueue'[r]) = credits'[r] + Cardinality(Owing(r)')
  <2> TAKE r \in Queues
  <2>1. Len(notifQueue[r]) = credits[r] + Cardinality(Owing(r))
    BY DEF CreditsMatch
  <2>2. CASE r = q
    BY <1>0, <1>3, <1>5, <2>1, <2>2, OwingIsFinite
  <2>3. CASE r # q
    BY <1>0, <1>4, <2>1, <2>3 DEF QueueTypes
  <2> QED BY <2>2, <2>3
<1> QED BY <1>1, <1>6 DEF CreditsMatch

(* Taking the head of queue q with one of its credits.                     *)
LEMMA TakeKeepsQueues ==
  ASSUME QueueTypes, CreditsMatch, NEW q \in Queues, credits[q] > 0,
         notifQueue' = [notifQueue EXCEPT ![q] = Tail(@)],
         credits' = [credits EXCEPT ![q] = @ - 1], unposted' = unposted
  PROVE  QueueTypes' /\ CreditsMatch'
<1>1. /\ Tail(notifQueue[q]) \in Seq(MessageType)
      /\ Len(Tail(notifQueue[q])) = Len(notifQueue[q]) - 1
  BY CreditMeansItem
<1>2. credits[q] \in Nat /\ credits'[q] = credits[q] - 1
  BY DEF QueueTypes
<1>3. QueueTypes'
  BY <1>1, <1>2 DEF QueueTypes
<1>4. \A r \in Queues : Owing(r)' = Owing(r)
  BY DEF Owing
<1>5. \A r \in Queues : Len(notifQueue'[r]) = credits'[r] + Cardinality(Owing(r)')
  <2> TAKE r \in Queues
  <2>1. Len(notifQueue[r]) = credits[r] + Cardinality(Owing(r))
    BY DEF CreditsMatch
  <2>2. CASE r = q
    BY <1>1, <1>2, <1>4, <2>1, <2>2, OwingIsFinite DEF QueueTypes
  <2>3. CASE r # q
    BY <1>4, <2>1, <2>3 DEF QueueTypes
  <2> QED BY <2>2, <2>3
<1> QED BY <1>3, <1>5 DEF CreditsMatch

(* The head of the GRT's queue goes back to its end.                       *)
LEMMA RotateKeepsQueues ==
  ASSUME QueueTypes, CreditsMatch, credits[nLrt] > 0, unposted[grt] = -1,
         notifQueue' = [notifQueue EXCEPT ![nLrt] = Append(Tail(@), Head(@))],
         \/ UNCHANGED <<credits, unposted>>
         \/ /\ credits' = [credits EXCEPT ![nLrt] = @ - 1]
            /\ unposted' = [unposted EXCEPT ![grt] = nLrt]
  PROVE  QueueTypes' /\ CreditsMatch'
<1>0. nLrt \in Queues /\ grt \in LRT /\ -1 \notin Queues
  BY ConstantTypes
<1> DEFINE old == notifQueue[nLrt]
<1>1. /\ Tail(old) \in Seq(MessageType) /\ Head(old) \in MessageType
      /\ Len(Tail(old)) = Len(old) - 1 /\ Len(old) \in Nat
  BY <1>0, CreditMeansItem, LenProperties DEF QueueTypes
<1>2. /\ Append(Tail(old), Head(old)) \in Seq(MessageType)
      /\ Len(Append(Tail(old), Head(old))) = Len(old)
  <2>1. Len(Append(Tail(old), Head(old))) = Len(Tail(old)) + 1
    BY <1>1, AppendProperties
  <2>2. Append(Tail(old), Head(old)) \in Seq(MessageType)
    BY <1>1, AppendProperties
  <2> QED BY <1>1, <2>1, <2>2
<1>3. notifQueue' \in [Queues -> Seq(MessageType)]
  BY <1>2 DEF QueueTypes
<1>4. \A r \in Queues : Len(notifQueue'[r]) = Len(notifQueue[r])
  BY <1>0, <1>2 DEF QueueTypes
<1>5. CASE UNCHANGED <<credits, unposted>>
  BY <1>3, <1>4, <1>5 DEF QueueTypes, CreditsMatch, Owing
<1>6. CASE /\ credits' = [credits EXCEPT ![nLrt] = @ - 1]
           /\ unposted' = [unposted EXCEPT ![grt] = nLrt]
  <2>1. credits[nLrt] \in Nat /\ credits'[nLrt] = credits[nLrt] - 1
    BY <1>0, <1>6 DEF QueueTypes
  <2>2. QueueTypes'
    BY <1>0, <1>3, <1>6, <2>1 DEF QueueTypes
  <2>3. Owing(nLrt)' = Owing(nLrt) \cup {grt} /\ grt \notin Owing(nLrt)
    BY <1>0, <1>6 DEF Owing, QueueTypes
  <2>4. Cardinality(Owing(nLrt)') = Cardinality(Owing(nLrt)) + 1
    BY <1>0, <2>3, OwingIsFinite, FS_AddElement
  <2>5. \A r \in Queues : r # nLrt => Owing(r)' = Owing(r) /\ credits'[r] = credits[r]
    BY <1>0, <1>6 DEF Owing, QueueTypes
  <2>6. \A r \in Queues : Len(notifQueue'[r]) = credits'[r] + Cardinality(Owing(r)')
    <3> TAKE r \in Queues
    <3>1. Len(notifQueue'[r]) = credits[r] + Cardinality(Owing(r))
      BY <1>4 DEF CreditsMatch
    <3>2. CASE r = nLrt
      BY <2>1, <2>4, <3>1, <3>2, OwingIsFinite
    <3>3. CASE r # nLrt
      BY <2>5, <3>1, <3>3
    <3> QED BY <3>2, <3>3
  <2> QED BY <2>2, <2>6 DEF CreditsMatch
<1> QED BY <1>5, <1>6

LEMMA SameKeepsQueues ==
  ASSUME QueueTypes, CreditsMatch, UNCHANGED queueVars
  PROVE  QueueTypes' /\ CreditsMatch'
  BY DEF QueueTypes, CreditsMatch, Owing, queueVars

-----------------------------------------------------------------------------
(* What is popped has the shape that its subtype says.                     *)
LEMMA PopStep ==
  ASSUME TInv, NEW l \in LRT, NEW s \in SubTypes, Pop(l, s)
  PROVE  /\ QueueTypes' /\ CreditsMatch' /\ GrtTypes'
         /\ pc' = [pc EXCEPT ![l] = "drain"] /\ pc[l] # "exec"
         /\ Head(notifQueue[l]) \in MessageType
         /\ Head(notifQueue[l]).subType = s
<1>1. l \in Queues /\ QueueTypes /\ CreditsMatch /\ GrtTypes
  BY ConstantTypes DEF TInv
<1>2. /\ credits[l] > 0 /\ unposted' = unposted
      /\ notifQueue' = [notifQueue EXCEPT ![l] = Tail(@)]
      /\ credits' = [credits EXCEPT ![l] = @ - 1]
      /\ pc' = [pc EXCEPT ![l] = "drain"] /\ pc[l] # "exec"
      /\ Head(notifQueue[l]).subType = s /\ UNCHANGED grtVars
  BY DEF Pop, At
<1>3. QueueTypes' /\ CreditsMatch'
  BY <1>1, <1>2, TakeKeepsQueues
<1>4. Head(notifQueue[l]) \in MessageType
  BY <1>1, <1>2, CreditMeansItem
<1>5. GrtTypes'
  BY <1>1, <1>2 DEF GrtTypes, grtVars
<1> QED BY <1>2, <1>3, <1>4, <1>5

LEMMA JobAddHasJob ==
  ASSUME NEW m \in MessageType, m.subType = "JOB_ADD"
  PROVE  m.index \in Jobs
  BY DEF MessageType, JobMessage, OtherMessage

LEMMA OtherHasStamp ==
  ASSUME NEW m \in MessageType, m.subType \notin {"JOB_ADD", "TRACE_LRT"}
  PROVE  m.index \in Stamp /\ m.lrtID \in LRT
  BY DEF MessageType, JobMessage, OtherMessage

LEMMA OtherMessages ==
  ASSUME NEW s \in SubTypes \ {"JOB_ADD", "TRACE_LRT"}, NEW l \in LRT, NEW x \in Stamp
  PROVE  Message(s, l, x) \in MessageType
  BY DEF MessageType, OtherMessage, Message

LEMMA JobMessages ==
  ASSUME NEW s \in {"JOB_ADD", "TRACE_LRT"}, NEW l \in LRT, NEW j \in Jobs
  PROVE  Message(s, l, j) \in MessageType
  BY DEF MessageType, JobMessage, Message

LEMMA HandleNotificationTyped ==
  ASSUME TInv, NEW l \in LRT, HandleNotification(l)
  PROVE  TInv'
<1> DEFINE m == Head(notifQueue[l])
<1>0. LrtTypes /\ ExecutingIsQueued
  BY DEF TInv
<1>1. CASE HandleJobAdd(l)
  <2>1. Pop(l, "JOB_ADD") /\ "JOB_ADD" \in SubTypes
    BY <1>1 DEF HandleJobAdd, SubTypes
  <2>2. /\ QueueTypes' /\ CreditsMatch' /\ GrtTypes'
        /\ pc' = [pc EXCEPT ![l] = "drain"] /\ pc[l] # "exec"
        /\ m \in MessageType /\ m.subType = "JOB_ADD"
    BY <2>1, PopStep
  <2>3. m.index \in Jobs
    BY <2>2, JobAddHasJob
  <2>4. jobQueue[l] \in Seq(Jobs)
    BY <1>0 DEF LrtTypes
  <2>5. Append(jobQueue[l], m.index) \in Seq(Jobs)
    BY <2>3, <2>4, AppendProperties
  <2>6. LrtTypes'
    BY <1>0, <1>1, <2>1, <2>2, <2>5 DEF LrtTypes, HandleJobAdd, Pop, LrtPC
  <2>7. ExecutingIsQueued'
    BY <1>0, <1>1, <2>2 DEF ExecutingIsQueued, LrtTypes, HandleJobAdd
  <2> QED BY <2>2, <2>6, <2>7 DEF TInv
<1>2. CASE HandleUpdateJobStamp(l)
  <2>1. Pop(l, "JOB_UPDATE_JOBSTAMP") /\ "JOB_UPDATE_JOBSTAMP" \in SubTypes
    BY <1>2 DEF HandleUpdateJobStamp, SubTypes
  <2>2. /\ QueueTypes' /\ CreditsMatch' /\ GrtTypes'
        /\ pc' = [pc EXCEPT ![l] = "drain"] /\ pc[l] # "exec"
        /\ m \in MessageType /\ m.subType = "JOB_UPDATE_JOBSTAMP"
    BY <2>1, PopStep
  <2>3. m.index \in Stamp /\ m.lrtID \in LRT
    BY <2>2, OtherHasStamp
  <2>4. jobStamps' \in [LRT -> [LRT -> Stamp]]
    BY <1>0, <1>2, <2>3 DEF LrtTypes, HandleUpdateJobStamp
  <2>5. LrtTypes'
    BY <1>0, <1>2, <2>1, <2>2, <2>4 DEF LrtTypes, HandleUpdateJobStamp, Pop, LrtPC
  <2>6. ExecutingIsQueued'
    BY <1>0, <1>2, <2>2 DEF ExecutingIsQueued, LrtTypes, HandleUpdateJobStamp
  <2> QED BY <2>2, <2>5, <2>6 DEF TInv
<1>3. CASE HandleEndIteration(l)
  <2>1. Pop(l, "LRT_END_ITERATION") /\ "LRT_END_ITERATION" \in SubTypes
    BY <1>3 DEF HandleEndIteration, SubTypes
  <2>2. /\ QueueTypes' /\ CreditsMatch' /\ GrtTypes'
        /\ pc' = [pc EXCEPT ![l] = "drain"] /\ pc[l] # "exec"
        /\ m \in MessageType /\ m.subType = "LRT_END_ITERATION"
    BY <2>1, PopStep
  <2>3. m.index \in Stamp
    BY <2>2, OtherHasStamp
  <2>4. LrtTypes'
    BY <1>0, <1>3, <2>1, <2>2, <2>3 DEF LrtTypes, HandleEndIteration, Pop, LrtPC
  <2>5. ExecutingIsQueued'
    BY <1>0, <1>3, <2>2 DEF ExecutingIsQueued, LrtTypes, HandleEndIteration
  <2> QED BY <2>2, <2>4, <2>5 DEF TInv
<1>4. CASE HandleStop(l)
  <2>1. Pop(l, "LRT_STOP") /\ "LRT_STOP" \in SubTypes
    BY <1>4 DEF HandleStop, SubTypes
  <2>2. /\ QueueTypes' /\ CreditsMatch' /\ GrtTypes'
        /\ pc' = [pc EXCEPT ![l] = "drain"] /\ pc[l] # "exec"
    BY <2>1, PopStep
  <2>3. LrtTypes'
    BY <1>0, <1>4, <2>1, <2>2 DEF LrtTypes, HandleStop, Pop, LrtPC, lrtVars
  <2>4. ExecutingIsQueued'
    BY <1>0, <1>4, <2>2 DEF ExecutingIsQueued, LrtTypes, HandleStop, lrtVars
  <2> QED BY <2>2, <2>3, <2>4 DEF TInv
<1> QED BY <1>1, <1>2, <1>3, <1>4 DEF HandleNotification

(* The end of a pass, reached from a pc at which no job executes.          *)
LEMMA EndPassTyped ==
  ASSUME TInv, NEW l \in LRT, NEW resume \in LrtPC \ {"exec"},
         unposted[l] = -1, pc[l] # "exec", EndPass(l, resume)
  PROVE  TInv'
<1>0. /\ QueueTypes /\ CreditsMatch /\ LrtTypes /\ GrtTypes /\ ExecutingIsQueued
      /\ UNCHANGED <<run, toNotify, ran, sentTo, nFinishedPE, iteration>>
  BY DEF TInv, EndPass
<1>1. QueueTypes' /\ CreditsMatch'
  <2>1. Message("LRT_FINISHED_ITERATION", l, -1) \in MessageType
    BY OtherMessages, ConstantTypes DEF SubTypes
  <2>2. Push(l, nLrt, Message("LRT_FINISHED_ITERATION", l, -1)) \/ UNCHANGED queueVars
    BY DEF EndPass
  <2> QED BY <1>0, <2>1, <2>2, PushKeepsQueues, SameKeepsQueues, ConstantTypes
<1>2. \E p \in (LrtPC \ {"exec"}) \cup GrtPC : pc' = [pc EXCEPT ![l] = p]
  BY DEF EndPass, NoMoreJobs, LrtPC, GrtPC
<1>3. nSentJobs' \in {nSentJobs, 0}
  BY DEF EndPass, NoMoreJobs
<1>4. GrtTypes'
  BY <1>0, <1>3, ScheduleTypes DEF GrtTypes
<1>5. \/ UNCHANGED lrtVars
      \/ /\ jobStamps' = [jobStamps EXCEPT ![l] = [i \in LRT |-> -1]]
         /\ jobQueue' = [jobQueue EXCEPT ![l] = <<>>]
         /\ jobQueueIndex' = [jobQueueIndex EXCEPT ![l] = 0]
         /\ lastJobID' = [lastJobID EXCEPT ![l] = -1]
         /\ jobIx' = [jobIx EXCEPT ![l] = -1]
  BY DEF EndPass, ResetLrt, ClearJobQueue
<1>6. /\ jobQueue' \in [LRT -> Seq(Jobs)] /\ jobQueueIndex' \in [LRT -> Nat]
      /\ jobIx' \in [LRT -> Stamp] /\ lastJobID' \in [LRT -> Stamp]
      /\ jobStamps' \in [LRT -> [LRT -> Stamp]]
  <2>1. <<>> \in Seq(Jobs) /\ -1 \in Stamp
    BY EmptySeq, ConstantTypes
  <2>2. CASE UNCHANGED lrtVars
    BY <1>0, <2>2 DEF LrtTypes, lrtVars
  <2>3. CASE /\ jobStamps' = [jobStamps EXCEPT ![l] = [i \in LRT |-> -1]]
             /\ jobQueue' = [jobQueue EXCEPT ![l] = <<>>]
             /\ jobQueueIndex' = [jobQueueIndex EXCEPT ![l] = 0]
             /\ lastJobID' = [lastJobID EXCEPT ![l] = -1]
             /\ jobIx' = [jobIx EXCEPT ![l] = -1]
    <3>1. jobQueue' \in [LRT -> Seq(Jobs)]
      BY <1>0, <2>1, <2>3 DEF LrtTypes
    <3>2. jobStamps' \in [LRT -> [LRT -> Stamp]]
      BY <1>0, <2>1, <2>3 DEF LrtTypes
    <3> QED BY <1>0, <2>1, <2>3, <3>1, <3>2 DEF LrtTypes
  <2> QED BY <1>5, <2>2, <2>3
<1>7. pc' \in [LRT -> LrtPC \cup GrtPC] /\ pc'[l] # "exec"
  BY <1>0, <1>2 DEF LrtTypes, LrtPC, GrtPC
<1>8. LrtTypes'
  BY <1>0, <1>6, <1>7 DEF LrtTypes
<1>9. \A k \in LRT : k # l => /\ pc'[k] = pc[k] /\ jobQueue'[k] = jobQueue[k]
                              /\ jobQueueIndex'[k] = jobQueueIndex[k]
  BY <1>0, <1>2, <1>5 DEF LrtTypes, lrtVars
<1>10. ExecutingIsQueued'
  <2> SUFFICES ASSUME NEW k \in LRT, pc'[k] = "exec"
               PROVE  jobQueueIndex'[k] \in DOMAIN jobQueue'[k]
    BY DEF ExecutingIsQueued
  <2>1. k # l
    BY <1>7
  <2>2. jobQueueIndex[k] \in DOMAIN jobQueue[k]
    BY <1>0, <1>9, <2>1 DEF ExecutingIsQueued
  <2> QED BY <1>9, <2>1, <2>2
<1> QED BY <1>1, <1>4, <1>8, <1>10 DEF TInv

LEMMA StartJobTyped ==
  ASSUME TInv, NEW l \in LRT, StartJob(l)
  PROVE  TInv'
<1>0. /\ QueueTypes /\ CreditsMatch /\ LrtTypes /\ GrtTypes /\ ExecutingIsQueued
      /\ jobQueueIndex' = [jobQueueIndex EXCEPT ![l] = @ + 1]
      /\ pc' = [pc EXCEPT ![l] = "exec"]
      /\ UNCHANGED <<queueVars, jobQueue, jobIx, lastJobID, jobStamps, grtVars,
                     run, toNotify, ran>>
  BY DEF TInv, StartJob
<1>1. QueueTypes' /\ CreditsMatch'
  BY <1>0, SameKeepsQueues
<1>2. LrtTypes'
  BY <1>0 DEF LrtTypes, LrtPC
<1>3. GrtTypes'
  BY <1>0 DEF GrtTypes, grtVars
<1>4. jobQueueIndex[l] \in Nat /\ jobQueue[l] \in Seq(Jobs)
  BY <1>0 DEF LrtTypes
<1>5. jobQueueIndex[l] < Len(jobQueue[l])
  BY DEF StartJob, GotJobToDo
<1>6. jobQueueIndex'[l] \in DOMAIN jobQueue'[l]
  <2>1. jobQueueIndex'[l] = jobQueueIndex[l] + 1 /\ jobQueue'[l] = jobQueue[l]
    BY <1>0 DEF LrtTypes
  <2> QED BY <1>4, <1>5, <2>1, LenProperties
<1>7. ExecutingIsQueued'
  BY <1>0, <1>6 DEF ExecutingIsQueued, LrtTypes
<1> QED BY <1>1, <1>2, <1>3, <1>7 DEF TInv

LEMMA CurrentJobIsJob ==
  ASSUME TInv, NEW l \in LRT, pc[l] = "exec"
  PROVE  CurrentJob(l) \in Jobs
<1>1. jobQueue[l] \in Seq(Jobs) /\ jobQueueIndex[l] \in DOMAIN jobQueue[l]
  BY DEF TInv, LrtTypes, ExecutingIsQueued
<1> QED BY <1>1, ElementOfSeq DEF CurrentJob

LEMMA FinishJobTyped ==
  ASSUME TInv, NEW l \in LRT, FinishJob(l)
  PROVE  TInv'
<1>0. /\ QueueTypes /\ CreditsMatch /\ LrtTypes /\ GrtTypes /\ ExecutingIsQueued
      /\ unposted[l] = -1 /\ pc[l] = "exec"
  BY DEF TInv, FinishJob, At
<1>1. CurrentJob(l) \in Jobs
  BY <1>0, CurrentJobIsJob
<1>2. Message("TRACE_LRT", l, CurrentJob(l)) \in MessageType
  BY <1>1, JobMessages
<1>3. Push(l, nLrt, Message("TRACE_LRT", l, CurrentJob(l))) \/ UNCHANGED queueVars
  BY DEF FinishJob
<1>4. QueueTypes' /\ CreditsMatch'
  BY <1>0, <1>2, <1>3, PushKeepsQueues, SameKeepsQueues, ConstantTypes
<1>5. jobIx[l] + 1 \in Stamp
  <2>1. jobIx[l] \in Stamp
    BY <1>0 DEF LrtTypes
  <2> QED BY <2>1 DEF Stamp
<1>6. LrtsToNotify(l) \in SUBSET LRT
  BY DEF LrtsToNotify
<1>7. LrtTypes'
  BY <1>0, <1>1, <1>5, <1>6 DEF LrtTypes, FinishJob, LrtPC
<1>8. GrtTypes'
  BY <1>0 DEF FinishJob, GrtTypes, grtVars
<1>9. ExecutingIsQueued'
  BY <1>0 DEF FinishJob, ExecutingIsQueued, LrtTypes
<1> QED BY <1>4, <1>7, <1>8, <1>9 DEF TInv

LEMMA NotifyTyped ==
  ASSUME TInv, NEW l \in LRT, NotifyLRTJobStamp(l)
  PROVE  TInv'
<1>0. /\ QueueTypes /\ CreditsMatch /\ LrtTypes /\ GrtTypes /\ ExecutingIsQueued
      /\ unposted[l] = -1 /\ UNCHANGED <<lrtVars, grtVars, pc, run, ran>>
  BY DEF TInv, NotifyLRTJobStamp, At
<1>1. PICK i \in toNotify[l] :
        /\ Push(l, i, Message("JOB_UPDATE_JOBSTAMP", l, jobIx[l]))
        /\ toNotify' = [toNotify EXCEPT ![l] = @ \ {i}]
  BY DEF NotifyLRTJobStamp
<1>2. i \in Queues /\ jobIx[l] \in Stamp
  BY <1>0, ConstantTypes DEF LrtTypes
<1>3. Message("JOB_UPDATE_JOBSTAMP", l, jobIx[l]) \in MessageType
  BY <1>2, OtherMessages DEF SubTypes
<1>4. QueueTypes' /\ CreditsMatch'
  BY <1>0, <1>1, <1>2, <1>3, PushKeepsQueues
<1>5. LrtTypes'
  BY <1>0, <1>1 DEF LrtTypes, lrtVars
<1>6. GrtTypes' /\ ExecutingIsQueued'
  BY <1>0 DEF GrtTypes, ExecutingIsQueued, grtVars, lrtVars
<1> QED BY <1>4, <1>5, <1>6 DEF TInv

LEMMA RunTyped ==
  ASSUME TInv, NEW l \in LRT, Run(l)
  PROVE  TInv'
<1>1. CASE HandleNotification(l)
  BY <1>1, HandleNotificationTyped
<1>2. CASE ExitRun(l)
  <2>1. QueueTypes' /\ CreditsMatch'
    BY <1>2, SameKeepsQueues DEF ExitRun, TInv
  <2>2. LrtTypes' /\ GrtTypes' /\ ExecutingIsQueued'
    BY <1>2 DEF ExitRun, TInv, LrtTypes, GrtTypes, ExecutingIsQueued, LrtPC, lrtVars, grtVars
  <2> QED BY <2>1, <2>2 DEF TInv
<1>3. CASE PassWithoutJob(l)
  BY <1>3, EndPassTyped DEF PassWithoutJob, Drained, At, LrtPC
<1>4. CASE StartJob(l)
  BY <1>4, StartJobTyped
<1>5. CASE FinishJob(l)
  BY <1>5, FinishJobTyped
<1>6. CASE NotifyLRTJobStamp(l)
  BY <1>6, NotifyTyped
<1>7. CASE PassWithJob(l)
  BY <1>7, EndPassTyped DEF PassWithJob, At, LrtPC
<1> QED BY <1>1, <1>2, <1>3, <1>4, <1>5, <1>6, <1>7 DEF Run

-----------------------------------------------------------------------------
(* A step of the GRT that pushes at most one message.                      *)
LEMMA GrtPushTyped ==
  ASSUME TInv, unposted[grt] = -1, NEW q \in Queues, NEW m \in MessageType,
         Push(grt, q, m) \/ UNCHANGED queueVars,
         UNCHANGED <<lrtVars, nFinishedPE, iteration, pc, run, toNotify, ran>>,
         nSentJobs' \in 0..NJobs, sentTo' \in 0..nLrt
  PROVE  TInv'
<1>1. QueueTypes' /\ CreditsMatch'
  BY PushKeepsQueues, SameKeepsQueues, ConstantTypes DEF TInv
<1>2. LrtTypes' /\ GrtTypes' /\ ExecutingIsQueued'
  BY DEF TInv, LrtTypes, GrtTypes, ExecutingIsQueued, lrtVars
<1> QED BY <1>1, <1>2 DEF TInv

(* A step of the GRT between its phases.                                   *)
LEMMA GrtMoveTyped ==
  ASSUME TInv, UNCHANGED <<queueVars, lrtVars, toNotify, ran>>,
         NEW p \in (LrtPC \ {"exec"}) \cup GrtPC, pc' = [pc EXCEPT ![grt] = p],
         run' \in [LRT -> BOOLEAN], GrtTypes'
  PROVE  TInv'
<1>1. QueueTypes' /\ CreditsMatch'
  BY SameKeepsQueues DEF TInv
<1>2. LrtTypes'
  BY DEF TInv, LrtTypes, lrtVars
<1>3. \A k \in LRT : pc'[k] = "exec" => pc[k] = "exec"
  BY DEF TInv, LrtTypes, LrtPC, GrtPC
<1>4. ExecutingIsQueued'
  BY <1>3 DEF TInv, ExecutingIsQueued, lrtVars
<1> QED BY <1>1, <1>2, <1>4 DEF TInv

LEMMA GrtStepTyped ==
  ASSUME TInv, Iterate \/ GrtIterates \/ Destroy \/ GrtStops
  PROVE  TInv'
<1>0. /\ QueueTypes /\ CreditsMatch /\ LrtTypes /\ GrtTypes /\ ExecutingIsQueued
      /\ NJobs \in Nat /\ nLrt \in Nat
  BY ConstantTypes, ScheduleTypes DEF TInv
<1>1. CASE Iterate
  <2>1. GrtTypes' /\ run' \in [LRT -> BOOLEAN]
    BY <1>0, <1>1 DEF Iterate, GrtTypes, LrtTypes
  <2> QED BY <1>1, <2>1, GrtMoveTyped DEF Iterate, GrtPC
<1>2. CASE SendJob
  <2>1. nSentJobs + 1 \in Jobs /\ nSentJobs' \in 0..NJobs /\ sentTo' \in 0..nLrt
    BY <1>0, <1>2 DEF SendJob, GrtTypes, Jobs
  <2>2. /\ mappedPE[nSentJobs + 1] \in Queues
        /\ Message("JOB_ADD", grt, nSentJobs + 1) \in MessageType
    BY <2>1, ConstantTypes, JobMessages
  <2> QED BY <1>2, <2>1, <2>2, GrtPushTyped DEF SendJob, At
<1>3. CASE SendEndNotification
  <2>1. sentTo \in LRT /\ nSentJobs' \in 0..NJobs /\ sentTo' \in 0..nLrt
    BY <1>0, <1>3 DEF SendEndNotification, GrtTypes, LRT
  <2>2. /\ sentTo \in Queues
        /\ Message("LRT_END_ITERATION", grt, nJobPerPE[sentTo] - 1) \in MessageType
    BY <2>1, ConstantTypes, OtherMessages DEF SubTypes
  <2> QED BY <1>3, <2>1, <2>2, GrtPushTyped DEF SendEndNotification, At
<1>4. CASE RunUntilNoMoreJobs
  <2>1. GrtTypes'
    BY <1>0, <1>4 DEF RunUntilNoMoreJobs, GrtTypes
  <2>2. run \in [LRT -> BOOLEAN] /\ run' = [run EXCEPT ![grt] = TRUE]
    BY <1>0, <1>4 DEF RunUntilNoMoreJobs, LrtTypes
  <2>3. run' \in [LRT -> BOOLEAN]
    BY <2>2
  <2> QED BY <1>4, <2>1, <2>3, GrtMoveTyped DEF RunUntilNoMoreJobs, LrtPC
<1>5. CASE ReceiveFinished
  <2>1. QueueTypes' /\ CreditsMatch'
    BY <1>0, <1>5, TakeKeepsQueues, ConstantTypes DEF ReceiveFinished
  <2>2. LrtTypes' /\ GrtTypes' /\ ExecutingIsQueued'
    BY <1>0, <1>5 DEF ReceiveFinished, LrtTypes, GrtTypes, ExecutingIsQueued, lrtVars
  <2> QED BY <2>1, <2>2 DEF TInv
<1>6. CASE PushBackTrace
  <2>1. QueueTypes' /\ CreditsMatch'
    BY <1>0, <1>6, RotateKeepsQueues DEF PushBackTrace, At
  <2>2. LrtTypes' /\ GrtTypes' /\ ExecutingIsQueued'
    BY <1>0, <1>6 DEF PushBackTrace, LrtTypes, GrtTypes, ExecutingIsQueued, lrtVars, grtVars
  <2> QED BY <2>1, <2>2 DEF TInv
<1>7. CASE IterateReturns
  <2>1. GrtTypes' /\ run' \in [LRT -> BOOLEAN]
    BY <1>0, <1>7 DEF IterateReturns, GrtTypes, LrtTypes
  <2> QED BY <1>7, <2>1, GrtMoveTyped DEF IterateReturns, GrtPC
<1>8. CASE Destroy
  <2>1. GrtTypes' /\ run' \in [LRT -> BOOLEAN]
    BY <1>0, <1>8 DEF Destroy, GrtTypes, LrtTypes, grtVars
  <2> QED BY <1>8, <2>1, GrtMoveTyped DEF Destroy, GrtPC
<1>9. CASE SendStop
  <2>1. sentTo \in LRT /\ nSentJobs' \in 0..NJobs /\ sentTo' \in 0..nLrt
    BY <1>0, <1>9 DEF SendStop, GrtTypes, LRT
  <2>2. sentTo \in Queues /\ Message("LRT_STOP", grt, -1) \in MessageType
    BY <2>1, ConstantTypes, OtherMessages DEF SubTypes
  <2> QED BY <1>9, <2>1, <2>2, GrtPushTyped DEF SendStop, At
<1>10. CASE Barrier
  <2>1. GrtTypes' /\ run' \in [LRT -> BOOLEAN]
    BY <1>0, <1>10 DEF Barrier, GrtTypes, LrtTypes, grtVars
  <2> QED BY <1>10, <2>1, GrtMoveTyped DEF Barrier, GrtPC
<1> QED BY <1>1, <1>2, <1>3, <1>4, <1>5, <1>6, <1>7, <1>8, <1>9, <1>10
        DEF GrtIterates, GrtStops

LEMMA PostTyped ==
  ASSUME TInv, NEW l \in LRT, Post(l)
  PROVE  TInv'
<1>1. QueueTypes' /\ CreditsMatch'
  BY PostKeepsQueues DEF TInv
<1>2. LrtTypes' /\ GrtTypes' /\ ExecutingIsQueued'
  BY DEF TInv, Post, LrtTypes, GrtTypes, ExecutingIsQueued, lrtVars, grtVars
<1> QED BY <1>1, <1>2 DEF TInv

LEMMA InitTyped == Init => TInv
<1> SUFFICES ASSUME Init PROVE TInv
  OBVIOUS
<1>1. QueueTypes
  BY EmptySeq, ConstantTypes DEF Init, QueueTypes, Queues
<1>2. CreditsMatch
  <2> SUFFICES ASSUME NEW q \in Queues
               PROVE  Len(notifQueue[q]) = credits[q] + Cardinality(Owing(q))
    BY DEF CreditsMatch
  <2>1. Owing(q) = {}
    BY ConstantTypes DEF Owing, Init
  <2>2. notifQueue[q] = <<>> /\ credits[q] = 0
    BY DEF Init, Queues
  <2>3. Len(<<>>) = 0
    OBVIOUS
  <2> QED BY <2>1, <2>2, <2>3, FS_EmptySet
<1>3. LrtTypes
  <2>1. <<>> \in Seq(Jobs) /\ -1 \in Stamp
    BY EmptySeq, ConstantTypes
  <2> QED BY <2>1 DEF Init, LrtTypes, LrtPC, GrtPC
<1>4. GrtTypes
  BY ConstantTypes, ScheduleTypes DEF Init, GrtTypes
<1>5. ExecutingIsQueued
  BY DEF Init, ExecutingIsQueued
<1> QED BY <1>1, <1>2, <1>3, <1>4, <1>5 DEF TInv

LEMMA StepTyped == TInv /\ [Next]_vars => TInv'
<1> SUFFICES ASSUME TInv, [Next]_vars PROVE TInv'
  OBVIOUS
<1>1. CASE UNCHANGED vars
  <2>1. QueueTypes' /\ CreditsMatch'
    BY <1>1, SameKeepsQueues DEF TInv, vars
  <2>2. LrtTypes' /\ GrtTypes' /\ ExecutingIsQueued'
    BY <1>1 DEF TInv, vars, LrtTypes, GrtTypes, ExecutingIsQueued, lrtVars, grtVars
  <2> QED BY <2>1, <2>2 DEF TInv
<1>2. ASSUME NEW l \in LRT, Run(l) \/ Post(l) PROVE TInv'
  BY <1>2, RunTyped, PostTyped
<1>3. CASE Iterate \/ GrtIterates \/ Destroy \/ GrtStops
  BY <1>3, GrtStepTyped
<1> QED BY <1>1, <1>2, <1>3 DEF Next, Terminated

(* The state of the runtime keeps its types.                               *)
THEOREM TypeCorrect == Spec => []TypeOK
<1>1. Spec => []TInv
  BY InitTyped, StepTyped, PTL DEF Spec
<1> QED BY <1>1, TInvImpliesTypeOK, PTL

(* No thread reads a queue that is empty: what the semaphore lets through  *)
(* is in the queue, and posts that are late are accounted for.             *)
THEOREM CreditsAreMatched == Spec => []CreditsMatch
<1>1. Spec => []TInv
  BY InitTyped, StepTyped, PTL DEF Spec
<1>2. TInv => CreditsMatch
  BY DEF TInv
<1> QED BY <1>1, <1>2, PTL

-----------------------------------------------------------------------------
(* The order of the jobs.                                                  *)

JobsOf(l) == {j \in Jobs : mappedPE[j] = l}
HasRun(j) == ran[j] = iteration
Waiting(j) == ~HasRun(j) /\ jobQueueIndex[mappedPE[j]] <= jobID[j]

(* Some job of l that has not started waits for job ID s of LRT i.         *)
Awaited(l, i, s) == \E j \in JobsOf(l) : jobs2Wait[j][i] = s /\ Waiting(j)

Blank(l) ==
  /\ jobQueue[l] = <<>> /\ jobQueueIndex[l] = 0 /\ jobIx[l] = -1
  /\ \A i \in LRT : jobStamps[l][i] = -1
  /\ pc[l] \notin {"exec", "notify"}
Rested(l) == Blank(l) /\ \A j \in JobsOf(l) : HasRun(j)

(* How many jobs of the schedule have been sent in this iteration.         *)
SentJobs == IF pc[grt] = "recv" THEN NJobs ELSE nSentJobs

-----------------------------------------------------------------------------
(* The parts of the invariant.                                             *)

Counted == \A j \in Jobs : ran[j] = iteration \/ ran[j] + 1 = iteration

Progress ==
  \A l \in LRT : \/ Rested(l)
                 \/ \A j \in JobsOf(l) : HasRun(j) <=> jobID[j] <= jobIx[l]

JobQueueInOrder ==
  \A l \in LRT :
    /\ \A k \in DOMAIN jobQueue[l] : /\ mappedPE[jobQueue[l][k]] = l
                                     /\ jobID[jobQueue[l][k]] = k - 1
                                     /\ jobQueue[l][k] <= SentJobs
    /\ jobQueueIndex[l] <= Len(jobQueue[l])
    /\ jobQueueIndex[l] = jobIx[l] + 1 + IF pc[l] = "exec" THEN 1 ELSE 0
    /\ pc[l] \in {"exec", "notify"} => jobQueueIndex[l] > 0

(* The JOB_ADDs in queue q of LRT l: the jobs sent but not received.       *)
AddsInOrder(l, q) ==
  /\ \A k \in DOMAIN q : q[k].subType = "JOB_ADD" =>
       LET j == q[k].index IN
       mappedPE[j] = l /\ ~HasRun(j) /\ Len(jobQueue[l]) <= jobID[j] /\ j <= SentJobs
  /\ \A k, m \in DOMAIN q :
       q[k].subType = "JOB_ADD" /\ q[m].subType = "JOB_ADD" /\ k < m => q[k].index < q[m].index
  /\ \A j \in JobsOf(l) :
       ~HasRun(j) /\ Len(jobQueue[l]) <= jobID[j] /\ j <= SentJobs =>
         \E k \in DOMAIN q : q[k].subType = "JOB_ADD" /\ q[k].index = j

(* The stamps in queue q of LRT l.                                         *)
UpdatesAreNews(l, q) ==
  /\ \A k \in DOMAIN q : q[k].subType = "JOB_UPDATE_JOBSTAMP" =>
       LET i == q[k].lrtID  s == q[k].index IN
       i # l /\ jobStamps[l][i] < s /\ StampIsTrue(i, s) /\ Awaited(l, i, s)
  /\ \A k, m \in DOMAIN q :
       /\ q[k].subType = "JOB_UPDATE_JOBSTAMP" /\ q[m].subType = "JOB_UPDATE_JOBSTAMP"
       /\ q[k].lrtID = q[m].lrtID /\ k < m
       => q[k].index < q[m].index

ToNotifyAreNews ==
  \A i \in LRT : \A l \in toNotify[i] :
    /\ pc[i] = "notify" /\ l # i
    /\ jobStamps[l][i] < jobIx[i] /\ Awaited(l, i, jobIx[i])
    /\ \A k \in DOMAIN notifQueue[l] :
         notifQueue[l][k].subType = "JOB_UPDATE_JOBSTAMP" /\ notifQueue[l][k].lrtID = i
           => notifQueue[l][k].index < jobIx[i]

HeldAreTrue ==
  \A l \in LRT : \A i \in LRT :
    StampIsTrue(i, jobStamps[l][i]) /\ (JobsOf(l) = {} => jobStamps[l][i] = -1)

(* A job that has started has nothing left to wait for.                    *)
WaitsAreOver ==
  \A j \in Jobs : ~Waiting(j) =>
    \A p \in Jobs : mappedPE[p] # mappedPE[j] /\ jobID[p] <= jobs2Wait[j][mappedPE[p]] => HasRun(p)

IsEnd(m, l) == m.subType = "LRT_END_ITERATION" /\ m.index = nJobPerPE[l] - 1
HasEnd(l) == \E k \in DOMAIN notifQueue[l] : notifQueue[l][k].subType = "LRT_END_ITERATION"
LastIDs ==
  \A l \in LRT :
    /\ lastJobID[l] \in {-1, nJobPerPE[l] - 1}
    /\ \A k \in DOMAIN notifQueue[l] :
         notifQueue[l][k].subType = "LRT_END_ITERATION" => IsEnd(notifQueue[l][k], l)

(* Where the GRT is in an iteration.                                       *)
GrtPhases ==
  /\ pc[grt] \in {"idle", "stop", "done"} =>
       nSentJobs = 0 /\ \A l \in LRT : Rested(l)
  /\ pc[grt] = "send" =>
       /\ Blank(grt) /\ \A j \in Jobs : nSentJobs < j => ~HasRun(j)
       /\ grt < sentTo => HasEnd(grt)
  /\ pc[grt] \in LrtPC => nSentJobs = NJobs
  /\ pc[grt] \in {"wait", "drain", "exec", "notify"} =>
       HasEnd(grt) \/ lastJobID[grt] = nJobPerPE[grt] - 1
  /\ pc[grt] = "recv" => nSentJobs = 0 /\ Rested(grt)

IsFinished(m) == m.subType = "LRT_FINISHED_ITERATION"
FinishedFrom(i, q) == \E k \in DOMAIN q : IsFinished(q[k]) /\ q[k].lrtID = i

(* The messages the GRT waits for, in queue q, and those it has received.  *)
FinishedAreRested(q) ==
  /\ \A k \in DOMAIN q : IsFinished(q[k]) =>
       q[k].lrtID \in Activated \ {grt} /\ Rested(q[k].lrtID)
  /\ \A k, m \in DOMAIN q :
       IsFinished(q[k]) /\ IsFinished(q[m]) /\ q[k].lrtID = q[m].lrtID => k = m
  /\ pc[grt] \in {"idle", "stop", "done"} => \A k \in DOMAIN q : ~IsFinished(q[k])
  /\ pc[grt] # "recv" => nFinishedPE = 0
  /\ \E F \in SUBSET (Activated \ {grt}) :
       /\ Cardinality(F) = nFinishedPE
       /\ \A i \in F : Rested(i) /\ ~FinishedFrom(i, q)

MessagesInOrder ==
  \A l \in LRT : AddsInOrder(l, notifQueue[l]) /\ UpdatesAreNews(l, notifQueue[l])

OInv ==
  /\ Counted /\ Progress /\ JobQueueInOrder /\ MessagesInOrder /\ ToNotifyAreNews
  /\ HeldAreTrue /\ WaitsAreOver /\ LastIDs /\ GrtPhases /\ FinishedAreRested(notifQueue[nLrt])

-----------------------------------------------------------------------------
LEMMA ScheduleFacts ==
  /\ \A j \in Jobs : jobID[j] \in Nat /\ jobID[j] < nJobPerPE[mappedPE[j]]
  /\ \A l \in LRT : nJobPerPE[l] \in Nat
  /\ \A l \in LRT : \A id \in Nat : id < nJobPerPE[l] => \E j \in JobsOf(l) : jobID[j] = id
  /\ \A i, j \in Jobs : mappedPE[i] = mappedPE[j] /\ jobID[i] = jobID[j] => i = j
  /\ \A i, j \in Jobs : mappedPE[i] = mappedPE[j] /\ jobID[i] < jobID[j] => i < j
  /\ \A l \in LRT : \A j \in JobsOf(l) : j \in Jobs /\ mappedPE[j] = l
<1>1. ConsecutiveIDs(Jobs, LRT, mappedPE, jobID, nJobPerPE)
  BY ScheduleAssumption
<1>2. Jobs \subseteq Int
  BY DEF Jobs
<1>3. /\ \A j \in Jobs : jobID[j] \in Nat /\ nJobPerPE[mappedPE[j]] \in Nat
      /\ \A l \in LRT : nJobPerPE[l] \in Nat
  BY ScheduleTypes, ConstantTypes
<1>4. \A j \in Jobs : jobID[j] < nJobPerPE[mappedPE[j]]
  BY <1>1, <1>3 DEF ConsecutiveIDs
<1>5. ASSUME NEW l \in LRT, NEW id \in Nat, id < nJobPerPE[l]
      PROVE  \E j \in JobsOf(l) : jobID[j] = id
  <2>1. id \in 0 .. nJobPerPE[l] - 1
    BY <1>3, <1>5
  <2> QED BY <1>1, <2>1 DEF ConsecutiveIDs, JobsOf
<1>6. ASSUME NEW i \in Jobs, NEW j \in Jobs, mappedPE[i] = mappedPE[j]
      PROVE  /\ jobID[i] = jobID[j] => i = j
             /\ jobID[i] < jobID[j] => i < j
  <2>1. i < j => jobID[i] < jobID[j]
    BY <1>1, <1>6 DEF ConsecutiveIDs
  <2>2. j < i => jobID[j] < jobID[i]
    BY <1>1, <1>6 DEF ConsecutiveIDs
  <2> QED BY <1>2, <1>3, <2>1, <2>2
<1> QED BY <1>3, <1>4, <1>5, <1>6 DEF JobsOf

LEMMA MessageFields ==
  ASSUME NEW m \in MessageType
  PROVE  /\ m.subType \in SubTypes /\ m.lrtID \in LRT
         /\ m.subType = "JOB_ADD" => m.index \in Jobs
         /\ m.subType \notin {"JOB_ADD", "TRACE_LRT"} => m.index \in Stamp
  BY DEF MessageType, JobMessage, OtherMessage, SubTypes

(* Queue r holds the messages of queue q of the given subtypes, in order.  *)
Carried(q, r, subTypes, d) ==
  /\ \A k \in DOMAIN r : r[k].subType \in subTypes => k + d \in DOMAIN q /\ r[k] = q[k + d]
  /\ \A k \in DOMAIN q : q[k].subType \in subTypes => k - d \in DOMAIN r /\ r[k - d] = q[k]
SameMessages(q, r, subTypes) == \E d \in {0, 1} : Carried(q, r, subTypes, d)

LEMMA SameQueue ==
  ASSUME NEW q \in Seq(MessageType), NEW S PROVE SameMessages(q, q, S)
<1>1. \A k \in DOMAIN q : k \in Nat
  BY LenProperties
<1>2. Carried(q, q, S, 0)
  BY <1>1 DEF Carried
<1> QED BY <1>2 DEF SameMessages

LEMMA AppendedQueue ==
  ASSUME NEW q \in Seq(MessageType), NEW m \in MessageType, NEW S, m.subType \notin S
  PROVE  SameMessages(q, Append(q, m), S)
<1> DEFINE r == Append(q, m)
<1>1. /\ Len(q) \in Nat /\ DOMAIN q = 1..Len(q) /\ DOMAIN r = 1..(Len(q) + 1)
      /\ \A k \in 1..Len(q) : r[k] = q[k]
      /\ r[Len(q) + 1] = m
  BY AppendProperties, LenProperties
<1>2. ASSUME NEW k \in DOMAIN r, r[k].subType \in S
      PROVE  k + 0 \in DOMAIN q /\ r[k] = q[k + 0]
  BY <1>1, <1>2
<1>3. ASSUME NEW k \in DOMAIN q
      PROVE  k - 0 \in DOMAIN r /\ r[k - 0] = q[k]
  BY <1>1
<1>4. Carried(q, r, S, 0)
  BY <1>2, <1>3 DEF Carried
<1> QED BY <1>4 DEF SameMessages

LEMMA TailElements ==
  ASSUME NEW q \in Seq(MessageType), q # <<>>
  PROVE  /\ Len(q) \in Nat /\ Len(q) > 0 /\ DOMAIN q = 1..Len(q)
         /\ DOMAIN Tail(q) = 1..(Len(q) - 1)
         /\ \A k \in 1..(Len(q) - 1) : Tail(q)[k] = q[k + 1]
         /\ Head(q) = q[1] /\ 1 \in DOMAIN q /\ Head(q) \in MessageType
  BY HeadTailProperties, LenProperties, EmptySeq

LEMMA TailQueue ==
  ASSUME NEW q \in Seq(MessageType), q # <<>>, NEW S, Head(q).subType \notin S
  PROVE  SameMessages(q, Tail(q), S)
<1>1. ASSUME NEW k \in DOMAIN Tail(q)
      PROVE  k + 1 \in DOMAIN q /\ Tail(q)[k] = q[k + 1]
  BY TailElements
<1>2. ASSUME NEW k \in DOMAIN q, q[k].subType \in S
      PROVE  k - 1 \in DOMAIN Tail(q) /\ Tail(q)[k - 1] = q[k]
  BY <1>2, TailElements
<1>3. Carried(q, Tail(q), S, 1)
  BY <1>1, <1>2 DEF Carried
<1> QED BY <1>3 DEF SameMessages

LEMMA RotatedQueue ==
  ASSUME NEW q \in Seq(MessageType), q # <<>>, NEW S, Head(q).subType \notin S
  PROVE  SameMessages(q, Append(Tail(q), Head(q)), S)
<1> DEFINE r == Append(Tail(q), Head(q))
<1>1. Tail(q) \in Seq(MessageType) /\ Head(q) \in MessageType
  BY HeadTailProperties
<1>2. /\ DOMAIN r = 1..Len(q) /\ r[Len(q)] = Head(q)
      /\ \A k \in 1..(Len(q) - 1) : r[k] = Tail(q)[k]
  <2>1. Len(Tail(q)) = Len(q) - 1 /\ Len(q) \in Nat
    BY HeadTailProperties, LenProperties
  <2>2. Len(r) = Len(Tail(q)) + 1 /\ r[Len(Tail(q)) + 1] = Head(q) /\ DOMAIN r = 1..Len(r)
        /\ \A k \in 1..Len(Tail(q)) : r[k] = Tail(q)[k]
    BY <1>1, AppendProperties, LenProperties
  <2> QED BY <2>1, <2>2
<1>3. ASSUME NEW k \in DOMAIN r, r[k].subType \in S
      PROVE  k + 1 \in DOMAIN q /\ r[k] = q[k + 1]
  BY <1>2, <1>3, TailElements
<1>4. ASSUME NEW k \in DOMAIN q, q[k].subType \in S
      PROVE  k - 1 \in DOMAIN r /\ r[k - 1] = q[k]
  <2> HIDE DEF r
  <2>1. k \in 2..Len(q)
    BY <1>4, TailElements
  <2>2. k - 1 \in 1..(Len(q) - 1) /\ Len(q) \in Nat
    BY <2>1, TailElements
  <2>3. Tail(q)[k - 1] = q[k]
    BY <2>1, <2>2, TailElements
  <2> QED BY <1>2, <2>2, <2>3
<1>5. Carried(q, r, S, 1)
  BY <1>3, <1>4 DEF Carried
<1> QED BY <1>5 DEF SameMessages

-----------------------------------------------------------------------------
(* What the invariant says of jobs and stamps rests on this state.         *)
SameRuns ==
  /\ UNCHANGED <<jobQueueIndex, jobIx, ran, iteration>>
  /\ \A l \in LRT : /\ pc'[l] = "exec" <=> pc[l] = "exec"
                    /\ pc'[l] = "notify" <=> pc[l] = "notify"
SameStamps == SameRuns /\ jobStamps' = jobStamps
SameJobs == SameStamps /\ jobQueue' = jobQueue

LEMMA SameRunsKeep ==
  ASSUME SameRuns
  PROVE  /\ \A j \in Jobs : HasRun(j)' <=> HasRun(j)
         /\ \A j \in Jobs : Waiting(j)' <=> Waiting(j)
         /\ \A l, i, s : Awaited(l, i, s)' <=> Awaited(l, i, s)
         /\ \A i, s : StampIsTrue(i, s)' <=> StampIsTrue(i, s)
<1>1. /\ \A j : HasRun(j)' <=> HasRun(j)
      /\ \A j : Waiting(j)' <=> Waiting(j)
  BY DEF SameRuns, HasRun, Waiting
<1> QED BY <1>1 DEF SameRuns, Awaited, StampIsTrue, JobsOf

LEMMA SameRunsKeepParts ==
  ASSUME OInv, SameRuns
  PROVE  Counted' /\ WaitsAreOver'
<1>1. Counted'
  BY DEF OInv, Counted, SameRuns
<1>2. WaitsAreOver'
  BY SameRunsKeep DEF OInv, WaitsAreOver, SameStamps
<1> QED BY <1>1, <1>2

LEMMA SameStampsKeepParts ==
  ASSUME OInv, SameStamps
  PROVE  Counted' /\ HeldAreTrue' /\ WaitsAreOver'
<1>1. HeldAreTrue'
  BY SameRunsKeep DEF OInv, HeldAreTrue, SameStamps, SameRuns, JobsOf
<1> QED BY <1>1, SameRunsKeepParts DEF SameStamps, SameRuns

LEMMA SameJobsKeep ==
  ASSUME SameJobs
  PROVE  /\ \A j \in Jobs : HasRun(j)' <=> HasRun(j)
         /\ \A l \in LRT : Rested(l)' <=> Rested(l)
         /\ \A l \in LRT : Blank(l)' <=> Blank(l)
<1>1. \A l \in LRT : pc'[l] \in {"exec", "notify"} <=> pc[l] \in {"exec", "notify"}
  BY DEF SameJobs, SameStamps, SameRuns
<1>2. \A l \in LRT : Blank(l)' <=> Blank(l)
  BY <1>1 DEF SameJobs, SameStamps, SameRuns, Blank
<1> QED BY <1>2, SameRunsKeep DEF SameJobs, Rested, JobsOf, SameStamps

LEMMA SameJobsKeepParts ==
  ASSUME OInv, SameJobs
  PROVE  Counted' /\ Progress' /\ HeldAreTrue' /\ WaitsAreOver'
<1>1. Progress'
  BY SameJobsKeep DEF OInv, Progress, SameJobs, SameStamps, SameRuns, JobsOf
<1> QED BY <1>1, SameStampsKeepParts DEF SameJobs

LEMMA SameJobsKeepQueue ==
  ASSUME OInv, SameJobs, TInv, SentJobs \in Nat, SentJobs' \in Nat,
         SentJobs <= SentJobs' \/ \A l \in LRT : Blank(l)
  PROVE  JobQueueInOrder'
<1> SUFFICES ASSUME NEW l \in LRT
             PROVE  /\ \A k \in DOMAIN jobQueue[l]' : /\ mappedPE[jobQueue[l][k]]' = l
                                     /\ jobID[jobQueue[l][k]]' = k - 1
                                     /\ jobQueue[l][k]' <= SentJobs'
                    /\ (jobQueueIndex[l] <= Len(jobQueue[l]))'
                    /\ (jobQueueIndex[l] = jobIx[l] + 1 + IF pc[l] = "exec" THEN 1 ELSE 0)'
                    /\ (pc[l] \in {"exec", "notify"} => jobQueueIndex[l] > 0)'
  BY DEF JobQueueInOrder
<1>1. JobQueueInOrder /\ jobQueue[l] \in Seq(Jobs)
  BY DEF OInv, TInv, LrtTypes
<1>2. ASSUME NEW k \in DOMAIN jobQueue[l] PROVE jobQueue[l][k] <= SentJobs'
  <2>1. jobQueue[l][k] \in Jobs /\ jobQueue[l][k] <= SentJobs
    BY <1>1, ElementOfSeq DEF JobQueueInOrder
  <2>2. ~Blank(l)
    BY <1>2, EmptySeq DEF Blank
  <2> QED BY <2>1, <2>2 DEF Jobs
<1> QED BY <1>1, <1>2 DEF JobQueueInOrder, SameJobs, SameStamps, SameRuns

-----------------------------------------------------------------------------
(* What a step that carries a queue's messages over keeps of them.         *)
LEMMA AddsKept ==
  ASSUME SameRuns, SentJobs' = SentJobs, NEW l \in LRT, jobQueue'[l] = jobQueue[l],
         NEW q, NEW r, AddsInOrder(l, q), SameMessages(q, r, {"JOB_ADD"}),
         DOMAIN q \subseteq Nat, DOMAIN r \subseteq Nat
  PROVE  AddsInOrder(l, r)'
<1>0. PICK d \in {0, 1} : Carried(q, r, {"JOB_ADD"}, d)
  BY DEF SameMessages
<1>1. /\ \A k \in DOMAIN r : r[k].subType = "JOB_ADD" => k + d \in DOMAIN q /\ r[k] = q[k + d]
      /\ \A k \in DOMAIN q : q[k].subType = "JOB_ADD" => k - d \in DOMAIN r /\ r[k - d] = q[k]
  BY <1>0 DEF Carried
<1>2. jobQueue'[l] = jobQueue[l] /\ \A j \in Jobs : HasRun(j)' <=> HasRun(j)
  BY SameRunsKeep DEF SameStamps
<1>3. ASSUME NEW k \in DOMAIN r, r[k].subType = "JOB_ADD"
      PROVE  LET j == r[k].index IN
             mappedPE[j] = l /\ ~HasRun(j)' /\ Len(jobQueue[l])' <= jobID[j] /\ j <= SentJobs'
  <2>1. q[k + d].subType = "JOB_ADD" /\ k + d \in DOMAIN q /\ r[k].index = q[k + d].index
    BY <1>1, <1>3
  <2> DEFINE j == q[k + d].index
  <2>2. mappedPE[j] = l /\ ~HasRun(j) /\ Len(jobQueue[l]) <= jobID[j] /\ j <= SentJobs
    BY <2>1 DEF AddsInOrder
  <2>3. ~HasRun(j)'
    BY <2>2 DEF HasRun, SameRuns
  <2> QED BY <1>2, <2>1, <2>2, <2>3
<1>4. ASSUME NEW k \in DOMAIN r, NEW m \in DOMAIN r, r[k].subType = "JOB_ADD",
             r[m].subType = "JOB_ADD", k < m
      PROVE  r[k].index < r[m].index
  <2>1. k + d < m + d
    BY <1>4
  <2> QED BY <1>1, <1>4, <2>1 DEF AddsInOrder
<1>5. ASSUME NEW j \in JobsOf(l), ~HasRun(j)', Len(jobQueue[l])' <= jobID[j], j <= SentJobs'
      PROVE  \E k \in DOMAIN r : r[k].subType = "JOB_ADD" /\ r[k].index = j
  <2>1. \E k \in DOMAIN q : q[k].subType = "JOB_ADD" /\ q[k].index = j
    BY <1>2, <1>5 DEF AddsInOrder, JobsOf
  <2> QED BY <1>1, <2>1
<1> QED BY <1>3, <1>4, <1>5 DEF AddsInOrder, JobsOf

LEMMA UpdatesKept ==
  ASSUME SameRuns, NEW l \in LRT, jobStamps'[l] = jobStamps[l], NEW q, NEW r, UpdatesAreNews(l, q),
         SameMessages(q, r, {"JOB_UPDATE_JOBSTAMP"}), DOMAIN q \subseteq Nat, DOMAIN r \subseteq Nat
  PROVE  UpdatesAreNews(l, r)'
<1>0. PICK d \in {0, 1} : Carried(q, r, {"JOB_UPDATE_JOBSTAMP"}, d)
  BY DEF SameMessages
<1>1. \A k \in DOMAIN r :
        r[k].subType = "JOB_UPDATE_JOBSTAMP" => k + d \in DOMAIN q /\ r[k] = q[k + d]
  BY <1>0 DEF Carried
<1>2. ASSUME NEW k \in DOMAIN r, r[k].subType = "JOB_UPDATE_JOBSTAMP"
      PROVE  LET i == r[k].lrtID  s == r[k].index IN
             i # l /\ jobStamps[l][i]' < s /\ StampIsTrue(i, s)' /\ Awaited(l, i, s)'
  <2> DEFINE i == r[k].lrtID
  <2> DEFINE s == r[k].index
  <2>1. q[k + d].subType = "JOB_UPDATE_JOBSTAMP" /\ k + d \in DOMAIN q /\ r[k] = q[k + d]
    BY <1>1, <1>2
  <2>2. i # l /\ jobStamps[l][i] < s /\ StampIsTrue(i, s) /\ Awaited(l, i, s)
    BY <2>1 DEF UpdatesAreNews
  <2> HIDE DEF i, s
  <2>3. StampIsTrue(i, s)' /\ Awaited(l, i, s)' /\ jobStamps'[l] = jobStamps[l]
    BY <2>2, SameRunsKeep DEF SameRuns, SameStamps
  <2> QED BY <2>2, <2>3 DEF i, s
<1>3. ASSUME NEW k \in DOMAIN r, NEW m \in DOMAIN r, r[k].lrtID = r[m].lrtID, k < m,
             r[k].subType = "JOB_UPDATE_JOBSTAMP", r[m].subType = "JOB_UPDATE_JOBSTAMP"
      PROVE  r[k].index < r[m].index
  <2>1. k + d < m + d
    BY <1>3
  <2> QED BY <1>1, <1>3, <2>1 DEF UpdatesAreNews
<1> QED BY <1>2, <1>3 DEF UpdatesAreNews

(* The queue of an LRT after its head has been taken.                      *)
LEMMA UpdatesLeft ==
  ASSUME NEW l \in LRT, NEW q \in Seq(MessageType), q # <<>>, UpdatesAreNews(l, q)
  PROVE  UpdatesAreNews(l, Tail(q))
<1>0. /\ \A k \in DOMAIN Tail(q) : k + 1 \in DOMAIN q /\ Tail(q)[k] = q[k + 1]
      /\ DOMAIN Tail(q) \subseteq Nat
  BY TailElements
<1>2. ASSUME NEW k \in DOMAIN Tail(q), Tail(q)[k].subType = "JOB_UPDATE_JOBSTAMP"
      PROVE  LET i == Tail(q)[k].lrtID  s == Tail(q)[k].index IN
             i # l /\ jobStamps[l][i] < s /\ StampIsTrue(i, s) /\ Awaited(l, i, s)
  BY <1>0, <1>2 DEF UpdatesAreNews
<1>3. ASSUME NEW k \in DOMAIN Tail(q), NEW m \in DOMAIN Tail(q),
             Tail(q)[k].lrtID = Tail(q)[m].lrtID, k < m,
             Tail(q)[k].subType = "JOB_UPDATE_JOBSTAMP",
             Tail(q)[m].subType = "JOB_UPDATE_JOBSTAMP"
      PROVE  Tail(q)[k].index < Tail(q)[m].index
  <2>1. k + 1 < m + 1
    BY <1>0, <1>3
  <2> QED BY <1>0, <1>3, <2>1 DEF UpdatesAreNews
<1> QED BY <1>2, <1>3 DEF UpdatesAreNews

(* Every queue of an LRT is a sequence of messages.                        *)
LEMMA QueueDomains ==
  ASSUME TInv
  PROVE  /\ \A q \in Queues : notifQueue[q] \in Seq(MessageType) /\ DOMAIN notifQueue[q] \subseteq Nat
         /\ LRT \subseteq Queues
<1>1. \A q \in Queues : notifQueue[q] \in Seq(MessageType)
  BY DEF TInv, QueueTypes
<1> QED BY <1>1, LenProperties, ConstantTypes

LEMMA QueueDomainsNext ==
  ASSUME TInv'
  PROVE  \A q \in Queues : notifQueue'[q] \in Seq(MessageType) /\ DOMAIN notifQueue'[q] \subseteq Nat
<1>1. \A q \in Queues : notifQueue'[q] \in Seq(MessageType)
  BY DEF TInv, QueueTypes, Queues, MessageType, JobMessage, OtherMessage
<1> QED BY <1>1, LenProperties

LEMMA MessagesKept ==
  ASSUME TInv, TInv', OInv, SameJobs, SentJobs' = SentJobs,
         \A l \in LRT :
           SameMessages(notifQueue[l], notifQueue'[l], {"JOB_ADD"})
           /\ SameMessages(notifQueue[l], notifQueue'[l], {"JOB_UPDATE_JOBSTAMP"})
  PROVE  MessagesInOrder'
<1> SUFFICES ASSUME NEW l \in LRT
             PROVE  AddsInOrder(l, notifQueue[l])' /\ UpdatesAreNews(l, notifQueue[l])'
  BY DEF MessagesInOrder
<1>1. /\ AddsInOrder(l, notifQueue[l]) /\ UpdatesAreNews(l, notifQueue[l])
      /\ DOMAIN notifQueue[l] \subseteq Nat /\ DOMAIN notifQueue'[l] \subseteq Nat
  BY QueueDomains, QueueDomainsNext DEF OInv, MessagesInOrder
<1>2. PICK r : r = notifQueue'[l]
  OBVIOUS
<1>3. AddsInOrder(l, r)'
  BY <1>1, <1>2, AddsKept DEF SameJobs, SameStamps
<1>4. UpdatesAreNews(l, r)'
  BY <1>1, <1>2, UpdatesKept DEF SameJobs, SameStamps
<1>5. AddsInOrder(l, notifQueue[l])'
  BY <1>2, <1>3 DEF AddsInOrder
<1>6. UpdatesAreNews(l, notifQueue[l])'
  BY <1>2, <1>4 DEF UpdatesAreNews
<1> QED BY <1>5, <1>6

(* Stamps that are still to be sent.                                       *)
LEMMA ToNotifyKept ==
  ASSUME OInv, SameStamps, toNotify' = toNotify,
         \A l \in LRT : SameMessages(notifQueue[l], notifQueue'[l], {"JOB_UPDATE_JOBSTAMP"}),
         TInv
  PROVE  ToNotifyAreNews'
<1> SUFFICES ASSUME NEW i \in LRT, NEW l \in toNotify[i]
             PROVE  (/\ pc[i] = "notify" /\ l # i
                     /\ jobStamps[l][i] < jobIx[i] /\ Awaited(l, i, jobIx[i])
                     /\ \A k \in DOMAIN notifQueue[l] :
                          notifQueue[l][k].subType = "JOB_UPDATE_JOBSTAMP" /\ notifQueue[l][k].lrtID = i
                            => notifQueue[l][k].index < jobIx[i])'
  BY DEF ToNotifyAreNews
<1>1. /\ pc[i] = "notify" /\ l # i
      /\ jobStamps[l][i] < jobIx[i] /\ Awaited(l, i, jobIx[i])
      /\ \A k \in DOMAIN notifQueue[l] :
           notifQueue[l][k].subType = "JOB_UPDATE_JOBSTAMP" /\ notifQueue[l][k].lrtID = i
             => notifQueue[l][k].index < jobIx[i]
  BY DEF OInv, ToNotifyAreNews
<1>2. l \in LRT
  BY DEF TInv, LrtTypes
<1>3. PICK d \in {0, 1} : Carried(notifQueue[l], notifQueue'[l], {"JOB_UPDATE_JOBSTAMP"}, d)
  BY <1>2 DEF SameMessages
<1>4. PICK s : s = jobIx[i]
  OBVIOUS
<1>5. Awaited(l, i, s)'
  BY <1>1, <1>4, SameRunsKeep DEF SameStamps
<1>6. Awaited(l, i, jobIx[i])'
  BY <1>4, <1>5 DEF SameStamps, SameRuns, Awaited
<1>7. pc'[i] = "notify" /\ jobIx' = jobIx /\ jobStamps' = jobStamps
  BY <1>1 DEF SameStamps, SameRuns
<1>8. ASSUME NEW k \in DOMAIN notifQueue'[l],
             notifQueue'[l][k].subType = "JOB_UPDATE_JOBSTAMP", notifQueue'[l][k].lrtID = i
      PROVE  notifQueue'[l][k].index < jobIx[i]
  BY <1>1, <1>3, <1>8 DEF Carried
<1> QED BY <1>1, <1>6, <1>7, <1>8

LEMMA EndsCarried ==
  ASSUME NEW q, NEW r, SameMessages(q, r, {"LRT_END_ITERATION"})
  PROVE  /\ \A k \in DOMAIN r : r[k].subType = "LRT_END_ITERATION" =>
              \E m \in DOMAIN q : q[m] = r[k]
         /\ \A k \in DOMAIN q : q[k].subType = "LRT_END_ITERATION" =>
              \E m \in DOMAIN r : r[m] = q[k]
  BY DEF SameMessages, Carried

LEMMA LastIDsKept ==
  ASSUME LastIDs, lastJobID' = lastJobID,
         \A l \in LRT : SameMessages(notifQueue[l], notifQueue'[l], {"LRT_END_ITERATION"})
  PROVE  LastIDs' /\ \A l \in LRT : HasEnd(l)' <=> HasEnd(l)
<1>1. ASSUME NEW l \in LRT, NEW k \in DOMAIN notifQueue'[l],
             notifQueue'[l][k].subType = "LRT_END_ITERATION"
      PROVE  IsEnd(notifQueue'[l][k], l)
  BY <1>1, EndsCarried DEF LastIDs
<1>2. LastIDs'
  BY <1>1 DEF LastIDs, IsEnd
<1>3. ASSUME NEW l \in LRT
      PROVE  HasEnd(l)' <=> HasEnd(l)
  BY EndsCarried DEF HasEnd
<1> QED BY <1>2, <1>3

(* The GRT stays where it is, or goes on reading its queue.                *)
LEMMA GrtPhasesKept ==
  ASSUME GrtPhases, SameJobs, nSentJobs' = nSentJobs, LrtTypes,
         sentTo' = sentTo \/ pc'[grt] # "send",
         HasEnd(grt) => HasEnd(grt)' \/ lastJobID'[grt] = nJobPerPE[grt] - 1,
         pc[grt] = "send" /\ HasEnd(grt) => HasEnd(grt)',
         lastJobID[grt] = nJobPerPE[grt] - 1 => lastJobID'[grt] = nJobPerPE[grt] - 1,
         \/ pc'[grt] = pc[grt]
         \/ pc[grt] \in {"wait", "drain"} /\ pc'[grt] \in {"wait", "drain", "ended"}
         \/ pc[grt] \in {"idle", "stop"} /\ pc'[grt] \in {"stop", "done"}
  PROVE  GrtPhases'
<1> USE ConstantTypes
<1>1. pc'[grt] \in {"idle", "stop", "done"} =>
        nSentJobs' = 0 /\ \A l \in LRT : Rested(l)'
  BY SameJobsKeep DEF GrtPhases
<1>2. pc'[grt] = "send" =>
       /\ Blank(grt)' /\ \A j \in Jobs : nSentJobs' < j => ~HasRun(j)'
       /\ grt < sentTo' => HasEnd(grt)'
  BY SameJobsKeep DEF GrtPhases
<1>3. pc'[grt] \in LrtPC => nSentJobs' = NJobs
  BY DEF GrtPhases, LrtPC
<1>4. pc'[grt] \in {"wait", "drain", "exec", "notify"} =>
        HasEnd(grt)' \/ lastJobID'[grt] = nJobPerPE[grt] - 1
  BY DEF GrtPhases
<1>5. pc'[grt] = "recv" => nSentJobs' = 0 /\ Rested(grt)'
  BY SameJobsKeep DEF GrtPhases
<1> QED BY <1>1, <1>2, <1>3, <1>4, <1>5 DEF GrtPhases

LEMMA FinishedKept ==
  ASSUME NEW q, NEW r, FinishedAreRested(q),
         SameMessages(q, r, {"LRT_FINISHED_ITERATION"}),
         DOMAIN q \subseteq Nat, DOMAIN r \subseteq Nat,
         \A i \in LRT : Rested(i) => Rested(i)', nFinishedPE' = nFinishedPE,
         pc[grt] = "recv" => pc'[grt] = "recv",
         pc'[grt] \in {"idle", "stop", "done"} => pc[grt] \in {"idle", "stop", "done"}
  PROVE  FinishedAreRested(r)'
<1>0. PICK d \in {0, 1} : Carried(q, r, {"LRT_FINISHED_ITERATION"}, d)
  BY DEF SameMessages
<1>1. /\ \A k \in DOMAIN r : IsFinished(r[k]) => k + d \in DOMAIN q /\ r[k] = q[k + d]
      /\ \A k \in DOMAIN q : IsFinished(q[k]) => k - d \in DOMAIN r /\ r[k - d] = q[k]
  BY <1>0 DEF Carried, IsFinished
<1>2. Activated \subseteq LRT
  BY PlatformAssumption
<1>3. ASSUME NEW k \in DOMAIN r, IsFinished(r[k])
      PROVE  r[k].lrtID \in Activated \ {grt} /\ Rested(r[k].lrtID)'
  <2>1. PICK i \in Activated \ {grt} : i = r[k].lrtID /\ Rested(i)
    BY <1>1, <1>3 DEF FinishedAreRested
  <2>2. Rested(i)'
    BY <1>2, <2>1
  <2> QED BY <2>1, <2>2 DEF Rested, Blank, JobsOf, HasRun
<1>4. ASSUME NEW k \in DOMAIN r, NEW m \in DOMAIN r, IsFinished(r[k]), IsFinished(r[m]),
             r[k].lrtID = r[m].lrtID
      PROVE  k = m
  <2>1. k + d = m + d
    BY <1>1, <1>4 DEF FinishedAreRested
  <2> QED BY <2>1
<1>5. pc'[grt] \in {"idle", "stop", "done"} => \A k \in DOMAIN r : ~IsFinished(r[k])
  BY <1>1 DEF FinishedAreRested
<1>6. pc'[grt] # "recv" => nFinishedPE' = 0
  BY DEF FinishedAreRested
<1>7. \E F \in SUBSET (Activated \ {grt}) :
        /\ Cardinality(F) = nFinishedPE'
        /\ \A i \in F : Rested(i)' /\ ~FinishedFrom(i, r)
  <2>1. PICK F \in SUBSET (Activated \ {grt}) :
          /\ Cardinality(F) = nFinishedPE
          /\ \A i \in F : Rested(i) /\ ~FinishedFrom(i, q)
    BY DEF FinishedAreRested
  <2>2. \A i \in F : Rested(i)'
    BY <1>2, <2>1
  <2>3. ASSUME NEW i \in F PROVE ~FinishedFrom(i, r)
    BY <1>1, <2>1 DEF FinishedFrom
  <2> QED BY <2>1, <2>2, <2>3
<1> QED BY <1>3, <1>4, <1>5, <1>6, <1>7 DEF FinishedAreRested, FinishedFrom, IsFinished

(* A step that keeps the jobs' state and every message but END_ITERATIONs. *)
LEMMA QuietParts ==
  ASSUME TInv, TInv', OInv, SameJobs, SentJobs' = SentJobs, toNotify' = toNotify,
         \A l \in LRT :
           SameMessages(notifQueue[l], notifQueue'[l], {"JOB_ADD"})
           /\ SameMessages(notifQueue[l], notifQueue'[l], {"JOB_UPDATE_JOBSTAMP"}),
         SameMessages(notifQueue[nLrt], notifQueue'[nLrt], {"LRT_FINISHED_ITERATION"}),
         nFinishedPE' = nFinishedPE,
         pc[grt] = "recv" => pc'[grt] = "recv",
         pc'[grt] \in {"idle", "stop", "done"} => pc[grt] \in {"idle", "stop", "done"}
  PROVE  /\ Counted' /\ Progress' /\ JobQueueInOrder' /\ MessagesInOrder' /\ ToNotifyAreNews'
         /\ HeldAreTrue' /\ WaitsAreOver' /\ FinishedAreRested(notifQueue[nLrt])'
<1>1. SentJobs \in Nat
  BY ScheduleTypes DEF SentJobs, TInv, GrtTypes
<1>2. JobQueueInOrder' /\ Counted' /\ Progress' /\ HeldAreTrue' /\ WaitsAreOver'
  BY <1>1, SameJobsKeepQueue, SameJobsKeepParts
<1>3. MessagesInOrder' /\ ToNotifyAreNews'
  BY MessagesKept, ToNotifyKept DEF SameJobs
<1>4. FinishedAreRested(notifQueue[nLrt])'
  <2>1. PICK r : r = notifQueue'[nLrt]
    OBVIOUS
  <2>2. /\ \A i \in LRT : Rested(i) => Rested(i)'
        /\ DOMAIN notifQueue[nLrt] \subseteq Nat /\ DOMAIN r \subseteq Nat
    BY <2>1, SameJobsKeep, QueueDomains, QueueDomainsNext, ConstantTypes
  <2>3. FinishedAreRested(r)'
    BY <2>1, <2>2, FinishedKept DEF OInv
  <2> QED BY <2>1, <2>3 DEF FinishedAreRested
<1> QED BY <1>2, <1>3, <1>4

(* All of it: a step that only moves messages whose kind does not matter.  *)
LEMMA QuietStep ==
  ASSUME TInv, TInv', OInv, SameJobs,
         \A l \in LRT : \A s \in SubTypes \ {"LRT_STOP", "LRT_FINISHED_ITERATION", "TRACE_LRT"} :
           SameMessages(notifQueue[l], notifQueue'[l], {s}),
         SameMessages(notifQueue[nLrt], notifQueue'[nLrt], {"LRT_FINISHED_ITERATION"}),
         UNCHANGED <<nSentJobs, nFinishedPE, lastJobID, toNotify>>,
         sentTo' = sentTo \/ pc'[grt] # "send",
         \/ pc'[grt] = pc[grt]
         \/ pc[grt] \in {"wait", "drain"} /\ pc'[grt] \in {"wait", "drain", "ended"}
         \/ pc[grt] \in {"idle", "stop"} /\ pc'[grt] \in {"stop", "done"}
  PROVE  OInv'
<1>0. LastIDs /\ GrtPhases /\ LrtTypes
  BY DEF OInv, TInv
<1>1. SentJobs' = SentJobs
  BY DEF SentJobs
<1>2. \A l \in LRT :
        /\ SameMessages(notifQueue[l], notifQueue'[l], {"JOB_ADD"})
        /\ SameMessages(notifQueue[l], notifQueue'[l], {"JOB_UPDATE_JOBSTAMP"})
        /\ SameMessages(notifQueue[l], notifQueue'[l], {"LRT_END_ITERATION"})
  BY DEF SubTypes
<1>3. /\ Counted' /\ Progress' /\ JobQueueInOrder' /\ MessagesInOrder' /\ ToNotifyAreNews'
      /\ HeldAreTrue' /\ WaitsAreOver' /\ FinishedAreRested(notifQueue[nLrt])'
  BY <1>1, <1>2, QuietParts
<1>4. LastIDs' /\ (HasEnd(grt)' <=> HasEnd(grt))
  BY <1>0, <1>2, LastIDsKept, ConstantTypes
<1>5. GrtPhases'
  BY <1>0, <1>4, GrtPhasesKept
<1> QED BY <1>3, <1>4, <1>5 DEF OInv

-----------------------------------------------------------------------------
(* Pushing to and popping from queue q leaves the other messages alone.    *)
LEMMA PushMoves ==
  ASSUME TInv, NEW l \in LRT, NEW q \in Queues, NEW m \in MessageType, Push(l, q, m)
  PROVE  /\ notifQueue'[q] = Append(notifQueue[q], m)
         /\ \A r \in Queues : r # q => notifQueue'[r] = notifQueue[r]
         /\ \A r \in Queues : \A S : r # q \/ m.subType \notin S =>
              SameMessages(notifQueue[r], notifQueue'[r], S)
<1>1. notifQueue \in [Queues -> Seq(MessageType)]
  BY DEF TInv, QueueTypes
<1>2. notifQueue' = [notifQueue EXCEPT ![q] = Append(@, m)]
  BY DEF Push
<1> QED BY <1>1, <1>2, SameQueue, AppendedQueue

LEMMA PopMoves ==
  ASSUME TInv, NEW l \in LRT, NEW s \in SubTypes, Pop(l, s)
  PROVE  /\ notifQueue[l] \in Seq(MessageType) /\ notifQueue[l] # <<>>
         /\ Head(notifQueue[l]).subType = s
         /\ notifQueue'[l] = Tail(notifQueue[l])
         /\ \A r \in Queues : r # l => notifQueue'[r] = notifQueue[r]
         /\ \A r \in Queues : \A S : r # l \/ s \notin S =>
              SameMessages(notifQueue[r], notifQueue'[r], S)
         /\ pc' = [pc EXCEPT ![l] = "drain"] /\ pc[l] \in {"wait", "drain"}
         /\ UNCHANGED <<unposted, toNotify, ran, grtVars>>
<1>1. notifQueue \in [Queues -> Seq(MessageType)] /\ l \in Queues
  BY ConstantTypes DEF TInv, QueueTypes
<1>2. /\ notifQueue' = [notifQueue EXCEPT ![l] = Tail(@)] /\ Head(notifQueue[l]).subType = s
      /\ pc' = [pc EXCEPT ![l] = "drain"] /\ pc[l] \in {"wait", "drain"} /\ credits[l] > 0
      /\ UNCHANGED <<unposted, toNotify, ran, grtVars>>
  BY DEF Pop, At
<1>3. notifQueue[l] # <<>>
  BY <1>1, <1>2, CreditMeansItem DEF TInv
<1>4. \A S : s \notin S => SameMessages(notifQueue[l], Tail(notifQueue[l]), S)
  BY <1>1, <1>2, <1>3, TailQueue
<1> QED BY <1>1, <1>2, <1>3, <1>4, SameQueue

LEMMA HandleStopInOrder ==
  ASSUME TInv, TInv', OInv, NEW l \in LRT, HandleStop(l)
  PROVE  OInv'
<1>1. Pop(l, "LRT_STOP") /\ "LRT_STOP" \in SubTypes /\ UNCHANGED lrtVars
  BY DEF HandleStop, SubTypes
<1>2. /\ pc' = [pc EXCEPT ![l] = "drain"] /\ pc[l] \in {"wait", "drain"}
      /\ UNCHANGED <<unposted, toNotify, ran, grtVars>>
      /\ pc \in [LRT -> LrtPC \cup GrtPC]
  BY <1>1, PopMoves DEF TInv, LrtTypes
<1>3. SameJobs
  BY <1>1, <1>2 DEF SameJobs, SameStamps, SameRuns, lrtVars, grtVars
<1>4. \A r \in Queues : \A s \in SubTypes \ {"LRT_STOP"} :
        SameMessages(notifQueue[r], notifQueue'[r], {s})
  BY <1>1, PopMoves
<1>5. /\ UNCHANGED <<nSentJobs, nFinishedPE, lastJobID, toNotify, sentTo>>
      /\ \/ pc'[grt] = pc[grt]
         \/ pc[grt] \in {"wait", "drain"} /\ pc'[grt] \in {"wait", "drain", "ended"}
  BY <1>1, <1>2, ConstantTypes DEF lrtVars, grtVars, OInv, GrtPhases
<1>6. /\ \A k \in LRT : \A s \in SubTypes \ {"LRT_STOP", "LRT_FINISHED_ITERATION", "TRACE_LRT"} :
           SameMessages(notifQueue[k], notifQueue'[k], {s})
      /\ SameMessages(notifQueue[nLrt], notifQueue'[nLrt], {"LRT_FINISHED_ITERATION"})
  BY <1>4, ConstantTypes DEF SubTypes
<1> QED BY <1>3, <1>5, <1>6, QuietStep

(* A step that touches no queue and moves between quiet pcs.               *)
LEMMA SilentStep ==
  ASSUME TInv, TInv', OInv, SameJobs, notifQueue' = notifQueue,
         UNCHANGED <<nSentJobs, nFinishedPE, lastJobID, toNotify, sentTo>>,
         \/ pc'[grt] = pc[grt]
         \/ pc[grt] \in {"wait", "drain"} /\ pc'[grt] \in {"wait", "drain", "ended"}
         \/ pc[grt] \in {"idle", "stop"} /\ pc'[grt] \in {"stop", "done"}
  PROVE  OInv'
<1>1. \A r \in Queues : \A s \in SubTypes : SameMessages(notifQueue[r], notifQueue'[r], {s})
  BY SameQueue, QueueDomains
<1>2. /\ \A k \in LRT : \A s \in SubTypes \ {"LRT_STOP", "LRT_FINISHED_ITERATION", "TRACE_LRT"} :
           SameMessages(notifQueue[k], notifQueue'[k], {s})
      /\ SameMessages(notifQueue[nLrt], notifQueue'[nLrt], {"LRT_FINISHED_ITERATION"})
  BY <1>1, ConstantTypes DEF SubTypes
<1> QED BY <1>2, QuietStep

LEMMA ExitRunInOrder ==
  ASSUME TInv, TInv', OInv, NEW l \in LRT, ExitRun(l)
  PROVE  OInv'
<1>1. /\ pc' = [pc EXCEPT ![l] = "ended"] /\ pc[l] = "drain"
      /\ UNCHANGED <<queueVars, lrtVars, grtVars, run, toNotify, ran>>
      /\ pc \in [LRT -> LrtPC \cup GrtPC]
  BY DEF ExitRun, Drained, At, TInv, LrtTypes
<1>2. SameJobs
  BY <1>1 DEF SameJobs, SameStamps, SameRuns, lrtVars, grtVars
<1>3. \/ pc'[grt] = pc[grt]
      \/ pc[grt] \in {"wait", "drain"} /\ pc'[grt] \in {"wait", "drain", "ended"}
  BY <1>1, ConstantTypes
<1> QED BY <1>1, <1>2, <1>3, SilentStep DEF lrtVars, grtVars, queueVars

LEMMA PostInOrder ==
  ASSUME TInv, TInv', OInv, NEW l \in LRT, Post(l)
  PROVE  OInv'
<1>1. /\ unposted' = [unposted EXCEPT ![l] = -1] /\ notifQueue' = notifQueue
      /\ UNCHANGED <<lrtVars, grtVars, pc, run, toNotify, ran>>
      /\ unposted \in [LRT -> Queues \cup {-1}]
  BY DEF Post, TInv, QueueTypes
<1>2. SameJobs
  BY <1>1 DEF SameJobs, SameStamps, SameRuns, lrtVars, grtVars
<1> QED BY <1>1, <1>2, SilentStep DEF lrtVars, grtVars

LEMMA HandleEndIterationInOrder ==
  ASSUME TInv, TInv', OInv, NEW l \in LRT, HandleEndIteration(l)
  PROVE  OInv'
<1> DEFINE m == Head(notifQueue[l])
<1>1. /\ Pop(l, "LRT_END_ITERATION") /\ "LRT_END_ITERATION" \in SubTypes
      /\ lastJobID' = [lastJobID EXCEPT ![l] = m.index]
      /\ UNCHANGED <<jobQueue, jobQueueIndex, jobIx, jobStamps, run>>
  BY DEF HandleEndIteration, SubTypes
<1>2. /\ pc' = [pc EXCEPT ![l] = "drain"] /\ pc[l] \in {"wait", "drain"}
      /\ UNCHANGED <<unposted, toNotify, ran, grtVars>>
      /\ notifQueue[l] \in Seq(MessageType) /\ notifQueue[l] # <<>>
      /\ m.subType = "LRT_END_ITERATION" /\ notifQueue'[l] = Tail(notifQueue[l])
      /\ \A r \in Queues : r # l => notifQueue'[r] = notifQueue[r]
  BY <1>1, PopMoves
<1>3. pc \in [LRT -> LrtPC \cup GrtPC] /\ lastJobID \in [LRT -> Stamp]
  BY DEF TInv, LrtTypes
<1>4. SameJobs
  BY <1>1, <1>2, <1>3 DEF SameJobs, SameStamps, SameRuns, grtVars
<1>5. \A r \in Queues : \A s \in SubTypes \ {"LRT_END_ITERATION"} :
        SameMessages(notifQueue[r], notifQueue'[r], {s})
  BY <1>1, PopMoves
<1>6. /\ \A k \in LRT : SameMessages(notifQueue[k], notifQueue'[k], {"JOB_ADD"})
                      /\ SameMessages(notifQueue[k], notifQueue'[k], {"JOB_UPDATE_JOBSTAMP"})
      /\ SameMessages(notifQueue[nLrt], notifQueue'[nLrt], {"LRT_FINISHED_ITERATION"})
  BY <1>5, ConstantTypes DEF SubTypes
<1>7. /\ UNCHANGED <<nSentJobs, nFinishedPE, toNotify, sentTo>>
      /\ \/ pc'[grt] = pc[grt]
         \/ pc[grt] \in {"wait", "drain"} /\ pc'[grt] = "drain"
  BY <1>2, <1>3, ConstantTypes DEF grtVars, OInv, GrtPhases
<1>8. SentJobs' = SentJobs
  BY <1>7 DEF SentJobs
<1>9. /\ Counted' /\ Progress' /\ JobQueueInOrder' /\ MessagesInOrder' /\ ToNotifyAreNews'
      /\ HeldAreTrue' /\ WaitsAreOver' /\ FinishedAreRested(notifQueue[nLrt])'
  BY <1>4, <1>6, <1>7, <1>8, QuietParts
<1>10. /\ DOMAIN notifQueue'[l] \subseteq Nat
       /\ \A k \in DOMAIN notifQueue'[l] : \E n \in DOMAIN notifQueue[l] :
             notifQueue'[l][k] = notifQueue[l][n]
       /\ \E n \in DOMAIN notifQueue[l] : m = notifQueue[l][n]
  <2>1. ASSUME NEW k \in DOMAIN Tail(notifQueue[l])
        PROVE  \E n \in DOMAIN notifQueue[l] : Tail(notifQueue[l])[k] = notifQueue[l][n]
    <3>1. k + 1 \in DOMAIN notifQueue[l] /\ Tail(notifQueue[l])[k] = notifQueue[l][k + 1]
      BY <1>2, TailElements
    <3> QED BY <3>1
  <2> QED BY <1>2, <2>1, TailElements
<1>11. m.index = nJobPerPE[l] - 1
  BY <1>2, <1>10 DEF OInv, LastIDs, IsEnd
<1>12. LastIDs'
  <2> SUFFICES ASSUME NEW k \in LRT
               PROVE  /\ lastJobID'[k] \in {-1, nJobPerPE[k] - 1}
                      /\ \A n \in DOMAIN notifQueue'[k] :
                           notifQueue'[k][n].subType = "LRT_END_ITERATION" =>
                             IsEnd(notifQueue'[k][n], k)
    BY DEF LastIDs, IsEnd
  <2>1. CASE k = l
    BY <1>1, <1>3, <1>10, <1>11, <2>1 DEF OInv, LastIDs
  <2>2. CASE k # l
    BY <1>1, <1>2, <1>3, <2>2, ConstantTypes DEF OInv, LastIDs
  <2> QED BY <2>1, <2>2
<1>13. GrtPhases'
  <2>1. HasEnd(grt) => HasEnd(grt)' \/ lastJobID'[grt] = nJobPerPE[grt] - 1
    BY <1>1, <1>2, <1>3, <1>11, ConstantTypes DEF HasEnd
  <2>2. pc[grt] = "send" /\ HasEnd(grt) => HasEnd(grt)'
    BY <1>2, ConstantTypes DEF HasEnd
  <2>3. lastJobID[grt] = nJobPerPE[grt] - 1 => lastJobID'[grt] = nJobPerPE[grt] - 1
    BY <1>1, <1>3, <1>11, ConstantTypes
  <2> QED BY <1>4, <1>7, <2>1, <2>2, <2>3, GrtPhasesKept DEF OInv, TInv
<1> QED BY <1>9, <1>12, <1>13 DEF OInv

(* The next JOB_ADD that an LRT receives is that of its next job.          *)
LEMMA NextAddIsNextJob ==
  ASSUME TInv, OInv, NEW l \in LRT, notifQueue[l] # <<>>,
         Head(notifQueue[l]).subType = "JOB_ADD"
  PROVE  LET j == Head(notifQueue[l]).index IN
         /\ j \in JobsOf(l) /\ ~HasRun(j) /\ j <= SentJobs
         /\ jobID[j] = Len(jobQueue[l])
<1> DEFINE q == notifQueue[l]
<1> DEFINE j == Head(q).index
<1> DEFINE n == Len(jobQueue[l])
<1>1. /\ q \in Seq(MessageType) /\ jobQueue[l] \in Seq(Jobs)
      /\ AddsInOrder(l, q) /\ Progress /\ JobQueueInOrder
      /\ jobIx[l] \in Stamp /\ jobQueueIndex[l] \in Nat
  BY ConstantTypes DEF TInv, QueueTypes, LrtTypes, OInv, MessagesInOrder
<1>2. /\ Head(q) = q[1] /\ 1 \in DOMAIN q /\ Head(q) \in MessageType
      /\ \A k \in DOMAIN q : k \in Nat /\ (k # 1 => 1 < k)
  BY <1>1, TailElements
<1>3. /\ j \in Jobs /\ mappedPE[j] = l /\ ~HasRun(j) /\ n <= jobID[j] /\ j <= SentJobs
  BY <1>1, <1>2, MessageFields DEF AddsInOrder
<1>4. n \in Nat /\ jobID[j] \in Nat /\ jobID[j] < nJobPerPE[l]
  BY <1>1, <1>3, LenProperties, ScheduleFacts
<1>5. ASSUME n < jobID[j] PROVE FALSE
  <2>0. n < nJobPerPE[l] /\ nJobPerPE[l] \in Nat
    BY <1>4, <1>5, ScheduleFacts
  <2>1. PICK p \in JobsOf(l) : jobID[p] = n
    BY <1>4, <2>0, ScheduleFacts
  <2>2. p \in Jobs /\ mappedPE[p] = l /\ p < j
    BY <1>3, <1>5, <2>1, ScheduleFacts
  <2>3. ~HasRun(p)
    <3>1. ~Rested(l)
      BY <1>3 DEF Rested, JobsOf
    <3>2. HasRun(p) <=> jobID[p] <= jobIx[l]
      BY <1>1, <2>1, <3>1 DEF Progress
    <3>3. jobIx[l] < n
      <4>1. jobQueueIndex[l] <= n
        BY <1>1 DEF JobQueueInOrder
      <4>2. jobQueueIndex[l] = jobIx[l] + 1 + IF pc[l] = "exec" THEN 1 ELSE 0
        BY <1>1 DEF JobQueueInOrder
      <4>3. jobIx[l] \in Int /\ jobIx[l] + 1 <= jobQueueIndex[l]
        BY <1>1, <4>2 DEF Stamp
      <4> HIDE DEF n
      <4> QED BY <1>1, <1>4, <4>1, <4>3
    <3>4. jobIx[l] \in Int /\ n \in Int
      BY <1>1, <1>4 DEF Stamp
    <3> HIDE DEF n
    <3> QED BY <2>1, <3>2, <3>3, <3>4
  <2>4. SentJobs \in Nat /\ p \in Nat /\ j \in Nat
    BY <1>3, <2>2, ScheduleTypes DEF SentJobs, TInv, GrtTypes, Jobs
  <2>5. p <= SentJobs
    BY <1>3, <2>2, <2>4
  <2>6. PICK k \in DOMAIN q : q[k].subType = "JOB_ADD" /\ q[k].index = p
    BY <1>1, <1>4, <2>1, <2>3, <2>5 DEF AddsInOrder
  <2>7. k # 1
    BY <1>2, <2>2, <2>4, <2>6
  <2>8. j < p
    BY <1>1, <1>2, <2>6, <2>7 DEF AddsInOrder
  <2> QED BY <2>2, <2>4, <2>8
<1>6. jobID[j] = n
  BY <1>3, <1>4, <1>5
<1> QED BY <1>3, <1>6 DEF JobsOf

LEMMA HandleJobAddInOrder ==
  ASSUME TInv, TInv', OInv, NEW l \in LRT, HandleJobAdd(l)
  PROVE  OInv'
<1> DEFINE q == notifQueue[l]
<1>0. PICK j : j = Head(q).index
  OBVIOUS
<1>1. /\ Pop(l, "JOB_ADD") /\ "JOB_ADD" \in SubTypes
      /\ jobQueue' = [jobQueue EXCEPT ![l] = Append(@, j)]
      /\ UNCHANGED <<jobQueueIndex, jobIx, lastJobID, jobStamps, run>>
  BY <1>0 DEF HandleJobAdd, SubTypes
<1>2. /\ pc' = [pc EXCEPT ![l] = "drain"] /\ pc[l] \in {"wait", "drain"}
      /\ UNCHANGED <<unposted, toNotify, ran, grtVars>>
      /\ q \in Seq(MessageType) /\ q # <<>>
      /\ Head(q).subType = "JOB_ADD" /\ notifQueue'[l] = Tail(q)
      /\ \A r \in Queues : r # l => notifQueue'[r] = notifQueue[r]
  BY <1>1, PopMoves
<1>3. /\ pc \in [LRT -> LrtPC \cup GrtPC] /\ jobQueue \in [LRT -> Seq(Jobs)]
      /\ jobQueueIndex \in [LRT -> Nat]
      /\ Counted /\ Progress /\ JobQueueInOrder /\ MessagesInOrder /\ ToNotifyAreNews
      /\ HeldAreTrue /\ WaitsAreOver /\ LastIDs /\ GrtPhases
      /\ FinishedAreRested(notifQueue[nLrt])
  BY DEF TInv, LrtTypes, OInv
<1>4. SameStamps
  BY <1>1, <1>2, <1>3 DEF SameStamps, SameRuns, grtVars
<1>5. \A r \in Queues : \A s \in SubTypes \ {"JOB_ADD"} :
        SameMessages(notifQueue[r], notifQueue'[r], {s})
  BY <1>1, PopMoves
<1>6. \A k \in LRT : /\ SameMessages(notifQueue[k], notifQueue'[k], {"JOB_UPDATE_JOBSTAMP"})
                      /\ SameMessages(notifQueue[k], notifQueue'[k], {"LRT_END_ITERATION"})
  BY <1>5, ConstantTypes DEF SubTypes
<1>7. /\ UNCHANGED <<nSentJobs, nFinishedPE, sentTo>>
      /\ (pc'[grt] = pc[grt] \/ (pc[grt] \in {"wait", "drain"} /\ pc'[grt] = "drain"))
  BY <1>2, <1>3, ConstantTypes DEF grtVars
<1>8. SentJobs' = SentJobs /\ SentJobs \in Nat
  BY <1>7, ScheduleTypes DEF SentJobs, TInv, GrtTypes
<1>9. j \in JobsOf(l) /\ ~HasRun(j) /\ j <= SentJobs /\ jobID[j] = Len(jobQueue[l])
  BY <1>0, <1>2, NextAddIsNextJob
<1>10. j \in Jobs /\ mappedPE[j] = l /\ jobQueue[l] \in Seq(Jobs) /\ Len(jobQueue[l]) \in Nat
  BY <1>3, <1>9, LenProperties DEF JobsOf
<1> HIDE DEF q
<1>11. /\ jobQueue'[l] = Append(jobQueue[l], j)
       /\ Len(jobQueue'[l]) = Len(jobQueue[l]) + 1
       /\ DOMAIN jobQueue'[l] = 1..(Len(jobQueue[l]) + 1)
       /\ DOMAIN jobQueue[l] = 1..Len(jobQueue[l])
       /\ \A k \in 1..Len(jobQueue[l]) : jobQueue'[l][k] = jobQueue[l][k]
       /\ jobQueue'[l][Len(jobQueue[l]) + 1] = j
  <2>1. jobQueue'[l] = Append(jobQueue[l], j)
    BY <1>1, <1>3
  <2>2. Append(jobQueue[l], j) \in Seq(Jobs)
    BY <1>10, AppendProperties
  <2> QED BY <1>10, <2>1, <2>2, AppendProperties, LenProperties
<1>12. ~Rested(l) /\ ~Rested(l)'
  <2>1. ~HasRun(j)'
    BY <1>9, <1>10, <1>4, SameRunsKeep DEF SameStamps
  <2> QED BY <1>9, <2>1 DEF Rested, JobsOf, HasRun
<1>13. \A k \in LRT : k # l => jobQueue'[k] = jobQueue[k] /\ pc'[k] = pc[k]
  BY <1>1, <1>2, <1>3
<1>14. \A k \in LRT : k # l => (Blank(k)' <=> Blank(k)) /\ (Rested(k)' <=> Rested(k))
  <2>1. \A k \in LRT : k # l => (Blank(k)' <=> Blank(k))
    BY <1>4, <1>13 DEF Blank, SameStamps, SameRuns
  <2> QED BY <1>4, <2>1, SameRunsKeep DEF Rested, JobsOf, SameStamps
<1>15. Counted' /\ HeldAreTrue' /\ WaitsAreOver'
  BY <1>4, SameStampsKeepParts
<1>16. Progress'
  BY <1>3, <1>4, <1>12, <1>14, SameRunsKeep DEF Progress, SameStamps, SameRuns, JobsOf
<1>17. JobQueueInOrder'
  <2> SUFFICES ASSUME NEW k \in LRT
               PROVE  (/\ \A n \in DOMAIN jobQueue[k] : /\ mappedPE[jobQueue[k][n]] = k
                                     /\ jobID[jobQueue[k][n]] = n - 1
                                     /\ jobQueue[k][n] <= SentJobs
                       /\ jobQueueIndex[k] <= Len(jobQueue[k])
                       /\ jobQueueIndex[k] = jobIx[k] + 1 + IF pc[k] = "exec" THEN 1 ELSE 0
                       /\ pc[k] \in {"exec", "notify"} => jobQueueIndex[k] > 0)'
    BY DEF JobQueueInOrder
  <2>1. CASE k # l
    BY <1>1, <1>3, <1>8, <1>13, <2>1 DEF JobQueueInOrder
  <2>2. CASE k = l
    <3>1. ASSUME NEW n \in DOMAIN jobQueue'[l]
          PROVE  /\ mappedPE[jobQueue'[l][n]] = l /\ jobID[jobQueue'[l][n]] = n - 1
                 /\ jobQueue'[l][n] <= SentJobs
      <4>1. CASE n \in DOMAIN jobQueue[l]
        BY <1>3, <1>11, <4>1 DEF JobQueueInOrder
      <4>2. CASE n = Len(jobQueue[l]) + 1
        BY <1>9, <1>10, <1>11, <4>2
      <4> QED BY <1>10, <1>11, <3>1, <4>1, <4>2
    <3>2. jobQueueIndex'[l] = jobQueueIndex[l] /\ jobQueueIndex[l] <= Len(jobQueue[l])
          /\ jobQueueIndex[l] \in Nat
      BY <1>1, <1>3 DEF JobQueueInOrder
    <3>3. jobQueueIndex'[l] <= Len(jobQueue'[l])
      BY <1>10, <1>11, <3>2
    <3>4. /\ jobQueueIndex'[l] = jobIx'[l] + 1 + IF pc'[l] = "exec" THEN 1 ELSE 0
          /\ pc'[l] \notin {"exec", "notify"}
      BY <1>1, <1>2, <1>3 DEF JobQueueInOrder
    <3> QED BY <1>8, <2>2, <3>1, <3>3, <3>4
  <2> QED BY <2>1, <2>2
<1>18. MessagesInOrder'
  <2> SUFFICES ASSUME NEW k \in LRT
               PROVE  AddsInOrder(k, notifQueue[k])' /\ UpdatesAreNews(k, notifQueue[k])'
    BY DEF MessagesInOrder
  <2>1. PICK r : r = notifQueue'[k]
    OBVIOUS
  <2>2. /\ DOMAIN notifQueue[k] \subseteq Nat /\ DOMAIN r \subseteq Nat
        /\ AddsInOrder(k, notifQueue[k]) /\ UpdatesAreNews(k, notifQueue[k])
    BY <1>3, <2>1, QueueDomains, QueueDomainsNext DEF MessagesInOrder
  <2>3. UpdatesAreNews(k, r)'
    BY <1>4, <1>6, <2>1, <2>2, UpdatesKept DEF SameStamps
  <2>4. AddsInOrder(k, r)'
    <3>1. CASE k # l
      <4>1. SameMessages(notifQueue[k], r, {"JOB_ADD"})
        BY <1>2, <2>1, <3>1, SameQueue, QueueDomains
      <4> QED BY <1>4, <1>8, <1>13, <2>2, <3>1, <4>1, AddsKept DEF SameStamps
    <3>2. CASE k = l
      <4>1. /\ \A n \in DOMAIN r : n \in Nat /\ n + 1 \in DOMAIN q /\ r[n] = q[n + 1] /\ 1 < n + 1
            /\ \A n \in DOMAIN q : n = 1 \/ n - 1 \in DOMAIN r
            /\ q[1].subType = "JOB_ADD" /\ q[1].index = j /\ 1 \in DOMAIN q /\ DOMAIN q \subseteq Nat
        <5>1. q \in Seq(MessageType) /\ q # <<>> /\ r = Tail(q)
          BY <1>2, <2>1, <3>2
        <5>2. /\ Len(q) \in Nat /\ DOMAIN q = 1..Len(q) /\ DOMAIN r = 1..(Len(q) - 1)
              /\ \A n \in 1..(Len(q) - 1) : r[n] = q[n + 1]
              /\ Head(q) = q[1] /\ 1 \in DOMAIN q
          BY <5>1, TailElements
        <5> QED BY <1>0, <1>2, <5>2
      <4>2. AddsInOrder(l, q)
        BY <2>2, <3>2 DEF q
      <4>3. ASSUME NEW n \in DOMAIN r, r[n].subType = "JOB_ADD"
            PROVE  LET i == r[n].index IN
                   mappedPE[i] = l /\ ~HasRun(i)' /\ Len(jobQueue[l])' <= jobID[i] /\ i <= SentJobs'
        <5> DEFINE i == r[n].index
        <5>1. n + 1 \in DOMAIN q /\ r[n] = q[n + 1] /\ q[n + 1].subType = "JOB_ADD" /\ 1 < n + 1
          BY <4>1, <4>3
        <5>2. mappedPE[i] = l /\ ~HasRun(i) /\ Len(jobQueue[l]) <= jobID[i] /\ i <= SentJobs /\ j < i
          BY <4>1, <4>2, <5>1 DEF AddsInOrder
        <5>3. r[n] \in MessageType
          <6>1. r \in Seq(MessageType)
            BY <2>1, QueueDomainsNext, ConstantTypes
          <6> QED BY <4>3, <6>1, ElementOfSeq
        <5>4. i \in Jobs
          BY <4>3, <5>3, MessageFields
        <5>5. jobID[i] # jobID[j] /\ jobID[i] \in Nat
          BY <1>10, <5>2, <5>4, ScheduleFacts DEF Jobs
        <5>6. ~HasRun(i)'
          BY <1>4, <5>2, <5>4, SameRunsKeep DEF SameStamps
        <5>7. Len(jobQueue'[l]) <= jobID[i]
          BY <1>9, <1>10, <1>11, <5>2, <5>5
        <5> QED BY <1>8, <5>2, <5>6, <5>7
      <4>4. ASSUME NEW n \in DOMAIN r, NEW m \in DOMAIN r, r[n].subType = "JOB_ADD",
                   r[m].subType = "JOB_ADD", n < m
            PROVE  r[n].index < r[m].index
        <5>1. n + 1 < m + 1
          BY <4>1, <4>4
        <5> QED BY <4>1, <4>2, <4>4, <5>1 DEF AddsInOrder
      <4>5. ASSUME NEW i \in JobsOf(l), ~HasRun(i)', Len(jobQueue[l])' <= jobID[i], i <= SentJobs'
            PROVE  \E n \in DOMAIN r : r[n].subType = "JOB_ADD" /\ r[n].index = i
        <5>1. i \in Jobs /\ ~HasRun(i) /\ i <= SentJobs /\ jobID[i] \in Nat
          BY <1>4, <1>8, <4>5, SameRunsKeep, ScheduleFacts DEF SameStamps
        <5>2. Len(jobQueue[l]) <= jobID[i] /\ i # j
          BY <1>9, <1>10, <1>11, <4>5, <5>1
        <5>3. PICK n \in DOMAIN q : q[n].subType = "JOB_ADD" /\ q[n].index = i
          BY <4>2, <5>1, <5>2 DEF AddsInOrder
        <5>4. n # 1
          BY <4>1, <5>2, <5>3
        <5>5. n - 1 \in DOMAIN r /\ n \in Nat
          BY <4>1, <5>4
        <5>6. r[n - 1] = q[n]
          BY <4>1, <5>5
        <5> QED BY <5>3, <5>5, <5>6
      <4> QED BY <3>2, <4>3, <4>4, <4>5 DEF AddsInOrder, JobsOf
    <3> QED BY <3>1, <3>2
  <2>5. AddsInOrder(k, notifQueue[k])'
    BY <2>1, <2>4 DEF AddsInOrder
  <2>6. UpdatesAreNews(k, notifQueue[k])'
    BY <2>1, <2>3 DEF UpdatesAreNews
  <2> QED BY <2>5, <2>6
<1>19. ToNotifyAreNews'
  BY <1>2, <1>4, <1>6, ToNotifyKept
<1>20. LastIDs' /\ (HasEnd(grt)' <=> HasEnd(grt))
  BY <1>1, <1>3, <1>6, LastIDsKept, ConstantTypes
<1>21. GrtPhases'
  <2>1. pc'[grt] \in {"idle", "stop", "done"} =>
          nSentJobs' = 0 /\ \A k \in LRT : Rested(k)'
    BY <1>3, <1>7, <1>12, <1>14 DEF GrtPhases
  <2>2. pc'[grt] = "send" =>
          /\ Blank(grt)' /\ \A i \in Jobs : nSentJobs' < i => ~HasRun(i)'
          /\ grt < sentTo' => HasEnd(grt)'
    <3>1. pc'[grt] = "send" => l # grt
      BY <1>2, <1>3
    <3> QED BY <1>3, <1>4, <1>7, <1>14, <1>20, <3>1, SameRunsKeep, ConstantTypes DEF GrtPhases, SameStamps
  <2>3. pc'[grt] \in LrtPC => nSentJobs' = NJobs
    BY <1>3, <1>7 DEF GrtPhases, LrtPC
  <2>4. pc'[grt] \in {"wait", "drain", "exec", "notify"} =>
          HasEnd(grt)' \/ lastJobID'[grt] = nJobPerPE[grt] - 1
    BY <1>1, <1>3, <1>7, <1>20 DEF GrtPhases
  <2>5. pc'[grt] = "recv" => nSentJobs' = 0 /\ Rested(grt)'
    BY <1>3, <1>7, <1>12, <1>14, ConstantTypes DEF GrtPhases
  <2> QED BY <2>1, <2>2, <2>3, <2>4, <2>5 DEF GrtPhases, JobsOf
<1>22. FinishedAreRested(notifQueue[nLrt])'
  <2>1. PICK r : r = notifQueue'[nLrt]
    OBVIOUS
  <2>2. /\ \A i \in LRT : Rested(i) => Rested(i)'
        /\ DOMAIN notifQueue[nLrt] \subseteq Nat /\ DOMAIN r \subseteq Nat
    BY <1>12, <1>14, <2>1, QueueDomains, QueueDomainsNext, ConstantTypes
  <2>3. r = notifQueue[nLrt] /\ SameMessages(notifQueue[nLrt], r, {"LRT_FINISHED_ITERATION"})
    BY <1>2, <2>1, ConstantTypes, SameQueue, QueueDomains
  <2>4. FinishedAreRested(r)'
    BY <1>3, <1>7, <2>1, <2>2, <2>3, FinishedKept
  <2> QED BY <2>1, <2>4 DEF FinishedAreRested
<1> QED BY <1>15, <1>16, <1>17, <1>18, <1>19, <1>20, <1>21, <1>22 DEF OInv

(* A step in which LRT l, which has still jobs to run, receives something. *)
LEMMA BusyReceiver ==
  ASSUME OInv, SameRuns, NEW l \in LRT, NEW j \in JobsOf(l), ~HasRun(j),
         jobQueue' = [jobQueue EXCEPT ![l] = jobQueue'[l]],
         jobStamps' = [jobStamps EXCEPT ![l] = jobStamps'[l]],
         LrtTypes, LrtTypes'
  PROVE  /\ ~Rested(l) /\ ~Rested(l)' /\ Progress'
         /\ \A k \in LRT : k # l => (Blank(k)' <=> Blank(k)) /\ (Rested(k)' <=> Rested(k))
<1>1. ~Rested(l) /\ ~Rested(l)'
  BY DEF Rested, HasRun, SameRuns
<1>2. \A k \in LRT : k # l => jobQueue'[k] = jobQueue[k] /\ jobStamps'[k] = jobStamps[k]
  BY DEF LrtTypes
<1>3. \A k \in LRT : pc'[k] \in {"exec", "notify"} <=> pc[k] \in {"exec", "notify"}
  BY DEF SameRuns
<1>4. \A k \in LRT : k # l => (Blank(k)' <=> Blank(k))
  BY <1>2, <1>3 DEF Blank, SameRuns
<1>5. \A k \in LRT : k # l => (Rested(k)' <=> Rested(k))
  BY <1>4, SameRunsKeep DEF Rested, JobsOf
<1>6. Progress'
  BY <1>1, <1>5, SameRunsKeep DEF OInv, Progress, SameRuns, JobsOf
<1> QED BY <1>1, <1>4, <1>5, <1>6

LEMMA HandleUpdateJobStampInOrder ==
  ASSUME TInv, TInv', OInv, NEW l \in LRT, HandleUpdateJobStamp(l)
  PROVE  OInv'
<1> DEFINE q == notifQueue[l]
<1>0. PICK i, stamp : i = Head(q).lrtID /\ stamp = Head(q).index
  OBVIOUS
<1>1. /\ Pop(l, "JOB_UPDATE_JOBSTAMP") /\ "JOB_UPDATE_JOBSTAMP" \in SubTypes
      /\ jobStamps' = [jobStamps EXCEPT ![l][i] = stamp]
      /\ UNCHANGED <<jobQueue, jobQueueIndex, jobIx, lastJobID, run>>
  BY <1>0 DEF HandleUpdateJobStamp, SubTypes
<1>2. /\ pc' = [pc EXCEPT ![l] = "drain"] /\ pc[l] \in {"wait", "drain"}
      /\ UNCHANGED <<unposted, toNotify, ran, grtVars>>
      /\ q \in Seq(MessageType) /\ q # <<>>
      /\ Head(q).subType = "JOB_UPDATE_JOBSTAMP" /\ notifQueue'[l] = Tail(q)
      /\ \A r \in Queues : r # l => notifQueue'[r] = notifQueue[r]
  BY <1>1, PopMoves
<1>3. /\ pc \in [LRT -> LrtPC \cup GrtPC] /\ jobQueue \in [LRT -> Seq(Jobs)]
      /\ jobStamps \in [LRT -> [LRT -> Stamp]] /\ toNotify \in [LRT -> SUBSET LRT]
      /\ Counted /\ Progress /\ JobQueueInOrder /\ MessagesInOrder /\ ToNotifyAreNews
      /\ HeldAreTrue /\ WaitsAreOver /\ LastIDs /\ GrtPhases
      /\ FinishedAreRested(notifQueue[nLrt]) /\ LrtTypes /\ LrtTypes'
  BY DEF TInv, LrtTypes, OInv
<1>4. SameRuns
  BY <1>1, <1>2, <1>3 DEF SameRuns, grtVars
<1>5. \A r \in Queues : \A s \in SubTypes \ {"JOB_UPDATE_JOBSTAMP"} :
        SameMessages(notifQueue[r], notifQueue'[r], {s})
  BY <1>1, PopMoves
<1>6. \A k \in LRT : /\ SameMessages(notifQueue[k], notifQueue'[k], {"JOB_ADD"})
                      /\ SameMessages(notifQueue[k], notifQueue'[k], {"LRT_END_ITERATION"})
  BY <1>5, ConstantTypes DEF SubTypes
<1>7. /\ UNCHANGED <<nSentJobs, nFinishedPE, sentTo>>
      /\ (pc'[grt] = pc[grt] \/ (pc[grt] \in {"wait", "drain"} /\ pc'[grt] = "drain"))
  BY <1>2, <1>3, ConstantTypes DEF grtVars
<1>8. SentJobs' = SentJobs /\ SentJobs \in Nat
  BY <1>7, ScheduleTypes DEF SentJobs, TInv, GrtTypes
<1>9. /\ Head(q) = q[1] /\ 1 \in DOMAIN q /\ Head(q) \in MessageType /\ DOMAIN q \subseteq Nat
      /\ \A n \in DOMAIN Tail(q) : n + 1 \in DOMAIN q /\ Tail(q)[n] = q[n + 1] /\ 1 < n + 1
  BY <1>2, TailElements
<1>10. i \in LRT /\ stamp \in Stamp
  BY <1>0, <1>2, <1>9, MessageFields
<1>11. i # l /\ jobStamps[l][i] < stamp /\ StampIsTrue(i, stamp) /\ Awaited(l, i, stamp)
  BY <1>0, <1>2, <1>3, <1>9 DEF MessagesInOrder, UpdatesAreNews
<1>12. PICK j \in JobsOf(l) : ~HasRun(j)
  BY <1>11 DEF Awaited, Waiting
<1>13. /\ jobQueue' = [jobQueue EXCEPT ![l] = jobQueue'[l]]
       /\ jobStamps' = [jobStamps EXCEPT ![l] = jobStamps'[l]]
       /\ jobStamps'[l] = [jobStamps[l] EXCEPT ![i] = stamp]
       /\ \A k \in LRT : k # l => jobStamps'[k] = jobStamps[k]
  BY <1>1, <1>3
<1>14. /\ ~Rested(l) /\ ~Rested(l)' /\ Progress'
       /\ \A k \in LRT : k # l => (Blank(k)' <=> Blank(k)) /\ (Rested(k)' <=> Rested(k))
  BY <1>3, <1>4, <1>12, <1>13, BusyReceiver
<1>15. Counted' /\ WaitsAreOver'
  BY <1>4, SameRunsKeepParts
<1>16. HeldAreTrue'
  <2> SUFFICES ASSUME NEW k \in LRT, NEW m \in LRT
               PROVE  StampIsTrue(m, jobStamps[k][m])' /\ (JobsOf(k) = {} => jobStamps'[k][m] = -1)
    BY DEF HeldAreTrue, JobsOf
  <2>1. CASE k = l /\ m = i
    <3>1. jobStamps'[k][m] = stamp
      BY <1>3, <1>10, <1>13, <2>1
    <3>2. StampIsTrue(m, stamp)'
      BY <1>4, <1>11, <2>1, SameRunsKeep
    <3>3. StampIsTrue(m, jobStamps[k][m])'
      BY <3>1, <3>2 DEF StampIsTrue
    <3> QED BY <1>12, <2>1, <3>3
  <2>2. CASE ~(k = l /\ m = i)
    <3>1. jobStamps'[k][m] = jobStamps[k][m]
      BY <1>3, <1>13, <2>2
    <3>2. StampIsTrue(m, jobStamps[k][m]) /\ (JobsOf(k) = {} => jobStamps[k][m] = -1)
      BY <1>3 DEF HeldAreTrue
    <3>3. StampIsTrue(m, jobStamps[k][m])'
      BY <1>4, <3>1, <3>2 DEF StampIsTrue, SameRuns
    <3> QED BY <3>1, <3>2, <3>3
  <2> QED BY <2>1, <2>2
<1>17. JobQueueInOrder'
  BY <1>1, <1>3, <1>4, <1>8 DEF JobQueueInOrder, SameRuns
<1>18. MessagesInOrder'
  <2> SUFFICES ASSUME NEW k \in LRT
               PROVE  AddsInOrder(k, notifQueue[k])' /\ UpdatesAreNews(k, notifQueue[k])'
    BY DEF MessagesInOrder
  <2>1. PICK r : r = notifQueue'[k]
    OBVIOUS
  <2>2. /\ DOMAIN notifQueue[k] \subseteq Nat /\ DOMAIN r \subseteq Nat
        /\ AddsInOrder(k, notifQueue[k]) /\ UpdatesAreNews(k, notifQueue[k])
    BY <1>3, <2>1, QueueDomains, QueueDomainsNext DEF MessagesInOrder
  <2>3. AddsInOrder(k, r)'
    BY <1>1, <1>4, <1>6, <1>8, <2>1, <2>2, AddsKept
  <2>4. UpdatesAreNews(k, r)'
    <3>1. CASE k # l
      <4>1. SameMessages(notifQueue[k], r, {"JOB_UPDATE_JOBSTAMP"})
        BY <1>2, <2>1, <3>1, SameQueue, QueueDomains
      <4> QED BY <1>4, <1>13, <2>2, <3>1, <4>1, UpdatesKept
    <3>2. CASE k = l
      <4>0. r = Tail(q) /\ UpdatesAreNews(l, q) /\ UpdatesAreNews(l, Tail(q))
        BY <1>2, <2>1, <2>2, <3>2, UpdatesLeft
      <4>1. ASSUME NEW n \in DOMAIN r, r[n].subType = "JOB_UPDATE_JOBSTAMP"
            PROVE  LET p == r[n].lrtID  s == r[n].index IN
                   p # l /\ jobStamps[l][p]' < s /\ StampIsTrue(p, s)' /\ Awaited(l, p, s)'
        <5>1. PICK p, s : p = r[n].lrtID /\ s = r[n].index
          OBVIOUS
        <5>2. p # l /\ jobStamps[l][p] < s /\ StampIsTrue(p, s) /\ Awaited(l, p, s)
          BY <4>0, <4>1, <5>1 DEF UpdatesAreNews
        <5>3. StampIsTrue(p, s)' /\ Awaited(l, p, s)'
          BY <1>4, <5>2, SameRunsKeep
        <5>4. r[n] \in MessageType
          <6>1. r \in Seq(MessageType)
            BY <2>1, QueueDomainsNext, ConstantTypes
          <6> QED BY <4>1, <6>1, ElementOfSeq
        <5>5. p \in LRT
          BY <5>1, <5>4, MessageFields
        <5>6. p = i => stamp < s
          BY <1>0, <1>2, <1>9, <4>0, <4>1, <5>1 DEF UpdatesAreNews
        <5>7. jobStamps'[l][p] < s
          BY <1>3, <1>10, <1>13, <5>2, <5>5, <5>6
        <5> QED BY <5>1, <5>2, <5>3, <5>7
      <4>2. ASSUME NEW n \in DOMAIN r, NEW m \in DOMAIN r, r[n].lrtID = r[m].lrtID, n < m,
                   r[n].subType = "JOB_UPDATE_JOBSTAMP", r[m].subType = "JOB_UPDATE_JOBSTAMP"
            PROVE  r[n].index < r[m].index
        BY <4>0, <4>2 DEF UpdatesAreNews
      <4> QED BY <3>2, <4>1, <4>2 DEF UpdatesAreNews
    <3> QED BY <3>1, <3>2
  <2>5. AddsInOrder(k, notifQueue[k])'
    BY <2>1, <2>3 DEF AddsInOrder
  <2>6. UpdatesAreNews(k, notifQueue[k])'
    BY <2>1, <2>4 DEF UpdatesAreNews
  <2> QED BY <2>5, <2>6
<1>19. ToNotifyAreNews'
  <2> SUFFICES ASSUME NEW p \in LRT, NEW k \in toNotify[p]
               PROVE  (/\ pc[p] = "notify" /\ k # p
                       /\ jobStamps[k][p] < jobIx[p] /\ Awaited(k, p, jobIx[p])
                       /\ \A n \in DOMAIN notifQueue[k] :
                            notifQueue[k][n].subType = "JOB_UPDATE_JOBSTAMP" /\ notifQueue[k][n].lrtID = p
                              => notifQueue[k][n].index < jobIx[p])'
    BY <1>2 DEF ToNotifyAreNews
  <2>1. /\ pc[p] = "notify" /\ k # p
        /\ jobStamps[k][p] < jobIx[p] /\ Awaited(k, p, jobIx[p])
        /\ \A n \in DOMAIN notifQueue[k] :
             notifQueue[k][n].subType = "JOB_UPDATE_JOBSTAMP" /\ notifQueue[k][n].lrtID = p
               => notifQueue[k][n].index < jobIx[p]
    BY <1>3 DEF ToNotifyAreNews
  <2>2. k \in LRT
    BY <1>3
  <2>3. PICK s : s = jobIx[p]
    OBVIOUS
  <2>4. Awaited(k, p, s)'
    BY <1>4, <2>1, <2>3, SameRunsKeep
  <2>5. Awaited(k, p, jobIx[p])'
    BY <1>1, <2>3, <2>4 DEF Awaited
  <2>6. pc'[p] = "notify" /\ jobIx' = jobIx
    BY <1>4, <2>1 DEF SameRuns
  <2>7. jobStamps'[k][p] < jobIx[p]
    <3>1. CASE k = l /\ p = i
      <4>1. stamp < jobIx[p]
        BY <1>0, <1>2, <1>9, <2>1, <3>1
      <4> QED BY <1>3, <1>10, <1>13, <3>1, <4>1
    <3>2. CASE ~(k = l /\ p = i)
      BY <1>3, <1>13, <2>1, <2>2, <3>2
    <3> QED BY <3>1, <3>2
  <2>8. ASSUME NEW n \in DOMAIN notifQueue'[k],
               notifQueue'[k][n].subType = "JOB_UPDATE_JOBSTAMP", notifQueue'[k][n].lrtID = p
        PROVE  notifQueue'[k][n].index < jobIx[p]
    <3>1. CASE k = l
      <4>1. n + 1 \in DOMAIN q /\ notifQueue'[k][n] = q[n + 1]
        BY <1>2, <1>9, <2>8, <3>1
      <4> QED BY <2>1, <2>8, <3>1, <4>1
    <3>2. CASE k # l
      <4>1. notifQueue'[k] = notifQueue[k]
        BY <1>2, <2>2, <3>2, ConstantTypes
      <4> QED BY <2>1, <2>8, <4>1
    <3> QED BY <3>1, <3>2
  <2> QED BY <2>1, <2>5, <2>6, <2>7, <2>8
<1>20. LastIDs' /\ (HasEnd(grt)' <=> HasEnd(grt))
  BY <1>1, <1>3, <1>6, LastIDsKept, ConstantTypes
<1>21. GrtPhases'
  <2>1. pc'[grt] \in {"idle", "stop", "done"} =>
          nSentJobs' = 0 /\ \A k \in LRT : Rested(k)'
    BY <1>3, <1>7, <1>14 DEF GrtPhases
  <2>2. pc'[grt] = "send" =>
          /\ Blank(grt)' /\ \A p \in Jobs : nSentJobs' < p => ~HasRun(p)'
          /\ grt < sentTo' => HasEnd(grt)'
    <3>1. pc'[grt] = "send" => l # grt
      BY <1>2, <1>3
    <3> QED BY <1>3, <1>4, <1>7, <1>14, <1>20, <3>1, SameRunsKeep, ConstantTypes DEF GrtPhases
  <2>3. pc'[grt] \in LrtPC => nSentJobs' = NJobs
    BY <1>3, <1>7 DEF GrtPhases, LrtPC
  <2>4. pc'[grt] \in {"wait", "drain", "exec", "notify"} =>
          HasEnd(grt)' \/ lastJobID'[grt] = nJobPerPE[grt] - 1
    BY <1>1, <1>3, <1>7, <1>20 DEF GrtPhases
  <2>5. pc'[grt] = "recv" => nSentJobs' = 0 /\ Rested(grt)'
    BY <1>3, <1>7, <1>14, ConstantTypes DEF GrtPhases
  <2> QED BY <2>1, <2>2, <2>3, <2>4, <2>5 DEF GrtPhases, JobsOf
<1>22. FinishedAreRested(notifQueue[nLrt])'
  <2>1. PICK r : r = notifQueue'[nLrt]
    OBVIOUS
  <2>2. /\ \A k \in LRT : Rested(k) => Rested(k)'
        /\ DOMAIN notifQueue[nLrt] \subseteq Nat /\ DOMAIN r \subseteq Nat
    BY <1>14, <2>1, QueueDomains, QueueDomainsNext, ConstantTypes
  <2>3. r = notifQueue[nLrt] /\ SameMessages(notifQueue[nLrt], r, {"LRT_FINISHED_ITERATION"})
    BY <1>2, <2>1, ConstantTypes, SameQueue, QueueDomains
  <2>4. FinishedAreRested(r)'
    BY <1>3, <1>7, <2>1, <2>2, <2>3, FinishedKept
  <2> QED BY <2>1, <2>4 DEF FinishedAreRested
<1> QED BY <1>14, <1>15, <1>16, <1>17, <1>18, <1>19, <1>20, <1>21, <1>22 DEF OInv

-----------------------------------------------------------------------------
(* A step that touches no queue but lets a job start or end.               *)
LEMMA AddsStay ==
  ASSUME NEW l \in LRT, NEW q, AddsInOrder(l, q), SentJobs' = SentJobs,
         jobQueue'[l] = jobQueue[l], q \in Seq(MessageType),
         \A j \in JobsOf(l) : Len(jobQueue[l]) <= jobID[j] => (HasRun(j)' <=> HasRun(j))
  PROVE  AddsInOrder(l, q)'
<1>1. ASSUME NEW k \in DOMAIN q, q[k].subType = "JOB_ADD"
      PROVE  LET j == q[k].index IN
             mappedPE[j] = l /\ ~HasRun(j)' /\ Len(jobQueue[l])' <= jobID[j] /\ j <= SentJobs'
  <2>1. PICK j : j = q[k].index
    OBVIOUS
  <2>2. mappedPE[j] = l /\ ~HasRun(j) /\ Len(jobQueue[l]) <= jobID[j] /\ j <= SentJobs
    BY <1>1, <2>1 DEF AddsInOrder
  <2>3. j \in Jobs
    BY <1>1, <2>1, ElementOfSeq, MessageFields
  <2>4. ~HasRun(j)'
    BY <2>2, <2>3 DEF JobsOf
  <2> QED BY <2>1, <2>2, <2>4
<1>2. ASSUME NEW j \in JobsOf(l), ~HasRun(j)', Len(jobQueue[l])' <= jobID[j], j <= SentJobs'
      PROVE  \E k \in DOMAIN q : q[k].subType = "JOB_ADD" /\ q[k].index = j
  BY <1>2 DEF AddsInOrder
<1>3. \A k, m \in DOMAIN q :
       q[k].subType = "JOB_ADD" /\ q[m].subType = "JOB_ADD" /\ k < m => q[k].index < q[m].index
  BY DEF AddsInOrder
<1> QED BY <1>1, <1>2, <1>3 DEF AddsInOrder, JobsOf

LEMMA UpdatesStay ==
  ASSUME NEW l \in LRT, NEW q, UpdatesAreNews(l, q), q \in Seq(MessageType),
         \A i \in LRT \ {l} : jobStamps'[l][i] = jobStamps[l][i],
         \A i \in LRT \ {l}, s \in Stamp :
           jobStamps[l][i] < s /\ Awaited(l, i, s) => Awaited(l, i, s)',
         \A i \in LRT, s \in Stamp : StampIsTrue(i, s) => StampIsTrue(i, s)'
  PROVE  UpdatesAreNews(l, q)'
<1>1. ASSUME NEW k \in DOMAIN q, q[k].subType = "JOB_UPDATE_JOBSTAMP"
      PROVE  LET i == q[k].lrtID  s == q[k].index IN
             i # l /\ jobStamps[l][i]' < s /\ StampIsTrue(i, s)' /\ Awaited(l, i, s)'
  <2>1. PICK i, s : i = q[k].lrtID /\ s = q[k].index
    OBVIOUS
  <2>2. i # l /\ jobStamps[l][i] < s /\ StampIsTrue(i, s) /\ Awaited(l, i, s)
    BY <1>1, <2>1 DEF UpdatesAreNews
  <2>3. i \in LRT /\ s \in Stamp
    BY <1>1, <2>1, ElementOfSeq, MessageFields
  <2>4. jobStamps'[l][i] < s /\ StampIsTrue(i, s)' /\ Awaited(l, i, s)'
    BY <2>2, <2>3
  <2> QED BY <2>1, <2>2, <2>4
<1>2. \A k, m \in DOMAIN q :
        /\ q[k].subType = "JOB_UPDATE_JOBSTAMP" /\ q[m].subType = "JOB_UPDATE_JOBSTAMP"
        /\ q[k].lrtID = q[m].lrtID /\ k < m
        => q[k].index < q[m].index
  BY DEF UpdatesAreNews
<1> QED BY <1>1, <1>2 DEF UpdatesAreNews

(* The job that StartJob starts has not run, and comes next in its LRT.    *)
LEMMA NextJobIsNext ==
  ASSUME TInv, OInv, NEW l \in LRT, GotJobToDo(l), pc[l] = "drain"
  PROVE  /\ NextJob(l) \in JobsOf(l) /\ ~HasRun(NextJob(l))
         /\ jobID[NextJob(l)] = jobQueueIndex[l] /\ ~Rested(l)
<1>1. /\ jobQueue[l] \in Seq(Jobs) /\ jobQueueIndex[l] \in Nat /\ jobIx[l] \in Stamp
      /\ jobQueueIndex[l] < Len(jobQueue[l]) /\ JobQueueInOrder /\ Progress
      /\ Len(jobQueue[l]) \in Nat
  BY LenProperties DEF TInv, LrtTypes, GotJobToDo, OInv
<1>2. jobQueueIndex[l] + 1 \in DOMAIN jobQueue[l]
  BY <1>1, LenProperties
<1>3. NextJob(l) \in Jobs /\ mappedPE[NextJob(l)] = l /\ jobID[NextJob(l)] = jobQueueIndex[l]
  <2>1. /\ NextJob(l) \in Jobs /\ mappedPE[NextJob(l)] = l
        /\ jobID[NextJob(l)] = (jobQueueIndex[l] + 1) - 1
    BY <1>1, <1>2, ElementOfSeq DEF JobQueueInOrder, NextJob
  <2> QED BY <1>1, <2>1
<1>4. ~Rested(l)
  BY <1>1, EmptySeq DEF Rested, Blank
<1>5. jobQueueIndex[l] = jobIx[l] + 1
  <2>1. jobQueueIndex[l] = jobIx[l] + 1 + 0
    BY <1>1 DEF JobQueueInOrder
  <2> QED BY <1>1, <2>1 DEF Stamp
<1>6. ~HasRun(NextJob(l))
  <2>1. HasRun(NextJob(l)) => jobID[NextJob(l)] <= jobIx[l]
    BY <1>1, <1>3, <1>4 DEF Progress, JobsOf
  <2> QED BY <1>1, <1>3, <1>5, <2>1 DEF Stamp
<1> QED BY <1>3, <1>4, <1>6 DEF JobsOf

LEMMA StartJobInOrder ==
  ASSUME TInv, TInv', OInv, NEW l \in LRT, StartJob(l)
  PROVE  OInv'
<1>0. PICK j : j = NextJob(l)
  OBVIOUS
<1>1. /\ unposted[l] = -1 /\ pc[l] = "drain" /\ Drained(l) /\ GotJobToDo(l)
      /\ CompareLRTJobStamps(l, j)
      /\ jobQueueIndex' = [jobQueueIndex EXCEPT ![l] = @ + 1]
      /\ pc' = [pc EXCEPT ![l] = "exec"]
      /\ UNCHANGED <<queueVars, jobQueue, jobIx, lastJobID, jobStamps, grtVars, run, toNotify, ran>>
  BY <1>0 DEF StartJob, Drained, At
<1>2. /\ pc \in [LRT -> LrtPC \cup GrtPC] /\ jobQueueIndex \in [LRT -> Nat]
      /\ jobStamps \in [LRT -> [LRT -> Stamp]] /\ toNotify \in [LRT -> SUBSET LRT]
      /\ jobIx \in [LRT -> Stamp] /\ jobQueue[l] \in Seq(Jobs)
      /\ Counted /\ Progress /\ JobQueueInOrder /\ MessagesInOrder /\ ToNotifyAreNews
      /\ HeldAreTrue /\ WaitsAreOver /\ LastIDs /\ GrtPhases
      /\ FinishedAreRested(notifQueue[nLrt]) /\ grt \in LRT
  BY ConstantTypes DEF TInv, LrtTypes, OInv
<1>3. j \in JobsOf(l) /\ ~HasRun(j) /\ jobID[j] = jobQueueIndex[l] /\ ~Rested(l)
  BY <1>0, <1>1, NextJobIsNext
<1>4. j \in Jobs /\ mappedPE[j] = l /\ jobID[j] \in Nat
  BY <1>3, ScheduleFacts
<1>5. /\ \A p : HasRun(p)' <=> HasRun(p)
      /\ \A i, s : StampIsTrue(i, s)' <=> StampIsTrue(i, s)
  BY <1>1 DEF HasRun, StampIsTrue, grtVars
<1>6. \A p \in Jobs : Waiting(p)' <=> Waiting(p) /\ p # j
  <2> TAKE p \in Jobs
  <2>0. mappedPE[p] \in LRT /\ jobID[p] \in Nat
    BY ConstantTypes, ScheduleFacts
  <2>1. CASE mappedPE[p] # l
    <3>1. jobQueueIndex'[mappedPE[p]] = jobQueueIndex[mappedPE[p]]
      BY <1>1, <1>2, <2>0, <2>1
    <3> QED BY <1>4, <1>5, <2>1, <3>1 DEF Waiting
  <2>2. CASE mappedPE[p] = l
    <3>1. jobQueueIndex'[l] = jobQueueIndex[l] + 1 /\ jobQueueIndex[l] \in Nat
      BY <1>1, <1>2
    <3>2. jobID[p] = jobID[j] => p = j
      BY <1>4, <2>2, ScheduleFacts
    <3>3. jobQueueIndex'[l] <= jobID[p] <=> jobQueueIndex[l] <= jobID[p] /\ p # j
      BY <1>3, <2>0, <3>1, <3>2
    <3> QED BY <1>5, <2>2, <3>3 DEF Waiting
  <2> QED BY <2>1, <2>2
<1>7. \A k \in LRT, i \in LRT, s \in Stamp :
        jobStamps[k][i] < s /\ Awaited(k, i, s) => Awaited(k, i, s)'
  <2> SUFFICES ASSUME NEW k \in LRT, NEW i \in LRT, NEW s \in Stamp,
                      jobStamps[k][i] < s, Awaited(k, i, s)
               PROVE  Awaited(k, i, s)'
    OBVIOUS
  <2>1. PICK p \in JobsOf(k) : jobs2Wait[p][i] = s /\ Waiting(p)
    BY DEF Awaited
  <2>2. p \in Jobs /\ mappedPE[p] = k
    BY <2>1 DEF JobsOf
  <2>3. p # j
    <3>1. CASE k # l
      BY <1>4, <2>2, <3>1
    <3>2. CASE k = l
      <4>1. jobStamps[l][i] \in Stamp
        BY <1>2
      <4>2. s >= 0
        BY <3>2, <4>1 DEF Stamp
      <4>3. p = j => s <= jobStamps[l][i]
        BY <1>1, <2>1, <4>2 DEF CompareLRTJobStamps
      <4> QED BY <3>2, <4>1, <4>3 DEF Stamp
    <3> QED BY <3>1, <3>2
  <2>4. Waiting(p)'
    BY <1>6, <2>1, <2>2, <2>3
  <2> QED BY <2>1, <2>4 DEF Awaited, JobsOf
<1>8. \A k \in LRT : k # l => (Blank(k)' <=> Blank(k)) /\ (Rested(k)' <=> Rested(k))
  <2>1. \A k \in LRT : k # l => pc'[k] = pc[k] /\ jobQueueIndex'[k] = jobQueueIndex[k]
    BY <1>1, <1>2
  <2>2. \A k \in LRT : k # l => (Blank(k)' <=> Blank(k))
    BY <1>1, <2>1 DEF Blank
  <2> QED BY <1>5, <2>2 DEF Rested, JobsOf
<1>9. ~Rested(l)'
  BY <1>3, <1>5 DEF Rested, JobsOf
<1>10. SentJobs' = SentJobs
  <2>1. pc'[grt] = "recv" <=> pc[grt] = "recv"
    BY <1>1, <1>2
  <2> QED BY <1>1, <2>1 DEF SentJobs, grtVars
<1>11. Counted' /\ HeldAreTrue'
  <2>1. Counted'
    BY <1>1, <1>2 DEF Counted, grtVars
  <2>2. HeldAreTrue'
    BY <1>1, <1>2, <1>5 DEF HeldAreTrue, JobsOf
  <2> QED BY <2>1, <2>2
<1>12. Progress'
  BY <1>1, <1>2, <1>3, <1>5, <1>8 DEF Progress, JobsOf
<1>13. JobQueueInOrder'
  <2> SUFFICES ASSUME NEW k \in LRT
               PROVE  (/\ \A n \in DOMAIN jobQueue[k] : /\ mappedPE[jobQueue[k][n]] = k
                                     /\ jobID[jobQueue[k][n]] = n - 1
                                     /\ jobQueue[k][n] <= SentJobs
                       /\ jobQueueIndex[k] <= Len(jobQueue[k])
                       /\ jobQueueIndex[k] = jobIx[k] + 1 + IF pc[k] = "exec" THEN 1 ELSE 0
                       /\ pc[k] \in {"exec", "notify"} => jobQueueIndex[k] > 0)'
    BY DEF JobQueueInOrder
  <2>1. CASE k # l
    BY <1>1, <1>2, <1>10, <2>1 DEF JobQueueInOrder
  <2>2. CASE k = l
    <3>1. /\ jobQueueIndex'[l] = jobQueueIndex[l] + 1 /\ jobQueueIndex[l] \in Nat
          /\ pc'[l] = "exec" /\ jobIx[l] \in Int /\ Len(jobQueue[l]) \in Nat
      BY <1>1, <1>2, LenProperties DEF Stamp
    <3>2. jobQueueIndex[l] = jobIx[l] + 1 + 0
      BY <1>1, <1>2 DEF JobQueueInOrder
    <3>3. jobQueueIndex[l] < Len(jobQueue[l])
      BY <1>1 DEF GotJobToDo
    <3>4. /\ jobQueueIndex'[l] <= Len(jobQueue[l]) /\ jobQueueIndex'[l] > 0
          /\ jobQueueIndex'[l] = jobIx[l] + 1 + 1
      BY <3>1, <3>2, <3>3
    <3> QED BY <1>1, <1>2, <1>10, <2>2, <3>1, <3>4 DEF JobQueueInOrder
  <2> QED BY <2>1, <2>2
<1>14. MessagesInOrder'
  <2> SUFFICES ASSUME NEW k \in LRT
               PROVE  AddsInOrder(k, notifQueue[k])' /\ UpdatesAreNews(k, notifQueue[k])'
    BY DEF MessagesInOrder
  <2>1. PICK q : q = notifQueue[k]
    OBVIOUS
  <2>2. q \in Seq(MessageType) /\ q = notifQueue'[k] /\ AddsInOrder(k, q) /\ UpdatesAreNews(k, q)
    BY <1>1, <1>2, <2>1, QueueDomains DEF MessagesInOrder, queueVars
  <2>3. AddsInOrder(k, q)'
    BY <1>1, <1>5, <1>10, <2>2, AddsStay
  <2>4. UpdatesAreNews(k, q)'
    BY <1>1, <1>5, <1>7, <2>2, UpdatesStay
  <2>5. AddsInOrder(k, notifQueue[k])'
    BY <2>2, <2>3 DEF AddsInOrder
  <2>6. UpdatesAreNews(k, notifQueue[k])'
    BY <2>2, <2>4 DEF UpdatesAreNews
  <2> QED BY <2>5, <2>6
<1>15. ToNotifyAreNews'
  <2> SUFFICES ASSUME NEW i \in LRT, NEW k \in toNotify[i]
               PROVE  (/\ pc[i] = "notify" /\ k # i
                       /\ jobStamps[k][i] < jobIx[i] /\ Awaited(k, i, jobIx[i])
                       /\ \A n \in DOMAIN notifQueue[k] :
                            notifQueue[k][n].subType = "JOB_UPDATE_JOBSTAMP" /\ notifQueue[k][n].lrtID = i
                              => notifQueue[k][n].index < jobIx[i])'
    BY <1>1 DEF ToNotifyAreNews
  <2>1. /\ pc[i] = "notify" /\ k # i /\ jobStamps[k][i] < jobIx[i] /\ Awaited(k, i, jobIx[i])
        /\ \A n \in DOMAIN notifQueue[k] :
             notifQueue[k][n].subType = "JOB_UPDATE_JOBSTAMP" /\ notifQueue[k][n].lrtID = i
               => notifQueue[k][n].index < jobIx[i]
    BY <1>2 DEF ToNotifyAreNews
  <2>2. k \in LRT /\ jobIx[i] \in Stamp /\ i # l
    BY <1>1, <1>2, <2>1
  <2>3. PICK s \in Stamp : s = jobIx[i]
    BY <2>2
  <2>4. Awaited(k, i, s)'
    BY <1>7, <2>1, <2>2, <2>3
  <2>5. Awaited(k, i, jobIx[i])'
    BY <1>1, <2>3, <2>4 DEF Awaited
  <2>6. pc'[i] = "notify"
    BY <1>1, <1>2, <2>1, <2>2
  <2> QED BY <1>1, <2>1, <2>5, <2>6 DEF queueVars
<1>16. WaitsAreOver'
  <2> SUFFICES ASSUME NEW i \in Jobs, ~Waiting(i)', NEW p \in Jobs, mappedPE[p] # mappedPE[i],
                      jobID[p] <= jobs2Wait[i][mappedPE[p]]
               PROVE  HasRun(p)'
    BY DEF WaitsAreOver
  <2>1. CASE i # j
    BY <1>2, <1>5, <1>6, <2>1 DEF WaitsAreOver
  <2>2. CASE i = j
    <3>1. /\ mappedPE[p] \in LRT /\ jobID[p] \in Nat
          /\ jobs2Wait[j][mappedPE[p]] \in Nat \cup {-1}
      <4>1. jobs2Wait[j] \in [LRT -> Nat \cup {-1}]
        BY <1>4, ScheduleTypes
      <4> QED BY <4>1, ConstantTypes, ScheduleFacts
    <3>2. jobs2Wait[j][mappedPE[p]] >= 0
      BY <2>2, <3>1
    <3>3. jobs2Wait[j][mappedPE[p]] <= jobStamps[l][mappedPE[p]]
      BY <1>1, <3>1, <3>2 DEF CompareLRTJobStamps
    <3>4. jobStamps[l][mappedPE[p]] \in Int
      BY <1>2, <3>1 DEF Stamp
    <3>5. jobID[p] <= jobStamps[l][mappedPE[p]]
      BY <2>2, <3>1, <3>2, <3>3, <3>4
    <3>6. HasRun(p)
      BY <1>2, <3>1, <3>5 DEF HeldAreTrue, StampIsTrue, HasRun
    <3> QED BY <1>5, <3>6
  <2> QED BY <2>1, <2>2
<1>17. LastIDs' /\ (HasEnd(grt)' <=> HasEnd(grt))
  BY <1>1, <1>2 DEF LastIDs, HasEnd, IsEnd, queueVars
<1>18. GrtPhases'
  <2>1. CASE l # grt
    <3>1. pc'[grt] = pc[grt]
      BY <1>1, <1>2, <2>1
    <3>2. pc[grt] \notin {"idle", "stop", "done"}
      BY <1>2, <1>3 DEF GrtPhases
    <3> QED BY <1>1, <1>2, <1>5, <1>8, <1>17, <2>1, <3>1, <3>2 DEF GrtPhases, JobsOf, grtVars, queueVars
  <2>2. CASE l = grt
    <3>1. pc'[grt] = "exec" /\ nSentJobs' = NJobs
      BY <1>1, <1>2, <2>2 DEF GrtPhases, LrtPC, grtVars
    <3> QED BY <1>1, <1>2, <1>17, <2>2, <3>1 DEF GrtPhases
  <2> QED BY <2>1, <2>2
<1>19. FinishedAreRested(notifQueue[nLrt])'
  <2>1. PICK r : r = notifQueue[nLrt]
    OBVIOUS
  <2>2. /\ \A k \in LRT : Rested(k) => Rested(k)'
        /\ r \in Seq(MessageType) /\ DOMAIN r \subseteq Nat /\ r = notifQueue'[nLrt]
    BY <1>1, <1>3, <1>8, <2>1, QueueDomains, ConstantTypes DEF queueVars
  <2>3. /\ pc[grt] = "recv" => pc'[grt] = "recv"
        /\ pc'[grt] \in {"idle", "stop", "done"} => pc[grt] \in {"idle", "stop", "done"}
        /\ nFinishedPE' = nFinishedPE
    BY <1>1, <1>2 DEF grtVars
  <2>4. FinishedAreRested(r)'
    BY <1>2, <2>1, <2>2, <2>3, FinishedKept, SameQueue
  <2> QED BY <2>2, <2>4 DEF FinishedAreRested
<1> QED BY <1>11, <1>12, <1>13, <1>14, <1>15, <1>16, <1>17, <1>18, <1>19 DEF OInv

(* The job that executes is the one after the last that has run.           *)
LEMMA CurrentJobIsNext ==
  ASSUME TInv, OInv, NEW l \in LRT, pc[l] = "exec"
  PROVE  /\ CurrentJob(l) \in JobsOf(l) /\ ~HasRun(CurrentJob(l)) /\ ~Waiting(CurrentJob(l))
         /\ jobID[CurrentJob(l)] = jobIx[l] + 1 /\ ~Rested(l)
         /\ jobID[CurrentJob(l)] < Len(jobQueue[l]) /\ CurrentJob(l) <= SentJobs
<1>1. /\ jobQueue[l] \in Seq(Jobs) /\ jobQueueIndex[l] \in Nat /\ jobIx[l] \in Stamp
      /\ jobQueueIndex[l] \in DOMAIN jobQueue[l] /\ JobQueueInOrder /\ Progress
      /\ jobQueueIndex[l] <= Len(jobQueue[l]) /\ Len(jobQueue[l]) \in Nat
  BY LenProperties DEF TInv, LrtTypes, ExecutingIsQueued, OInv
<1>2. /\ CurrentJob(l) \in Jobs /\ mappedPE[CurrentJob(l)] = l /\ CurrentJob(l) <= SentJobs
      /\ jobID[CurrentJob(l)] = jobQueueIndex[l] - 1
  BY <1>1, ElementOfSeq DEF JobQueueInOrder, CurrentJob
<1>3. jobQueueIndex[l] = jobIx[l] + 1 + 1
  BY <1>1 DEF JobQueueInOrder
<1>4. jobID[CurrentJob(l)] = jobIx[l] + 1 /\ jobIx[l] \in Int /\ jobIx[l] >= -1
  BY <1>1, <1>2, <1>3 DEF Stamp
<1>5. ~Rested(l)
  BY DEF Rested, Blank
<1>6. ~HasRun(CurrentJob(l))
  <2>1. HasRun(CurrentJob(l)) => jobID[CurrentJob(l)] <= jobIx[l]
    BY <1>1, <1>2, <1>5 DEF Progress, JobsOf
  <2> QED BY <1>4, <2>1
<1>7. ~Waiting(CurrentJob(l))
  BY <1>1, <1>2 DEF Waiting
<1>8. jobID[CurrentJob(l)] < Len(jobQueue[l])
  BY <1>1, <1>2
<1> QED BY <1>2, <1>4, <1>5, <1>6, <1>7, <1>8 DEF JobsOf

LEMMA FinishJobInOrder ==
  ASSUME TInv, TInv', OInv, NEW l \in LRT, FinishJob(l)
  PROVE  OInv'
<1>0. PICK j : j = CurrentJob(l)
  OBVIOUS
<1>1. /\ unposted[l] = -1 /\ pc[l] = "exec"
      /\ ran' = [ran EXCEPT ![j] = @ + 1]
      /\ (Push(l, nLrt, Message("TRACE_LRT", l, j)) \/ UNCHANGED queueVars)
      /\ jobIx' = [jobIx EXCEPT ![l] = @ + 1]
      /\ jobStamps' = [jobStamps EXCEPT ![l][l] = jobIx[l] + 1]
      /\ toNotify' = [toNotify EXCEPT ![l] = {i \in LRT : i # l /\ lrts2Notify[j][i]}]
      /\ pc' = [pc EXCEPT ![l] = "notify"]
      /\ UNCHANGED <<jobQueue, jobQueueIndex, lastJobID, grtVars, run>>
  BY <1>0 DEF FinishJob, At, LrtsToNotify
<1>2. /\ pc \in [LRT -> LrtPC \cup GrtPC] /\ jobQueueIndex \in [LRT -> Nat]
      /\ jobStamps \in [LRT -> [LRT -> Stamp]] /\ toNotify \in [LRT -> SUBSET LRT]
      /\ jobIx \in [LRT -> Stamp] /\ jobQueue[l] \in Seq(Jobs) /\ ran \in [Jobs -> Nat]
      /\ Counted /\ Progress /\ JobQueueInOrder /\ MessagesInOrder /\ ToNotifyAreNews
      /\ HeldAreTrue /\ WaitsAreOver /\ LastIDs /\ GrtPhases
      /\ FinishedAreRested(notifQueue[nLrt]) /\ grt \in LRT /\ iteration \in Nat
  BY ConstantTypes DEF TInv, LrtTypes, GrtTypes, OInv
<1>3. /\ j \in JobsOf(l) /\ ~HasRun(j) /\ ~Waiting(j) /\ jobID[j] = jobIx[l] + 1 /\ ~Rested(l)
      /\ jobID[j] < Len(jobQueue[l]) /\ j <= SentJobs
  BY <1>0, <1>1, CurrentJobIsNext
<1>4. j \in Jobs /\ mappedPE[j] = l /\ jobID[j] \in Nat /\ jobIx[l] \in Int /\ Len(jobQueue[l]) \in Nat
  BY <1>2, <1>3, ScheduleFacts, LenProperties DEF Stamp
<1>5. \A p \in Jobs : HasRun(p)' <=> HasRun(p) \/ p = j
  <2>1. ran[j] + 1 = iteration /\ iteration' = iteration
    BY <1>1, <1>2, <1>3, <1>4 DEF Counted, HasRun, grtVars
  <2> QED BY <1>1, <1>2, <1>4, <2>1 DEF HasRun
<1>6. \A p \in Jobs : Waiting(p)' <=> Waiting(p)
  BY <1>1, <1>3, <1>5 DEF Waiting
<1>7. /\ \A k, i, s : Awaited(k, i, s) => Awaited(k, i, s)'
      /\ \A i, s : StampIsTrue(i, s) => StampIsTrue(i, s)'
  <2>1. \A k, i, s : Awaited(k, i, s) => Awaited(k, i, s)'
    BY <1>6 DEF Awaited, JobsOf
  <2>2. \A i, s : StampIsTrue(i, s) => StampIsTrue(i, s)'
    BY <1>5 DEF StampIsTrue, HasRun
  <2> QED BY <2>1, <2>2
<1>8. \A k \in LRT : k # l => (Blank(k)' <=> Blank(k)) /\ (Rested(k) => Rested(k)')
  <2>1. \A k \in LRT : k # l => /\ pc'[k] = pc[k] /\ jobIx'[k] = jobIx[k]
                                /\ jobStamps'[k] = jobStamps[k]
    BY <1>1, <1>2
  <2>2. \A k \in LRT : k # l => (Blank(k)' <=> Blank(k))
    BY <1>1, <2>1 DEF Blank
  <2> QED BY <1>5, <2>2 DEF Rested, JobsOf
<1>9. SentJobs' = SentJobs
  <2>1. pc'[grt] = "recv" <=> pc[grt] = "recv"
    BY <1>1, <1>2
  <2> QED BY <1>1, <2>1 DEF SentJobs, grtVars
<1>10. \A k \in LRT : k # l => pc'[k] = pc[k] /\ jobIx'[k] = jobIx[k]
  BY <1>1, <1>2
<1>11. jobIx'[l] = jobIx[l] + 1 /\ jobStamps'[l][l] = jobIx[l] + 1 /\ pc'[l] = "notify"
  BY <1>1, <1>2
<1>12. /\ nLrt \in Queues /\ Message("TRACE_LRT", l, j) \in MessageType
       /\ nLrt # grt /\ Message("TRACE_LRT", l, j).subType = "TRACE_LRT"
  BY <1>4, JobMessages, ConstantTypes DEF Message
<1>13. /\ \A k \in LRT : notifQueue'[k] = notifQueue[k]
       /\ SameMessages(notifQueue[nLrt], notifQueue'[nLrt], {"LRT_FINISHED_ITERATION"})
  <2>1. CASE UNCHANGED queueVars
    BY <1>2, <1>12, <2>1, SameQueue, QueueDomains DEF queueVars, GrtPhases
  <2>2. CASE Push(l, nLrt, Message("TRACE_LRT", l, j))
    <3>1. /\ \A r \in Queues : r # nLrt => notifQueue'[r] = notifQueue[r]
          /\ SameMessages(notifQueue[nLrt], notifQueue'[nLrt], {"LRT_FINISHED_ITERATION"})
      BY <1>12, <2>2, PushMoves
    <3> QED BY <3>1, ConstantTypes
  <2> QED BY <1>1, <2>1, <2>2
<1>14. Counted'
  BY <1>1, <1>2, <1>5 DEF Counted, HasRun, grtVars
<1>15. Progress'
  <2> SUFFICES ASSUME NEW k \in LRT, ~Rested(k)', NEW p \in JobsOf(k)
               PROVE  HasRun(p)' <=> jobID[p] <= jobIx'[k]
    BY DEF Progress, JobsOf
  <2>0. p \in Jobs /\ mappedPE[p] = k /\ jobID[p] \in Nat
    BY ScheduleFacts
  <2>1. CASE k # l
    <3>1. HasRun(p) <=> jobID[p] <= jobIx[k]
      BY <1>2, <1>8, <2>1 DEF Progress
    <3> QED BY <1>4, <1>5, <1>10, <2>0, <2>1, <3>1
  <2>2. CASE k = l
    <3>1. HasRun(p) <=> jobID[p] <= jobIx[l]
      BY <1>2, <1>3, <2>2 DEF Progress
    <3>2. jobID[p] = jobID[j] => p = j
      BY <1>4, <2>0, <2>2, ScheduleFacts
    <3> QED BY <1>3, <1>4, <1>5, <1>11, <2>0, <2>2, <3>1, <3>2
  <2> QED BY <2>1, <2>2
<1>16. JobQueueInOrder'
  <2> SUFFICES ASSUME NEW k \in LRT
               PROVE  (/\ \A n \in DOMAIN jobQueue[k] : /\ mappedPE[jobQueue[k][n]] = k
                                     /\ jobID[jobQueue[k][n]] = n - 1
                                     /\ jobQueue[k][n] <= SentJobs
                       /\ jobQueueIndex[k] <= Len(jobQueue[k])
                       /\ jobQueueIndex[k] = jobIx[k] + 1 + IF pc[k] = "exec" THEN 1 ELSE 0
                       /\ pc[k] \in {"exec", "notify"} => jobQueueIndex[k] > 0)'
    BY DEF JobQueueInOrder
  <2>1. CASE k # l
    BY <1>1, <1>2, <1>9, <1>10, <2>1 DEF JobQueueInOrder
  <2>2. CASE k = l
    <3>1. jobQueueIndex[l] = jobIx[l] + 1 + 1 /\ jobQueueIndex[l] > 0
      BY <1>1, <1>2 DEF JobQueueInOrder
    <3>2. jobQueueIndex'[l] = jobIx'[l] + 1 + 0
      BY <1>1, <1>4, <1>11, <3>1
    <3> QED BY <1>1, <1>2, <1>9, <1>11, <2>2, <3>1, <3>2 DEF JobQueueInOrder
  <2> QED BY <2>1, <2>2
<1>17. HeldAreTrue'
  <2> SUFFICES ASSUME NEW k \in LRT, NEW i \in LRT
               PROVE  StampIsTrue(i, jobStamps[k][i])' /\ (JobsOf(k) = {} => jobStamps'[k][i] = -1)
    BY DEF HeldAreTrue, JobsOf
  <2>1. CASE k = l /\ i = l
    <3>1. ASSUME NEW p \in Jobs, mappedPE[p] = l, jobID[p] <= jobIx[l] + 1
          PROVE  HasRun(p)'
      <4>1. jobID[p] \in Nat /\ (jobID[p] = jobID[j] => p = j)
        BY <1>4, <3>1, ScheduleFacts
      <4>2. jobID[p] <= jobIx[l] => HasRun(p)
        BY <1>2, <1>3, <3>1 DEF Progress, JobsOf
      <4> QED BY <1>3, <1>4, <1>5, <3>1, <4>1, <4>2
    <3> QED BY <1>3, <1>11, <2>1, <3>1 DEF StampIsTrue, HasRun
  <2>2. CASE ~(k = l /\ i = l)
    <3>1. jobStamps'[k][i] = jobStamps[k][i]
      BY <1>1, <1>2, <2>2
    <3>2. StampIsTrue(i, jobStamps[k][i]) /\ (JobsOf(k) = {} => jobStamps[k][i] = -1)
      BY <1>2 DEF HeldAreTrue
    <3>3. StampIsTrue(i, jobStamps[k][i])'
      BY <1>5, <3>1, <3>2 DEF StampIsTrue, HasRun
    <3> QED BY <3>1, <3>2, <3>3
  <2> QED BY <2>1, <2>2
<1>18. MessagesInOrder'
  <2> SUFFICES ASSUME NEW k \in LRT
               PROVE  AddsInOrder(k, notifQueue[k])' /\ UpdatesAreNews(k, notifQueue[k])'
    BY DEF MessagesInOrder
  <2>1. PICK q : q = notifQueue[k]
    OBVIOUS
  <2>2. q \in Seq(MessageType) /\ q = notifQueue'[k] /\ AddsInOrder(k, q) /\ UpdatesAreNews(k, q)
    BY <1>2, <1>13, <2>1, QueueDomains DEF MessagesInOrder
  <2>3. \A p \in JobsOf(k) : Len(jobQueue[k]) <= jobID[p] => (HasRun(p)' <=> HasRun(p))
    <3> SUFFICES ASSUME NEW p \in JobsOf(k), Len(jobQueue[k]) <= jobID[p] PROVE p # j
      BY <1>5 DEF JobsOf
    <3> QED BY <1>3, <1>4 DEF JobsOf
  <2>4. AddsInOrder(k, q)'
    BY <1>1, <1>9, <2>2, <2>3, AddsStay
  <2>5. \A i \in LRT \ {k} : jobStamps'[k][i] = jobStamps[k][i]
    BY <1>1, <1>2
  <2>6. UpdatesAreNews(k, q)'
    BY <1>7, <2>2, <2>5, UpdatesStay
  <2>7. AddsInOrder(k, notifQueue[k])'
    BY <2>2, <2>4 DEF AddsInOrder
  <2>8. UpdatesAreNews(k, notifQueue[k])'
    BY <2>2, <2>6 DEF UpdatesAreNews
  <2> QED BY <2>7, <2>8
<1>19. ToNotifyAreNews'
  <2> SUFFICES ASSUME NEW i \in LRT, NEW k \in toNotify'[i]
               PROVE  (/\ pc[i] = "notify" /\ k # i
                       /\ jobStamps[k][i] < jobIx[i] /\ Awaited(k, i, jobIx[i])
                       /\ \A n \in DOMAIN notifQueue[k] :
                            notifQueue[k][n].subType = "JOB_UPDATE_JOBSTAMP" /\ notifQueue[k][n].lrtID = i
                              => notifQueue[k][n].index < jobIx[i])'
    BY DEF ToNotifyAreNews
  <2>1. CASE i # l
    <3>1. k \in toNotify[i]
      BY <1>1, <1>2, <2>1
    <3>2. /\ pc[i] = "notify" /\ k # i /\ jobStamps[k][i] < jobIx[i] /\ Awaited(k, i, jobIx[i])
          /\ \A n \in DOMAIN notifQueue[k] :
               notifQueue[k][n].subType = "JOB_UPDATE_JOBSTAMP" /\ notifQueue[k][n].lrtID = i
                 => notifQueue[k][n].index < jobIx[i]
      BY <1>2, <3>1 DEF ToNotifyAreNews
    <3>3. k \in LRT /\ jobStamps'[k][i] = jobStamps[k][i] /\ notifQueue'[k] = notifQueue[k]
      BY <1>1, <1>2, <1>13, <2>1, <3>1
    <3>4. PICK s : s = jobIx[i]
      OBVIOUS
    <3>5. Awaited(k, i, s)'
      BY <1>7, <3>2, <3>4
    <3>6. Awaited(k, i, jobIx[i])'
      BY <1>10, <2>1, <3>4, <3>5 DEF Awaited
    <3> QED BY <1>10, <2>1, <3>2, <3>3, <3>6
  <2>2. CASE i = l
    <3>1. k \in LRT /\ k # l /\ lrts2Notify[j][k]
      BY <1>1, <1>2, <2>2
    <3>2. PICK p \in Jobs : mappedPE[p] = k /\ jobs2Wait[p][l] = jobID[j]
      BY <1>4, <3>1, ScheduleAssumption DEF NotifiesMatchWaits
    <3>3. Waiting(p)
      <4>1. jobID[j] <= jobs2Wait[p][mappedPE[j]] /\ mappedPE[j] # mappedPE[p]
        BY <1>4, <3>1, <3>2
      <4> QED BY <1>2, <1>3, <1>4, <4>1 DEF WaitsAreOver
    <3>4. PICK s : s = jobIx[l] + 1
      OBVIOUS
    <3>5. Awaited(k, l, s)'
      BY <1>3, <1>6, <3>2, <3>3, <3>4 DEF Awaited, JobsOf
    <3>6. Awaited(k, l, jobIx[l])'
      BY <1>11, <3>4, <3>5 DEF Awaited
    <3>7. \A x \in Int : StampIsTrue(l, x) => x < jobIx[l] + 1
      BY <1>3, <1>4 DEF StampIsTrue, HasRun
    <3>8. jobStamps'[k][l] < jobIx'[l]
      <4>1. jobStamps'[k][l] = jobStamps[k][l] /\ jobStamps[k][l] \in Int
        BY <1>1, <1>2, <3>1 DEF Stamp
      <4>2. StampIsTrue(l, jobStamps[k][l])
        BY <1>2, <3>1 DEF HeldAreTrue
      <4> QED BY <1>11, <3>7, <4>1, <4>2
    <3>9. ASSUME NEW n \in DOMAIN notifQueue[k],
                 notifQueue[k][n].subType = "JOB_UPDATE_JOBSTAMP", notifQueue[k][n].lrtID = l
          PROVE  notifQueue[k][n].index < jobIx[l] + 1
      <4>1. StampIsTrue(l, notifQueue[k][n].index)
        BY <1>2, <3>1, <3>9 DEF MessagesInOrder, UpdatesAreNews
      <4>2. notifQueue[k][n] \in MessageType
        BY <3>1, <3>9, QueueDomains, ElementOfSeq
      <4>3. notifQueue[k][n].index \in Int
        BY <3>9, <4>2, MessageFields, ConstantTypes
      <4> QED BY <3>7, <4>1, <4>3
    <3> QED BY <1>11, <1>13, <2>2, <3>1, <3>6, <3>8, <3>9
  <2> QED BY <2>1, <2>2
<1>20. WaitsAreOver'
  BY <1>2, <1>5, <1>6 DEF WaitsAreOver
<1>21. LastIDs' /\ (HasEnd(grt)' <=> HasEnd(grt))
  <2>1. lastJobID' = lastJobID /\ LastIDs /\ grt \in LRT
    BY <1>1, <1>2
  <2>2. LastIDs'
    BY <1>13, <2>1 DEF LastIDs, IsEnd
  <2>3. HasEnd(grt)' <=> HasEnd(grt)
    BY <1>13, <2>1 DEF HasEnd
  <2> QED BY <2>2, <2>3
<1>22. GrtPhases'
  <2>1. UNCHANGED <<nSentJobs, sentTo, lastJobID, jobQueue>>
    BY <1>1 DEF grtVars
  <2>2. CASE l # grt
    <3>1. pc'[grt] = pc[grt] /\ pc[grt] \notin {"idle", "stop", "done"}
      BY <1>1, <1>2, <1>3, <2>2 DEF GrtPhases
    <3>2. pc[grt] = "send" => \A p \in Jobs : nSentJobs < p => ~HasRun(p)'
      <4>1. pc[grt] = "send" => SentJobs = nSentJobs
        BY DEF SentJobs
      <4>2. nSentJobs \in Int /\ j \in Int
        BY <1>4, ScheduleTypes DEF TInv, GrtTypes, Jobs
      <4> QED BY <1>2, <1>3, <1>5, <4>1, <4>2 DEF GrtPhases
    <3> QED BY <1>2, <1>8, <1>13, <1>21, <2>1, <2>2, <3>1, <3>2 DEF GrtPhases, JobsOf
  <2>3. CASE l = grt
    BY <1>1, <1>2, <1>11, <1>21, <2>1, <2>3 DEF GrtPhases, LrtPC
  <2> QED BY <2>2, <2>3
<1>23. FinishedAreRested(notifQueue[nLrt])'
  <2>1. PICK r : r = notifQueue'[nLrt]
    OBVIOUS
  <2>2. /\ \A k \in LRT : Rested(k) => Rested(k)'
        /\ DOMAIN notifQueue[nLrt] \subseteq Nat /\ DOMAIN r \subseteq Nat
    BY <1>3, <1>8, <2>1, QueueDomains, QueueDomainsNext, ConstantTypes
  <2>3. /\ pc[grt] = "recv" => pc'[grt] = "recv"
        /\ pc'[grt] \in {"idle", "stop", "done"} => pc[grt] \in {"idle", "stop", "done"}
        /\ nFinishedPE' = nFinishedPE
    BY <1>1, <1>2 DEF grtVars
  <2>4. FinishedAreRested(r)'
    BY <1>2, <1>13, <2>1, <2>2, <2>3, FinishedKept
  <2> QED BY <2>1, <2>4 DEF FinishedAreRested
<1> QED BY <1>14, <1>15, <1>16, <1>17, <1>18, <1>19, <1>20, <1>21, <1>22, <1>23 DEF OInv

LEMMA NotifyInOrder ==
  ASSUME TInv, TInv', OInv, NEW l \in LRT, NotifyLRTJobStamp(l)
  PROVE  OInv'
<1>0. PICK s : s = jobIx[l]
  OBVIOUS
<1>1. PICK i \in toNotify[l] :
        /\ unposted[l] = -1 /\ pc[l] = "notify"
        /\ Push(l, i, Message("JOB_UPDATE_JOBSTAMP", l, s))
        /\ toNotify' = [toNotify EXCEPT ![l] = @ \ {i}]
        /\ UNCHANGED <<lrtVars, grtVars, pc, run, ran>>
  BY <1>0 DEF NotifyLRTJobStamp, At
<1>2. /\ jobStamps \in [LRT -> [LRT -> Stamp]] /\ toNotify \in [LRT -> SUBSET LRT]
      /\ jobIx \in [LRT -> Stamp]
      /\ Counted /\ Progress /\ JobQueueInOrder /\ MessagesInOrder /\ ToNotifyAreNews
      /\ HeldAreTrue /\ WaitsAreOver /\ LastIDs /\ GrtPhases
      /\ FinishedAreRested(notifQueue[nLrt]) /\ grt \in LRT /\ LrtTypes
  BY ConstantTypes DEF TInv, LrtTypes, OInv
<1>3. SameJobs
  BY <1>1 DEF SameJobs, SameStamps, SameRuns, lrtVars, grtVars
<1>4. /\ i \in LRT /\ i \in Queues /\ s \in Stamp /\ i # l
      /\ jobStamps[i][l] < s /\ Awaited(i, l, s)
      /\ \A n \in DOMAIN notifQueue[i] :
           notifQueue[i][n].subType = "JOB_UPDATE_JOBSTAMP" /\ notifQueue[i][n].lrtID = l
             => notifQueue[i][n].index < s
  BY <1>0, <1>1, <1>2, ConstantTypes DEF ToNotifyAreNews
<1>5. PICK m \in MessageType :
        /\ Push(l, i, m) /\ m.subType = "JOB_UPDATE_JOBSTAMP" /\ m.lrtID = l /\ m.index = s
  <2>1. Message("JOB_UPDATE_JOBSTAMP", l, s) \in MessageType
    BY <1>4, OtherMessages DEF SubTypes
  <2> QED BY <1>1, <2>1 DEF Message
<1>6. /\ notifQueue'[i] = Append(notifQueue[i], m)
      /\ \A r \in Queues : r # i => notifQueue'[r] = notifQueue[r]
      /\ \A r \in Queues : \A S : r # i \/ m.subType \notin S =>
           SameMessages(notifQueue[r], notifQueue'[r], S)
  BY <1>4, <1>5, PushMoves
<1>8. /\ \A k \in LRT : /\ SameMessages(notifQueue[k], notifQueue'[k], {"JOB_ADD"})
                        /\ SameMessages(notifQueue[k], notifQueue'[k], {"LRT_END_ITERATION"})
      /\ SameMessages(notifQueue[nLrt], notifQueue'[nLrt], {"LRT_FINISHED_ITERATION"})
  BY <1>5, <1>6, ConstantTypes
<1>9. SentJobs' = SentJobs /\ SentJobs \in Nat
  BY <1>1, ScheduleTypes DEF SentJobs, grtVars, TInv, GrtTypes
<1>10. JobQueueInOrder' /\ Counted' /\ Progress' /\ HeldAreTrue' /\ WaitsAreOver'
  BY <1>3, <1>9, SameJobsKeepQueue, SameJobsKeepParts
<1>11. StampIsTrue(l, s)
  <2>1. ~Rested(l)
    BY <1>1 DEF Rested, Blank
  <2> QED BY <1>0, <1>2, <2>1 DEF Progress, JobsOf, StampIsTrue, HasRun
<1>12. /\ DOMAIN notifQueue'[i] = 1..(Len(notifQueue[i]) + 1) /\ Len(notifQueue[i]) \in Nat
       /\ DOMAIN notifQueue[i] = 1..Len(notifQueue[i])
       /\ \A n \in DOMAIN notifQueue[i] : notifQueue'[i][n] = notifQueue[i][n]
       /\ notifQueue'[i][Len(notifQueue[i]) + 1] = m
  <2>1. notifQueue[i] \in Seq(MessageType)
    BY <1>4, QueueDomains
  <2> QED BY <1>6, <2>1, AppendProperties, LenProperties
<1>13. MessagesInOrder'
  <2> SUFFICES ASSUME NEW k \in LRT
               PROVE  AddsInOrder(k, notifQueue[k])' /\ UpdatesAreNews(k, notifQueue[k])'
    BY DEF MessagesInOrder
  <2>1. PICK r : r = notifQueue'[k]
    OBVIOUS
  <2>2. /\ DOMAIN notifQueue[k] \subseteq Nat /\ DOMAIN r \subseteq Nat
        /\ AddsInOrder(k, notifQueue[k]) /\ UpdatesAreNews(k, notifQueue[k])
    BY <1>2, <2>1, QueueDomains, QueueDomainsNext DEF MessagesInOrder
  <2>3. AddsInOrder(k, r)'
    BY <1>3, <1>8, <1>9, <2>1, <2>2, AddsKept DEF SameJobs, SameStamps
  <2>4. UpdatesAreNews(k, r)'
    <3>1. CASE k # i
      BY <1>3, <1>6, <2>1, <2>2, <3>1, UpdatesKept, SameQueue, QueueDomains DEF SameJobs, SameStamps
    <3>2. CASE k = i
      <4>0. PICK n : n = Len(notifQueue[i]) + 1
        OBVIOUS
      <4>1. /\ DOMAIN r = 1..n /\ n \in Nat /\ DOMAIN notifQueue[i] = 1..(n - 1) /\ r[n] = m
            /\ \A x \in 1..(n - 1) : r[x] = notifQueue[i][x]
        BY <1>12, <2>1, <3>2, <4>0
      <4>2. ASSUME NEW x \in DOMAIN r, r[x].subType = "JOB_UPDATE_JOBSTAMP"
            PROVE  LET p == r[x].lrtID  t == r[x].index IN
                   p # i /\ jobStamps[i][p]' < t /\ StampIsTrue(p, t)' /\ Awaited(i, p, t)'
        <5>1. PICK p, t : p = r[x].lrtID /\ t = r[x].index
          OBVIOUS
        <5>2. p # i /\ jobStamps[i][p] < t /\ StampIsTrue(p, t) /\ Awaited(i, p, t)
          <6>1. CASE x \in 1..(n - 1)
            BY <2>2, <3>2, <4>1, <4>2, <5>1, <6>1 DEF UpdatesAreNews
          <6>2. CASE x = n
            BY <1>4, <1>5, <1>11, <4>1, <5>1, <6>2
          <6> QED BY <4>1, <4>2, <6>1, <6>2
        <5>3. StampIsTrue(p, t)' /\ Awaited(i, p, t)' /\ jobStamps' = jobStamps
          BY <1>3, <5>2, SameRunsKeep DEF SameJobs, SameStamps
        <5> QED BY <5>1, <5>2, <5>3
      <4>3. ASSUME NEW x \in DOMAIN r, NEW y \in DOMAIN r, r[x].lrtID = r[y].lrtID, x < y,
                   r[x].subType = "JOB_UPDATE_JOBSTAMP", r[y].subType = "JOB_UPDATE_JOBSTAMP"
            PROVE  r[x].index < r[y].index
        <5>1. x \in 1..(n - 1) /\ (y = n \/ y \in 1..(n - 1))
          BY <4>1, <4>3
        <5>2. CASE y = n
          BY <1>4, <1>5, <4>1, <4>3, <5>1, <5>2
        <5>3. CASE y \in 1..(n - 1)
          BY <2>2, <3>2, <4>1, <4>3, <5>1, <5>3 DEF UpdatesAreNews
        <5> QED BY <5>1, <5>2, <5>3
      <4> QED BY <3>2, <4>2, <4>3 DEF UpdatesAreNews
    <3> QED BY <3>1, <3>2
  <2>5. AddsInOrder(k, notifQueue[k])'
    BY <2>1, <2>3 DEF AddsInOrder
  <2>6. UpdatesAreNews(k, notifQueue[k])'
    BY <2>1, <2>4 DEF UpdatesAreNews
  <2> QED BY <2>5, <2>6
<1>14. ToNotifyAreNews'
  <2> SUFFICES ASSUME NEW p \in LRT, NEW k \in toNotify'[p]
               PROVE  (/\ pc[p] = "notify" /\ k # p
                       /\ jobStamps[k][p] < jobIx[p] /\ Awaited(k, p, jobIx[p])
                       /\ \A n \in DOMAIN notifQueue[k] :
                            notifQueue[k][n].subType = "JOB_UPDATE_JOBSTAMP" /\ notifQueue[k][n].lrtID = p
                              => notifQueue[k][n].index < jobIx[p])'
    BY DEF ToNotifyAreNews
  <2>1. k \in toNotify[p] /\ k \in LRT /\ ~(p = l /\ k = i)
    BY <1>1, <1>2
  <2>2. /\ pc[p] = "notify" /\ k # p /\ jobStamps[k][p] < jobIx[p] /\ Awaited(k, p, jobIx[p])
        /\ \A n \in DOMAIN notifQueue[k] :
             notifQueue[k][n].subType = "JOB_UPDATE_JOBSTAMP" /\ notifQueue[k][n].lrtID = p
               => notifQueue[k][n].index < jobIx[p]
    BY <1>2, <2>1 DEF ToNotifyAreNews
  <2>3. PICK t : t = jobIx[p]
    OBVIOUS
  <2>4. Awaited(k, p, t)'
    BY <1>3, <2>2, <2>3, SameRunsKeep DEF SameJobs, SameStamps
  <2>5. Awaited(k, p, jobIx[p])'
    BY <1>1, <2>3, <2>4 DEF Awaited, lrtVars
  <2>6. ASSUME NEW n \in DOMAIN notifQueue'[k],
               notifQueue'[k][n].subType = "JOB_UPDATE_JOBSTAMP", notifQueue'[k][n].lrtID = p
        PROVE  notifQueue'[k][n].index < jobIx[p]
    <3>1. CASE k # i
      BY <1>6, <2>1, <2>2, <2>6, <3>1, ConstantTypes
    <3>2. CASE k = i
      <4>1. n # Len(notifQueue[i]) + 1
        BY <1>5, <1>12, <2>1, <2>6, <3>2
      <4> QED BY <1>12, <2>2, <2>6, <3>2, <4>1
    <3> QED BY <3>1, <3>2
  <2> QED BY <1>1, <2>2, <2>5, <2>6 DEF lrtVars
<1>15. LastIDs' /\ (HasEnd(grt)' <=> HasEnd(grt))
  BY <1>1, <1>2, <1>8, LastIDsKept DEF lrtVars
<1>16. GrtPhases'
  BY <1>1, <1>2, <1>3, <1>15, GrtPhasesKept DEF lrtVars, grtVars
<1>17. FinishedAreRested(notifQueue[nLrt])'
  <2>1. PICK r : r = notifQueue'[nLrt]
    OBVIOUS
  <2>2. /\ \A k \in LRT : Rested(k) => Rested(k)'
        /\ DOMAIN notifQueue[nLrt] \subseteq Nat /\ DOMAIN r \subseteq Nat
    BY <1>3, <2>1, SameJobsKeep, QueueDomains, QueueDomainsNext, ConstantTypes
  <2>3. pc' = pc /\ nFinishedPE' = nFinishedPE
    BY <1>1 DEF grtVars
  <2>4. FinishedAreRested(r)'
    BY <1>2, <1>8, <2>1, <2>2, <2>3, FinishedKept
  <2> QED BY <2>1, <2>4 DEF FinishedAreRested
<1> QED BY <1>10, <1>13, <1>14, <1>15, <1>16, <1>17 DEF OInv
=============================================================================

------------------------ MODULE JitRuntimeOrder_proofs ------------------------
(***************************************************************************)
(* The order of the jobs of a dynamic graph: whatever the rounds and the   *)
(* schedule, a job starts after the jobs it reads and after the            *)
(* configuration jobs of the rounds before, and iterations do not overlap. *)
(*                                                                         *)
(* A stamp is true when the job that it names, and those before it on its  *)
(* LRT, have run in this iteration.  Stamps are sent when they are true    *)
(* and nothing that happens before the next iteration makes them false;    *)
(* a stamp that survives the iteration does become false, which the code   *)
(* does not exclude (StampsAreReset, run JitRuntimeStale), nor that the    *)
(* GRT leaves run with work unread.  The theorems are about every schedule *)
(* in rounds and every choice of LazyPosters, up to the moment at which    *)
(* one of the two happens (JitRuntimeHistory): nothing else can break the  *)
(* order, and in the first iteration no stamp can.                         *)
(***************************************************************************)
EXTENDS JitRuntime_proofs, JitRuntimeHistory

JobsOf(l) == {j \in Jobs : mappedPE[j] = l}
HasRun(j) == ran[j] = iteration

(* All jobs of LRT i up to a stamp have run in this iteration.             *)
StampIsTrue(i, stamp) == \A p \in JobsOf(i) : jobID[p] <= stamp => HasRun(p)

(* An LRT that has cleared its state, and all of whose jobs have run.      *)
Blank(l) == jobQueue[l] = <<>> /\ jobQueueIndex[l] = 0 /\ jobIx[l] = -1
Rested(l) == Blank(l) /\ \A j \in JobsOf(l) : HasRun(j)

InJob == {"exec", "notify", "endpass", "broadcast"}
Outside == {"idle", "stop", "done"}

-----------------------------------------------------------------------------
(* The parts of the invariant.                                             *)

Counted == \A j \in Jobs : ran[j] = iteration \/ ran[j] + 1 = iteration

Progress ==
  \A l \in LRT : \/ Rested(l)
                 \/ \A j \in JobsOf(l) : HasRun(j) <=> jobID[j] <= jobIx[l]

JobQueueInOrder ==
  \A l \in LRT :
    /\ \A k \in DOMAIN jobQueue[l] : /\ mappedPE[jobQueue[l][k]] = l
                                     /\ jobID[jobQueue[l][k]] = k - 1
                                     /\ jobQueue[l][k] <= nSentJobs
    /\ jobQueueIndex[l] <= Len(jobQueue[l])
    /\ jobQueueIndex[l] = jobIx[l] + 1 + IF pc[l] = "exec" THEN 1 ELSE 0
    /\ pc[l] \in InJob => jobQueueIndex[l] > 0

(* The JOB_ADDs in queue q of LRT l: the jobs sent but not received.       *)
AddsInOrder(l, q) ==
  /\ \A k \in DOMAIN q : q[k].subType = "JOB_ADD" =>
       LET j == q[k].index IN
       mappedPE[j] = l /\ ~HasRun(j) /\ Len(jobQueue[l]) <= jobID[j] /\ j <= nSentJobs
  /\ \A k, m \in DOMAIN q :
       q[k].subType = "JOB_ADD" /\ q[m].subType = "JOB_ADD" /\ k < m => q[k].index < q[m].index
  /\ \A j \in JobsOf(l) :
       ~HasRun(j) /\ Len(jobQueue[l]) <= jobID[j] /\ j <= nSentJobs =>
         \E k \in DOMAIN q : q[k].subType = "JOB_ADD" /\ q[k].index = j
AddsAreOrdered == \A l \in LRT : AddsInOrder(l, notifQueue[l])

(* A stamp that an LRT holds, its own included, is true.                   *)
HeldAreTrue == \A l, i \in LRT : StampIsTrue(i, jobStamps[l][i])

(* A message of queue q is true, and the end of an iteration names the     *)
(* last job of the LRT.                                                    *)
Sound(m, q) ==
  /\ m.subType = "JOB_UPDATE_JOBSTAMP" => q # nLrt /\ StampIsTrue(m.lrtID, m.index)
  /\ m.subType = "JOB_SENT_PARAM" => HasRun(m.index)
  /\ m.subType = "LRT_END_ITERATION" => m.index = nJobPerPE[q] - 1
  /\ m.subType = "LRT_FINISHED_ITERATION" =>
       q = nLrt /\ m.lrtID \in Activated \ {grt} /\ Rested(m.lrtID)
MessagesAreSound == \A q \in Queues : \A k \in DOMAIN notifQueue[q] : Sound(notifQueue[q][k], q)

(* A round is planned when the configuration jobs of those before have run. *)
ConfigsHaveRun ==
  /\ \A c \in resolved : HasRun(c)
  /\ \A c \in Config : round[c] < planned => HasRun(c)

LastIDs == \A l \in LRT : lastJobID[l] \in {-1, nJobPerPE[l] - 1}

(* Where the GRT is in an iteration.                                       *)
HasEnd(l) == \E k \in DOMAIN notifQueue[l] : notifQueue[l][k].subType = "LRT_END_ITERATION"
GrtPhases ==
  /\ pc[grt] \in Outside => \A l \in LRT : Rested(l)
  /\ pc[grt] \notin Outside => \A j \in Jobs : nSentJobs < j => ~HasRun(j)
  /\ pc[grt] \notin {"announce", "send", "stop", "done"} => sentTo = 0
  /\ pc[grt] = "send" /\ planned < NRounds => sentTo = 0
  /\ pc[grt] = "send" /\ grt < sentTo => HasEnd(grt)
  /\ pc[grt] \in {"wait", "drain"} \cup InJob /\ planned = NRounds =>
       pc[grt] # "broadcast" /\ (HasEnd(grt) \/ lastJobID[grt] = nJobPerPE[grt] - 1)
  /\ pc[grt] = "recv" => Rested(grt)

(* The messages the GRT waits for, in queue q, and those it has received.  *)
IsFinishedOf(m, i) == m.subType = "LRT_FINISHED_ITERATION" /\ m.lrtID = i
FinishedFrom(i, q) == \E k \in DOMAIN q : IsFinishedOf(q[k], i)
FinishedOnce(i, q) == \A k, m \in DOMAIN q : IsFinishedOf(q[k], i) /\ IsFinishedOf(q[m], i) => k = m
FinishedAreCounted(q) ==
  /\ \A i \in LRT : FinishedOnce(i, q)
  /\ pc[grt] \in Outside => \A i \in LRT : ~FinishedFrom(i, q)
  /\ pc[grt] # "recv" => nFinishedPE = 0
  /\ \E F \in SUBSET (Activated \ {grt}) :
       /\ Cardinality(F) = nFinishedPE
       /\ \A i \in F : Rested(i) /\ ~FinishedFrom(i, q)

OInv ==
  /\ Counted /\ Progress /\ JobQueueInOrder /\ AddsAreOrdered /\ HeldAreTrue
  /\ MessagesAreSound /\ ConfigsHaveRun /\ LastIDs /\ GrtPhases
  /\ FinishedAreCounted(notifQueue[nLrt])

-----------------------------------------------------------------------------
LEMMA ScheduleFacts ==
  /\ \A j \in Jobs : jobID[j] \in Nat /\ jobID[j] < nJobPerPE[mappedPE[j]]
  /\ \A l \in LRT : nJobPerPE[l] \in Nat
  /\ \A l \in LRT : \A id \in Nat : id < nJobPerPE[l] => \E j \in JobsOf(l) : jobID[j] = id
  /\ \A i, j \in Jobs : mappedPE[i] = mappedPE[j] /\ jobID[i] = jobID[j] => i = j
  /\ \A i, j \in Jobs : mappedPE[i] = mappedPE[j] /\ jobID[i] < jobID[j] => i < j
  /\ \A l \in LRT : \A j \in JobsOf(l) : j \in Jobs /\ mappedPE[j] = l
<1>1. ConsecutiveIDs(Jobs, LRT, mappedPE, jobID, nJobPerPE)
  BY ScheduleAssumption
<1>2. Jobs \subseteq Int
  BY DEF Jobs
<1>3. /\ \A j \in Jobs : jobID[j] \in Nat /\ nJobPerPE[mappedPE[j]] \in Nat
      /\ \A l \in LRT : nJobPerPE[l] \in Nat
  BY ScheduleTypes, ConstantTypes
<1>4. \A j \in Jobs : jobID[j] < nJobPerPE[mappedPE[j]]
  BY <1>1, <1>3 DEF ConsecutiveIDs
<1>5. ASSUME NEW l \in LRT, NEW id \in Nat, id < nJobPerPE[l]
      PROVE  \E j \in JobsOf(l) : jobID[j] = id
  <2>1. id \in 0 .. nJobPerPE[l] - 1
    BY <1>3, <1>5
  <2> QED BY <1>1, <2>1 DEF ConsecutiveIDs, JobsOf
<1>6. ASSUME NEW i \in Jobs, NEW j \in Jobs, mappedPE[i] = mappedPE[j]
      PROVE  /\ jobID[i] = jobID[j] => i = j
             /\ jobID[i] < jobID[j] => i < j
  <2>1. i < j => jobID[i] < jobID[j]
    BY <1>1, <1>6 DEF ConsecutiveIDs
  <2>2. j < i => jobID[j] < jobID[i]
    BY <1>1, <1>6 DEF ConsecutiveIDs
  <2> QED BY <1>2, <1>3, <2>1, <2>2
<1> QED BY <1>3, <1>4, <1>5, <1>6 DEF JobsOf

(* Queue r holds the messages of queue q of subtype s, in order.           *)
Shifted(q, r, s, d) ==
  /\ \A k \in DOMAIN r : r[k].subType = s => k + d \in DOMAIN q /\ r[k] = q[k + d]
  /\ \A k \in DOMAIN q : q[k].subType = s => k - d \in DOMAIN r /\ r[k - d] = q[k]
SameMessages(q, r, s) == \E d \in {0, 1} : Shifted(q, r, s, d)

(* Queue r holds no other messages than q and m, and no more of those that *)
(* the GRT waits for.                                                      *)
NoOther(q, r, m) == \A k \in DOMAIN r : r[k] = m \/ \E i \in DOMAIN q : r[k] = q[i]
NoneFinished(q, r) ==
  \A i \in LRT : /\ FinishedFrom(i, r) => FinishedFrom(i, q)
                 /\ FinishedOnce(i, q) => FinishedOnce(i, r)

LEMMA SameQueue ==
  ASSUME NEW q \in Seq(Messages)
  PROVE  /\ \A s : SameMessages(q, q, s)
         /\ \A m : NoOther(q, q, m)
         /\ NoneFinished(q, q)
<1>1. \A k \in DOMAIN q : k \in Nat
  BY LenProperties
<1>2. \A s : Shifted(q, q, s, 0)
  BY <1>1 DEF Shifted
<1> QED BY <1>2 DEF SameMessages, NoOther, NoneFinished

LEMMA AppendedQueue ==
  ASSUME NEW q \in Seq(Messages), NEW m \in Messages
  PROVE  LET r == Append(q, m) IN
         /\ \A s : s # m.subType => SameMessages(q, r, s)
         /\ NoOther(q, r, m)
         /\ m.subType # "LRT_FINISHED_ITERATION" => NoneFinished(q, r)
<1> DEFINE r == Append(q, m)
<1>1. /\ Len(q) \in Nat /\ DOMAIN q = 1..Len(q) /\ DOMAIN r = 1..(Len(q) + 1)
      /\ \A k \in 1..Len(q) : r[k] = q[k]
      /\ r[Len(q) + 1] = m
  BY AppendProperties, LenProperties
<1> HIDE DEF r
<1>2. ASSUME NEW s, s # m.subType
      PROVE  SameMessages(q, r, s)
  <2>1. ASSUME NEW k \in DOMAIN r, r[k].subType = s
        PROVE  k + 0 \in DOMAIN q /\ r[k] = q[k + 0]
    BY <1>1, <1>2, <2>1
  <2>2. ASSUME NEW k \in DOMAIN q
        PROVE  k - 0 \in DOMAIN r /\ r[k - 0] = q[k]
    BY <1>1
  <2>3. Shifted(q, r, s, 0)
    BY <2>1, <2>2 DEF Shifted
  <2> QED BY <2>3 DEF SameMessages
<1>3. NoOther(q, r, m)
  <2> SUFFICES ASSUME NEW k \in DOMAIN r, r[k] # m PROVE k \in DOMAIN q /\ r[k] = q[k]
    BY DEF NoOther
  <2> QED BY <1>1
<1>4. ASSUME m.subType # "LRT_FINISHED_ITERATION"
      PROVE  NoneFinished(q, r)
  <2>1. ASSUME NEW k \in DOMAIN r, NEW i \in LRT, IsFinishedOf(r[k], i)
        PROVE  k \in DOMAIN q /\ IsFinishedOf(q[k], i)
    BY <1>1, <1>4, <2>1 DEF IsFinishedOf
  <2> QED BY <2>1 DEF NoneFinished, FinishedFrom, FinishedOnce
<1> QED BY <1>2, <1>3, <1>4 DEF r

LEMMA TailElements ==
  ASSUME NEW q \in Seq(Messages), q # <<>>
  PROVE  /\ Len(q) \in Nat /\ Len(q) > 0 /\ DOMAIN q = 1..Len(q)
         /\ DOMAIN Tail(q) = 1..(Len(q) - 1)
         /\ \A k \in 1..(Len(q) - 1) : Tail(q)[k] = q[k + 1]
         /\ Head(q) = q[1] /\ 1 \in DOMAIN q /\ Head(q) \in Messages
         /\ Tail(q) \in Seq(Messages)
  BY HeadTailProperties, LenProperties, EmptySeq

LEMMA TailQueue ==
  ASSUME NEW q \in Seq(Messages), q # <<>>
  PROVE  LET r == Tail(q) IN
         /\ \A s : s # Head(q).subType => SameMessages(q, r, s)
         /\ \A m : NoOther(q, r, m)
         /\ NoneFinished(q, r)
<1> DEFINE r == Tail(q)
<1>0. /\ Len(q) \in Nat /\ DOMAIN q = 1..Len(q) /\ DOMAIN r = 1..(Len(q) - 1)
      /\ \A k \in 1..(Len(q) - 1) : r[k] = q[k + 1]
      /\ Head(q) = q[1]
  BY TailElements
<1> HIDE DEF r
<1>1. ASSUME NEW k \in DOMAIN r
      PROVE  k + 1 \in DOMAIN q /\ r[k] = q[k + 1]
  BY <1>0
<1>2. ASSUME NEW s, s # Head(q).subType
      PROVE  SameMessages(q, r, s)
  <2>1. ASSUME NEW k \in DOMAIN q, q[k].subType = s
        PROVE  k - 1 \in DOMAIN r /\ r[k - 1] = q[k]
    BY <1>0, <1>2, <2>1
  <2>2. Shifted(q, r, s, 1)
    BY <1>1, <2>1 DEF Shifted
  <2> QED BY <2>2 DEF SameMessages
<1>3. \A m : NoOther(q, r, m)
  BY <1>1 DEF NoOther
<1>4. NoneFinished(q, r)
  <2>1. ASSUME NEW i \in LRT, FinishedOnce(i, q), NEW k \in DOMAIN r, NEW m \in DOMAIN r,
               IsFinishedOf(r[k], i), IsFinishedOf(r[m], i)
        PROVE  k = m
    <3>1. k + 1 = m + 1
      BY <1>1, <2>1 DEF FinishedOnce
    <3> QED BY <1>0, <3>1
  <2>2. \A i \in LRT : FinishedFrom(i, r) => FinishedFrom(i, q)
    BY <1>1 DEF FinishedFrom
  <2> QED BY <2>1, <2>2 DEF NoneFinished, FinishedOnce
<1> QED BY <1>2, <1>3, <1>4 DEF r

LEMMA RotatedQueue ==
  ASSUME NEW q \in Seq(Messages), q # <<>>
  PROVE  LET r == Append(Tail(q), Head(q)) IN
         /\ \A s : s # Head(q).subType => SameMessages(q, r, s)
         /\ \A m : NoOther(q, r, m)
         /\ NoneFinished(q, r)
<1> DEFINE r == Append(Tail(q), Head(q))
<1>0. /\ Len(q) \in Nat /\ Len(q) > 0 /\ DOMAIN q = 1..Len(q) /\ DOMAIN r = 1..Len(q)
      /\ \A k \in 1..(Len(q) - 1) : r[k] = q[k + 1]
      /\ Head(q) = q[1] /\ r[Len(q)] = q[1]
  <2>1. /\ Tail(q) \in Seq(Messages) /\ Head(q) \in Messages /\ Head(q) = q[1]
        /\ Len(Tail(q)) = Len(q) - 1 /\ Len(q) \in Nat /\ Len(q) > 0
        /\ DOMAIN q = 1..Len(q)
        /\ \A k \in 1..(Len(q) - 1) : Tail(q)[k] = q[k + 1]
    BY TailElements, HeadTailProperties
  <2>2. /\ Len(r) = Len(Tail(q)) + 1 /\ DOMAIN r = 1..Len(r)
        /\ \A k \in 1..Len(Tail(q)) : r[k] = Tail(q)[k]
        /\ r[Len(Tail(q)) + 1] = Head(q)
    BY <2>1, AppendProperties, LenProperties
  <2> HIDE DEF r
  <2>3. /\ DOMAIN r = 1..Len(q) /\ r[Len(q)] = Head(q)
        /\ \A k \in 1..(Len(q) - 1) : r[k] = Tail(q)[k]
    BY <2>1, <2>2
  <2> QED BY <2>1, <2>3
<1> HIDE DEF r
<1>1. ASSUME NEW k \in DOMAIN r
      PROVE  \/ k = Len(q) /\ r[k] = q[1]
             \/ k # Len(q) /\ k + 1 \in DOMAIN q /\ r[k] = q[k + 1]
  BY <1>0
<1>2. ASSUME NEW s, s # Head(q).subType
      PROVE  SameMessages(q, r, s)
  <2>1. ASSUME NEW k \in DOMAIN q, q[k].subType = s
        PROVE  k - 1 \in DOMAIN r /\ r[k - 1] = q[k]
    BY <1>0, <1>2, <2>1
  <2>2. ASSUME NEW k \in DOMAIN r, r[k].subType = s
        PROVE  k + 1 \in DOMAIN q /\ r[k] = q[k + 1]
    BY <1>0, <1>1, <1>2, <2>2
  <2>3. Shifted(q, r, s, 1)
    BY <2>1, <2>2 DEF Shifted
  <2> QED BY <2>3 DEF SameMessages
<1>3. \A m : NoOther(q, r, m)
  <2>1. 1 \in DOMAIN q
    BY <1>0
  <2> QED BY <1>1, <2>1 DEF NoOther
<1>4. NoneFinished(q, r)
  <2>1. ASSUME NEW i \in LRT, FinishedOnce(i, q), NEW k \in DOMAIN r, NEW m \in DOMAIN r,
               IsFinishedOf(r[k], i), IsFinishedOf(r[m], i)
        PROVE  k = m
    <3> DEFINE f(x) == IF x = Len(q) THEN 1 ELSE x + 1
    <3>1. f(k) \in DOMAIN q /\ r[k] = q[f(k)] /\ f(m) \in DOMAIN q /\ r[m] = q[f(m)]
      BY <1>0, <1>1
    <3>2. f(k) = f(m)
      BY <2>1, <3>1 DEF FinishedOnce
    <3> QED BY <1>0, <3>2
  <2>2. \A i \in LRT : FinishedFrom(i, r) => FinishedFrom(i, q)
    <3>1. 1 \in DOMAIN q
      BY <1>0
    <3> QED BY <1>1, <3>1 DEF FinishedFrom
  <2> QED BY <2>1, <2>2 DEF NoneFinished, FinishedOnce
<1> QED BY <1>2, <1>3, <1>4 DEF r

-----------------------------------------------------------------------------
(* What the invariant says of jobs and stamps rests on this state.         *)
SameJobs ==
  /\ UNCHANGED <<jobQueue, jobQueueIndex, jobIx, jobStamps, ran, iteration>>
  /\ \A l \in LRT : /\ pc'[l] = "exec" <=> pc[l] = "exec"
                    /\ pc'[l] \in InJob => jobQueueIndex[l] > 0

(* What is true of an iteration does not become false in it.               *)
Lasts ==
  /\ \A j \in Jobs : HasRun(j) => HasRun(j)'
  /\ \A l \in LRT : Rested(l) => Rested(l)'

LEMMA SameJobsLast ==
  ASSUME SameJobs
  PROVE  /\ \A j : HasRun(j)' <=> HasRun(j)
         /\ \A l : Rested(l)' <=> Rested(l)
         /\ \A i, s : StampIsTrue(i, s)' <=> StampIsTrue(i, s)
         /\ Lasts
<1>1. \A j : HasRun(j)' <=> HasRun(j)
  BY DEF SameJobs, HasRun
<1>2. \A l : Blank(l)' <=> Blank(l)
  BY DEF SameJobs, Blank
<1>3. \A l : Rested(l)' <=> Rested(l)
  BY <1>1, <1>2 DEF Rested, JobsOf
<1>4. \A i, s : StampIsTrue(i, s)' <=> StampIsTrue(i, s)
  BY <1>1 DEF StampIsTrue, JobsOf
<1> QED BY <1>1, <1>3, <1>4 DEF Lasts

LEMMA TrueStampsLast ==
  ASSUME Lasts, NEW i, NEW s, StampIsTrue(i, s)
  PROVE  StampIsTrue(i, s)'
  BY DEF StampIsTrue, JobsOf, Lasts

(* Every queue is a sequence of messages.                                  *)
LEMMA QueueDomains ==
  ASSUME TInv
  PROVE  /\ \A q \in Queues : notifQueue[q] \in Seq(Messages) /\ DOMAIN notifQueue[q] \subseteq Nat
         /\ \A l \in LRT : /\ l \in Queues /\ jobQueue[l] \in Seq(Jobs) /\ Len(jobQueue[l]) \in Nat
                           /\ DOMAIN jobQueue[l] = 1..Len(jobQueue[l])
                           /\ \A k \in DOMAIN jobQueue[l] : jobQueue[l][k] \in Jobs
                           /\ jobQueueIndex[l] \in Nat /\ jobIx[l] \in Stamp
         /\ nLrt \in Queues
<1>1. \A q \in Queues : notifQueue[q] \in Seq(Messages)
  BY DEF TInv, QueueTypes
<1>2. \A l \in LRT : jobQueue[l] \in Seq(Jobs) /\ jobQueueIndex[l] \in Nat /\ jobIx[l] \in Stamp
  BY DEF TInv, LrtTypes
<1>3. \A q \in Queues : DOMAIN notifQueue[q] \subseteq Nat
  <2> SUFFICES ASSUME NEW q \in Queues PROVE DOMAIN notifQueue[q] \subseteq Nat
    OBVIOUS
  <2>1. DOMAIN notifQueue[q] = 1..Len(notifQueue[q]) /\ Len(notifQueue[q]) \in Nat
    BY <1>1, LenProperties
  <2> QED BY <2>1
<1>4. ASSUME NEW l \in LRT
      PROVE  /\ Len(jobQueue[l]) \in Nat /\ DOMAIN jobQueue[l] = 1..Len(jobQueue[l])
             /\ \A k \in DOMAIN jobQueue[l] : jobQueue[l][k] \in Jobs
  <2>1. Len(jobQueue[l]) \in Nat /\ DOMAIN jobQueue[l] = 1..Len(jobQueue[l])
    BY <1>2, LenProperties
  <2> QED BY <1>2, <2>1, ElementOfSeq
<1>5. nLrt \in Queues /\ \A l \in LRT : l \in Queues
  BY ConstantTypes
<1> QED BY <1>1, <1>2, <1>3, <1>4, <1>5

LEMMA QueueDomainsNext ==
  ASSUME TInv'
  PROVE  \A q \in Queues : notifQueue'[q] \in Seq(Messages) /\ DOMAIN notifQueue'[q] \subseteq Nat
<1>1. \A q \in Queues : notifQueue'[q] \in Seq(Messages)
  BY DEF TInv, QueueTypes, Queues, Messages, Stamp, LRT, Jobs, SubTypes, JobKinds, Static!SubTypes
<1> QED BY <1>1, LenProperties

LEMMA JobsKept ==
  ASSUME TInv, TInv', OInv, SameJobs, nSentJobs <= nSentJobs'
  PROVE  Counted' /\ Progress' /\ JobQueueInOrder' /\ HeldAreTrue'
<1>1. Counted' /\ HeldAreTrue'
  BY SameJobsLast DEF OInv, Counted, SameJobs, HeldAreTrue
<1>2. Progress'
  BY SameJobsLast DEF OInv, Progress, SameJobs, JobsOf
<1>3. ASSUME NEW l \in LRT
      PROVE  (/\ \A k \in DOMAIN jobQueue[l] : /\ mappedPE[jobQueue[l][k]] = l
                                               /\ jobID[jobQueue[l][k]] = k - 1
                                               /\ jobQueue[l][k] <= nSentJobs
              /\ jobQueueIndex[l] <= Len(jobQueue[l])
              /\ jobQueueIndex[l] = jobIx[l] + 1 + IF pc[l] = "exec" THEN 1 ELSE 0
              /\ pc[l] \in InJob => jobQueueIndex[l] > 0)'
  <2>1. nSentJobs \in Nat /\ nSentJobs' \in Nat
    BY ConstantTypes DEF TInv, GrtTypes
  <2>2. ASSUME NEW k \in DOMAIN jobQueue[l] PROVE jobQueue[l][k] <= nSentJobs'
    <3>1. jobQueue[l][k] \in Nat /\ jobQueue[l][k] <= nSentJobs
      BY QueueDomains DEF OInv, JobQueueInOrder, Jobs
    <3> QED BY <2>1, <3>1
  <2> QED BY <2>2 DEF OInv, JobQueueInOrder, SameJobs
<1> QED BY <1>1, <1>2, <1>3 DEF JobQueueInOrder

(* What a step that carries a queue's messages over keeps of them.         *)
LEMMA AddsKept ==
  ASSUME UNCHANGED <<nSentJobs, ran, iteration>>, NEW l \in LRT, jobQueue'[l] = jobQueue[l],
         NEW q, NEW r, AddsInOrder(l, q), SameMessages(q, r, "JOB_ADD"),
         DOMAIN q \subseteq Nat, DOMAIN r \subseteq Nat
  PROVE  AddsInOrder(l, r)'
<1>0. PICK d \in {0, 1} : Shifted(q, r, "JOB_ADD", d)
  BY DEF SameMessages
<1>1. /\ \A k \in DOMAIN r : r[k].subType = "JOB_ADD" => k + d \in DOMAIN q /\ r[k] = q[k + d]
      /\ \A k \in DOMAIN q : q[k].subType = "JOB_ADD" => k - d \in DOMAIN r /\ r[k - d] = q[k]
  BY <1>0 DEF Shifted
<1>2. \A j : HasRun(j)' <=> HasRun(j)
  BY DEF HasRun
<1>3. ASSUME NEW k \in DOMAIN r, r[k].subType = "JOB_ADD"
      PROVE  LET j == r[k].index IN
             mappedPE[j] = l /\ ~HasRun(j)' /\ Len(jobQueue[l])' <= jobID[j] /\ j <= nSentJobs'
  <2>1. q[k + d].subType = "JOB_ADD" /\ k + d \in DOMAIN q /\ r[k].index = q[k + d].index
    BY <1>1, <1>3
  <2>2. PICK j : j = q[k + d].index
    OBVIOUS
  <2>3. mappedPE[j] = l /\ ~HasRun(j) /\ Len(jobQueue[l]) <= jobID[j] /\ j <= nSentJobs
    BY <2>1, <2>2 DEF AddsInOrder
  <2>4. mappedPE[j] = l /\ ~HasRun(j)' /\ Len(jobQueue'[l]) <= jobID[j] /\ j <= nSentJobs'
    BY <1>2, <2>3
  <2> QED BY <2>1, <2>2, <2>4 DEF HasRun
<1>4. ASSUME NEW k \in DOMAIN r, NEW m \in DOMAIN r, r[k].subType = "JOB_ADD",
             r[m].subType = "JOB_ADD", k < m
      PROVE  r[k].index < r[m].index
  <2>1. k + d < m + d
    BY <1>4
  <2> QED BY <1>1, <1>4, <2>1 DEF AddsInOrder
<1>5. ASSUME NEW j \in JobsOf(l), ~HasRun(j)', Len(jobQueue[l])' <= jobID[j], j <= nSentJobs'
      PROVE  \E k \in DOMAIN r : r[k].subType = "JOB_ADD" /\ r[k].index = j
  <2>1. \E k \in DOMAIN q : q[k].subType = "JOB_ADD" /\ q[k].index = j
    BY <1>2, <1>5 DEF AddsInOrder, JobsOf
  <2> QED BY <1>1, <2>1
<1> QED BY <1>3, <1>4, <1>5 DEF AddsInOrder, JobsOf

LEMMA AllAddsKept ==
  ASSUME TInv, TInv', AddsAreOrdered, UNCHANGED <<nSentJobs, ran, iteration, jobQueue>>,
         \A l \in LRT : SameMessages(notifQueue[l], notifQueue'[l], "JOB_ADD")
  PROVE  AddsAreOrdered'
<1> SUFFICES ASSUME NEW l \in LRT PROVE AddsInOrder(l, notifQueue[l])'
  BY DEF AddsAreOrdered
<1>1. PICK r : r = notifQueue'[l]
  OBVIOUS
<1>2. AddsInOrder(l, r)'
  <2>1. /\ AddsInOrder(l, notifQueue[l]) /\ SameMessages(notifQueue[l], r, "JOB_ADD")
        /\ DOMAIN notifQueue[l] \subseteq Nat /\ DOMAIN r \subseteq Nat /\ jobQueue'[l] = jobQueue[l]
    BY <1>1, QueueDomains, QueueDomainsNext DEF AddsAreOrdered
  <2> QED BY <2>1, AddsKept
<1> QED BY <1>1, <1>2 DEF AddsInOrder

(* A message of the next state was there before, or is true.               *)
OldOrSound ==
  \A q \in Queues : \A k \in DOMAIN notifQueue'[q] :
    \/ \E i \in DOMAIN notifQueue[q] : notifQueue'[q][k] = notifQueue[q][i]
    \/ Sound(notifQueue[q][k], q)'

LEMMA SoundLasts ==
  ASSUME Lasts, NEW m \in Messages, NEW q, Sound(m, q)
  PROVE  Sound(m, q)'
<1>1. m.subType = "JOB_UPDATE_JOBSTAMP" => q # nLrt /\ StampIsTrue(m.lrtID, m.index)'
  BY TrueStampsLast DEF Sound
<1>2. m.subType = "JOB_SENT_PARAM" => HasRun(m.index)'
  <2>1. m.subType = "JOB_SENT_PARAM" => m.index \in Jobs
    BY ConstantTypes DEF Messages, JobKinds
  <2> QED BY <2>1 DEF Sound, Lasts
<1>3. m.subType = "LRT_FINISHED_ITERATION" =>
        q = nLrt /\ m.lrtID \in Activated \ {grt} /\ Rested(m.lrtID)'
  BY PlatformAssumption DEF Sound, Lasts
<1> QED BY <1>1, <1>2, <1>3 DEF Sound, StampIsTrue, HasRun, Rested, Blank

LEMMA MessagesKept ==
  ASSUME TInv, MessagesAreSound, Lasts, OldOrSound
  PROVE  MessagesAreSound'
<1> SUFFICES ASSUME NEW q \in Queues, NEW k \in DOMAIN notifQueue'[q]
             PROVE  Sound(notifQueue[q][k], q)'
  BY DEF MessagesAreSound, Queues
<1>1. CASE \E i \in DOMAIN notifQueue[q] : notifQueue'[q][k] = notifQueue[q][i]
  <2>1. PICK i \in DOMAIN notifQueue[q] : notifQueue'[q][k] = notifQueue[q][i]
    BY <1>1
  <2>2. PICK m : m = notifQueue[q][i]
    OBVIOUS
  <2>3. Sound(m, q) /\ m \in Messages
    BY <2>2, QueueDomains, ElementOfSeq, LenProperties DEF MessagesAreSound
  <2>4. Sound(m, q)'
    BY <2>3, SoundLasts
  <2> QED BY <2>1, <2>2, <2>4 DEF Sound, StampIsTrue, HasRun, Rested, Blank, JobsOf
<1>2. CASE Sound(notifQueue[q][k], q)'
  BY <1>2
<1> QED BY <1>1, <1>2 DEF OldOrSound

LEMMA FinishedKept ==
  ASSUME NEW q, NEW r, FinishedAreCounted(q), NoneFinished(q, r), Lasts,
         nFinishedPE' = nFinishedPE, pc[grt] = "recv" => pc'[grt] = "recv",
         pc'[grt] \in Outside => pc[grt] \in Outside
  PROVE  FinishedAreCounted(r)'
<1>1. \A i \in LRT : FinishedOnce(i, r)
  BY DEF FinishedAreCounted, NoneFinished
<1>2. pc'[grt] \in Outside => \A i \in LRT : ~FinishedFrom(i, r)
  BY DEF FinishedAreCounted, NoneFinished
<1>3. pc'[grt] # "recv" => nFinishedPE' = 0
  BY DEF FinishedAreCounted
<1>4. \E F \in SUBSET (Activated \ {grt}) :
        /\ Cardinality(F) = nFinishedPE'
        /\ \A i \in F : Rested(i)' /\ ~FinishedFrom(i, r)
  <2>1. PICK F \in SUBSET (Activated \ {grt}) :
          /\ Cardinality(F) = nFinishedPE
          /\ \A i \in F : Rested(i) /\ ~FinishedFrom(i, q)
    BY DEF FinishedAreCounted
  <2>2. F \subseteq LRT
    BY PlatformAssumption
  <2>3. \A i \in F : Rested(i)' /\ ~FinishedFrom(i, r)
    BY <2>1, <2>2 DEF Lasts, NoneFinished
  <2> QED BY <2>1, <2>3
<1> QED BY <1>1, <1>2, <1>3, <1>4 DEF FinishedAreCounted, FinishedOnce, FinishedFrom

LEMMA AllFinishedKept ==
  ASSUME FinishedAreCounted(notifQueue[nLrt]), Lasts,
         NoneFinished(notifQueue[nLrt], notifQueue'[nLrt]),
         nFinishedPE' = nFinishedPE, pc[grt] = "recv" => pc'[grt] = "recv",
         pc'[grt] \in Outside => pc[grt] \in Outside
  PROVE  FinishedAreCounted(notifQueue[nLrt])'
<1>1. PICK r : r = notifQueue'[nLrt]
  OBVIOUS
<1>2. FinishedAreCounted(r)'
  BY <1>1, FinishedKept
<1> QED BY <1>1, <1>2 DEF FinishedAreCounted

LEMMA ConfigsKept ==
  ASSUME ConfigsHaveRun, Lasts, TInv, PInv, UNCHANGED <<planned, resolved>>
  PROVE  ConfigsHaveRun'
<1>1. resolved \subseteq Jobs /\ Config \subseteq Jobs
  BY ConstantTypes DEF PInv, ParametersCounted, Sent
<1> QED BY <1>1 DEF ConfigsHaveRun, Lasts

LEMMA TellingsKept ==
  ASSUME TInv, PInv, OInv, Lasts, OldOrSound,
         NoneFinished(notifQueue[nLrt], notifQueue'[nLrt]),
         UNCHANGED <<nFinishedPE, planned, resolved>>,
         pc[grt] = "recv" => pc'[grt] = "recv",
         pc'[grt] \in Outside => pc[grt] \in Outside
  PROVE  MessagesAreSound' /\ ConfigsHaveRun' /\ FinishedAreCounted(notifQueue[nLrt])'
  BY MessagesKept, ConfigsKept, AllFinishedKept DEF OInv

LEMMA EndsKept ==
  ASSUME SameMessages(notifQueue[grt], notifQueue'[grt], "LRT_END_ITERATION")
  PROVE  HasEnd(grt)' <=> HasEnd(grt)
  BY DEF SameMessages, Shifted, HasEnd

(* The GRT stays where it is, or goes on reading its queue or with its job. *)
LEMMA GrtPhasesKept ==
  ASSUME GrtPhases, Lasts, UNCHANGED <<nSentJobs, planned, sentTo>>,
         \/ pc'[grt] = pc[grt]
         \/ pc[grt] \in {"wait", "drain"} /\ pc'[grt] \in {"wait", "drain", "ended"}
         \/ pc[grt] \in {"exec", "notify"} /\ pc'[grt] \in {"notify", "endpass"},
         \A j \in Jobs : nSentJobs < j /\ HasRun(j)' => HasRun(j),
         pc[grt] = "send" /\ HasEnd(grt) => HasEnd(grt)',
         HasEnd(grt) => HasEnd(grt)' \/ lastJobID'[grt] = nJobPerPE[grt] - 1,
         lastJobID[grt] = nJobPerPE[grt] - 1 => lastJobID'[grt] = nJobPerPE[grt] - 1,
         pc[grt] \in InJob => lastJobID'[grt] = lastJobID[grt] /\ jobQueue'[grt] = jobQueue[grt]
  PROVE  GrtPhases'
<1> USE ConstantTypes DEF InJob, Outside
<1>1. pc'[grt] \in Outside => \A l \in LRT : Rested(l)'
  BY DEF GrtPhases, Lasts
<1>2. pc'[grt] \notin Outside => \A j \in Jobs : nSentJobs' < j => ~HasRun(j)'
  BY DEF GrtPhases
<1>3. /\ pc'[grt] \notin {"announce", "send", "stop", "done"} => sentTo' = 0
      /\ pc'[grt] = "send" /\ planned' < NRounds => sentTo' = 0
      /\ pc'[grt] = "send" /\ grt < sentTo' => HasEnd(grt)'
  BY DEF GrtPhases
<1>4. pc'[grt] \in {"wait", "drain"} \cup InJob /\ planned' = NRounds =>
       pc'[grt] # "broadcast" /\ (HasEnd(grt)' \/ lastJobID'[grt] = nJobPerPE[grt] - 1)
  BY DEF GrtPhases
<1>5. pc'[grt] = "recv" => Rested(grt)'
  BY DEF GrtPhases, Lasts
<1> QED BY <1>1, <1>2, <1>3, <1>4, <1>5 DEF GrtPhases

(* A step that keeps the state of the jobs and every message that tells    *)
(* something of them, or adds a true one.                                  *)
LEMMA QuietStep ==
  ASSUME TInv, TInv', PInv, OInv, SameJobs,
         UNCHANGED <<nSentJobs, nFinishedPE, planned, resolved>>,
         \A l \in LRT : SameMessages(notifQueue[l], notifQueue'[l], "JOB_ADD"),
         OldOrSound, NoneFinished(notifQueue[nLrt], notifQueue'[nLrt]),
         pc[grt] = "recv" => pc'[grt] = "recv",
         pc'[grt] \in Outside => pc[grt] \in Outside,
         LastIDs', GrtPhases'
  PROVE  OInv'
<1>1. Lasts
  BY SameJobsLast
<1>2. nSentJobs <= nSentJobs'
  BY ConstantTypes DEF TInv, GrtTypes
<1>3. Counted' /\ Progress' /\ JobQueueInOrder' /\ HeldAreTrue'
  BY <1>2, JobsKept
<1>4. AddsAreOrdered'
  BY AllAddsKept DEF OInv, SameJobs
<1>5. MessagesAreSound' /\ ConfigsHaveRun' /\ FinishedAreCounted(notifQueue[nLrt])'
  BY <1>1, TellingsKept
<1> QED BY <1>3, <1>4, <1>5 DEF OInv

-----------------------------------------------------------------------------
(* Pushing to, popping from and rotating one queue leaves the others alone. *)
LEMMA SilentMoves ==
  ASSUME TInv, notifQueue' = notifQueue
  PROVE  /\ \A r \in Queues : \A s : SameMessages(notifQueue[r], notifQueue'[r], s)
         /\ NoneFinished(notifQueue[nLrt], notifQueue'[nLrt])
         /\ OldOrSound
<1>1. OldOrSound
  BY DEF OldOrSound
<1> QED BY <1>1, QueueDomains, SameQueue

LEMMA PushMoves ==
  ASSUME TInv, NEW l \in LRT, NEW q \in Queues, NEW m \in Messages, Static!Push(l, q, m)
  PROVE  /\ notifQueue'[q] = Append(notifQueue[q], m)
         /\ \A r \in Queues : r # q => notifQueue'[r] = notifQueue[r]
         /\ \A r \in Queues : \A s : r # q \/ s # m.subType =>
              SameMessages(notifQueue[r], notifQueue'[r], s)
         /\ q # nLrt \/ m.subType # "LRT_FINISHED_ITERATION" =>
              NoneFinished(notifQueue[nLrt], notifQueue'[nLrt])
         /\ Sound(m, q)' => OldOrSound
<1>1. notifQueue \in [Queues -> Seq(Messages)] /\ nLrt \in Queues
  BY ConstantTypes DEF TInv, QueueTypes
<1>2. notifQueue' = [notifQueue EXCEPT ![q] = Append(@, m)]
  BY DEF Static!Push
<1>3. /\ notifQueue'[q] = Append(notifQueue[q], m)
      /\ \A r \in Queues : r # q => notifQueue'[r] = notifQueue[r]
  BY <1>1, <1>2
<1>4. /\ \A r \in Queues : \A s : r # q \/ s # m.subType =>
           SameMessages(notifQueue[r], notifQueue'[r], s)
      /\ q # nLrt \/ m.subType # "LRT_FINISHED_ITERATION" =>
           NoneFinished(notifQueue[nLrt], notifQueue'[nLrt])
  BY <1>1, <1>3, SameQueue, AppendedQueue
<1>5. ASSUME Sound(m, q)', NEW r \in Queues, NEW k \in DOMAIN notifQueue'[r]
      PROVE  \/ \E i \in DOMAIN notifQueue[r] : notifQueue'[r][k] = notifQueue[r][i]
             \/ Sound(notifQueue[r][k], r)'
  <2>1. CASE r # q
    BY <1>3, <2>1
  <2>2. CASE r = q /\ notifQueue'[r][k] = m
    BY <1>5, <2>2 DEF Sound, StampIsTrue, HasRun, Rested, Blank, JobsOf
  <2>3. r = q => notifQueue'[r][k] = m \/ \E i \in DOMAIN notifQueue[r] : notifQueue'[r][k] = notifQueue[r][i]
    <3>1. notifQueue[q] \in Seq(Messages)
      BY <1>1
    <3>2. NoOther(notifQueue[q], Append(notifQueue[q], m), m)
      BY <3>1, AppendedQueue
    <3> QED BY <1>3, <1>5, <3>2 DEF NoOther
  <2> QED BY <2>1, <2>2, <2>3
<1> QED BY <1>3, <1>4, <1>5 DEF OldOrSound

LEMMA ReadMoves ==
  ASSUME TInv, NEW q \in Queues, credits[q] > 0,
         \/ notifQueue' = [notifQueue EXCEPT ![q] = Tail(@)]
         \/ notifQueue' = [notifQueue EXCEPT ![q] = Append(Tail(@), Head(@))]
  PROVE  /\ notifQueue[q] \in Seq(Messages) /\ notifQueue[q] # <<>>
         /\ \A r \in Queues : r # q => notifQueue'[r] = notifQueue[r]
         /\ \A r \in Queues : \A s : r # q \/ s # Head(notifQueue[q]).subType =>
              SameMessages(notifQueue[r], notifQueue'[r], s)
         /\ NoneFinished(notifQueue[nLrt], notifQueue'[nLrt])
         /\ OldOrSound
<1>1. notifQueue \in [Queues -> Seq(Messages)] /\ nLrt \in Queues
  BY ConstantTypes DEF TInv, QueueTypes
<1>2. notifQueue[q] \in Seq(Messages) /\ notifQueue[q] # <<>>
  BY CreditMeansItem DEF TInv
<1>3. PICK q2 : notifQueue' = [notifQueue EXCEPT ![q] = q2]
                /\ (q2 = Tail(notifQueue[q]) \/ q2 = Append(Tail(notifQueue[q]), Head(notifQueue[q])))
  BY <1>1
<1>4. /\ notifQueue'[q] = q2
      /\ \A r \in Queues : r # q => notifQueue'[r] = notifQueue[r]
  BY <1>1, <1>3
<1>5. /\ \A s : s # Head(notifQueue[q]).subType => SameMessages(notifQueue[q], q2, s)
      /\ \A m : NoOther(notifQueue[q], q2, m)
      /\ NoneFinished(notifQueue[q], q2)
  BY <1>2, <1>3, TailQueue, RotatedQueue
<1>6. ASSUME NEW r \in Queues, NEW k \in DOMAIN notifQueue'[r]
      PROVE  \E i \in DOMAIN notifQueue[r] : notifQueue'[r][k] = notifQueue[r][i]
  <2>1. CASE r # q
    BY <1>4, <2>1
  <2>2. CASE r = q
    <3>1. PICK m : m # q2[k]
      <4>1. {q2[k]} # q2[k] \/ {} # q2[k]
        OBVIOUS
      <4> QED BY <4>1
    <3>2. NoOther(notifQueue[q], q2, m) /\ k \in DOMAIN q2
      BY <1>4, <1>5, <1>6, <2>2
    <3>3. \E i \in DOMAIN notifQueue[q] : q2[k] = notifQueue[q][i]
      BY <3>1, <3>2 DEF NoOther
    <3> QED BY <1>4, <2>2, <3>3
  <2> QED BY <2>1, <2>2
<1>7. OldOrSound
  BY <1>6 DEF OldOrSound
<1> QED BY <1>1, <1>2, <1>4, <1>5, <1>7, SameQueue

(* A step of one thread in which no job begins or ends.                    *)
LEMMA MoveIsQuiet ==
  ASSUME TInv, JobQueueInOrder, NEW l \in LRT, NEW p,
         pc' = pc \/ (pc' = [pc EXCEPT ![l] = p] /\ (p = "exec" <=> pc[l] = "exec")
                      /\ (p \in InJob => jobQueueIndex[l] > 0)),
         UNCHANGED <<jobQueue, jobQueueIndex, jobIx, jobStamps, ran, iteration>>
  PROVE  SameJobs
<1>1. pc \in [LRT -> InRun \cup InGrt]
  BY DEF TInv, LrtTypes
<1>2. \A k \in LRT : pc[k] \in InJob => jobQueueIndex[k] > 0
  BY DEF JobQueueInOrder
<1>3. ASSUME NEW k \in LRT
      PROVE  (pc'[k] = "exec" <=> pc[k] = "exec") /\ (pc'[k] \in InJob => jobQueueIndex[k] > 0)
  BY <1>1, <1>2
<1> QED BY <1>3 DEF SameJobs

LEMMA SilentStep ==
  ASSUME TInv, TInv', PInv, OInv, SameJobs, notifQueue' = notifQueue,
         UNCHANGED <<nSentJobs, nFinishedPE, planned, resolved, lastJobID>>,
         pc[grt] = "recv" => pc'[grt] = "recv",
         pc'[grt] \in Outside => pc[grt] \in Outside,
         GrtPhases'
  PROVE  OInv'
<1>1. LastIDs'
  BY DEF OInv, LastIDs
<1>2. LRT \subseteq Queues
  BY ConstantTypes
<1> QED BY <1>1, <1>2, SilentMoves, QuietStep

(* What a step of an LRT does to the GRT's place.                          *)
LEMMA ElsewhereStays ==
  ASSUME TInv, NEW l \in LRT, NEW p, pc' = [pc EXCEPT ![l] = p]
  PROVE  /\ pc'[l] = p
         /\ \A k \in LRT : k # l => pc'[k] = pc[k]
  BY DEF TInv, LrtTypes

LEMMA PostInOrder ==
  ASSUME TInv, TInv', PInv, OInv, NEW l \in LRT, Post(l)
  PROVE  OInv'
<1>1. UNCHANGED <<notifQueue, lrtVars, grtVars, pc, run, toNotify, ran, jitVars>>
  BY DEF Post, Static!Post, Static!lrtVars, Static!grtVars, lrtVars, grtVars
<1>2. SameJobs
  BY <1>1, MoveIsQuiet, ConstantTypes DEF OInv, lrtVars, grtVars
<1>3. GrtPhases'
  <2>1. HasEnd(grt)' <=> HasEnd(grt)
    BY <1>1 DEF HasEnd
  <2> QED BY <1>1, <1>2, <2>1, SameJobsLast, GrtPhasesKept DEF OInv, lrtVars, grtVars, jitVars
<1> QED BY <1>1, <1>2, <1>3, SilentStep DEF lrtVars, grtVars, jitVars

LEMMA ExitRunInOrder ==
  ASSUME TInv, TInv', PInv, OInv, NEW l \in LRT, Static!ExitRun(l), UNCHANGED jitVars
  PROVE  OInv'
<1>1. /\ UNCHANGED <<queueVars, lrtVars, grtVars, run, toNotify, ran, jitVars>>
      /\ pc[l] = "drain" /\ pc' = [pc EXCEPT ![l] = "ended"]
  BY DEF Static!ExitRun, Static!Drained, Static!At, Static!queueVars, Static!lrtVars, Static!grtVars,
         queueVars, lrtVars, grtVars
<1>2. SameJobs
  <2>1. PICK p : p = "ended"
    OBVIOUS
  <2>2. /\ pc' = [pc EXCEPT ![l] = p] /\ (p = "exec" <=> pc[l] = "exec") /\ p \notin InJob
        /\ UNCHANGED <<jobQueue, jobQueueIndex, jobIx, jobStamps, ran, iteration>>
    BY <1>1, <2>1 DEF lrtVars, grtVars, InJob
  <2> QED BY <2>2, MoveIsQuiet DEF OInv
<1>3. pc'[l] = "ended" /\ \A k \in LRT : k # l => pc'[k] = pc[k]
  BY <1>1, ElsewhereStays
<1>4. GrtPhases'
  <2>1. HasEnd(grt)' <=> HasEnd(grt)
    BY <1>1 DEF HasEnd, queueVars
  <2>2. \/ pc'[grt] = pc[grt]
        \/ pc[grt] \in {"wait", "drain"} /\ pc'[grt] \in {"wait", "drain", "ended"}
    BY <1>1, <1>3, ConstantTypes
  <2> QED BY <1>1, <1>2, <2>1, <2>2, SameJobsLast, GrtPhasesKept DEF OInv, lrtVars, grtVars, jitVars
<1>5. /\ pc[grt] = "recv" => pc'[grt] = "recv"
      /\ pc'[grt] \in Outside => pc[grt] \in Outside
  BY <1>1, <1>3, ConstantTypes DEF Outside
<1> QED BY <1>1, <1>2, <1>4, <1>5, SilentStep DEF lrtVars, grtVars, jitVars, queueVars

-----------------------------------------------------------------------------
(* The messages that an LRT reads. *)

LEMMA PopMoves ==
  ASSUME TInv, NEW l \in LRT, NEW s, Static!Pop(l, s)
  PROVE  /\ notifQueue[l] \in Seq(Messages) /\ notifQueue[l] # <<>>
         /\ Head(notifQueue[l]).subType = s /\ Head(notifQueue[l]) \in Messages
         /\ notifQueue'[l] = Tail(notifQueue[l])
         /\ \A r \in Queues : r # l => notifQueue'[r] = notifQueue[r]
         /\ \A r \in Queues : \A t : r # l \/ t # s => SameMessages(notifQueue[r], notifQueue'[r], t)
         /\ NoneFinished(notifQueue[nLrt], notifQueue'[nLrt])
         /\ OldOrSound
         /\ pc' = [pc EXCEPT ![l] = "drain"] /\ pc[l] \in {"wait", "drain"}
         /\ UNCHANGED <<unposted, toNotify, ran, nSentJobs, sentTo, nFinishedPE, iteration>>
<1>1. /\ l \in Queues /\ credits[l] > 0 /\ notifQueue' = [notifQueue EXCEPT ![l] = Tail(@)]
      /\ Head(notifQueue[l]) \in Messages /\ Head(notifQueue[l]).subType = s
      /\ pc' = [pc EXCEPT ![l] = "drain"] /\ pc[l] \in {"wait", "drain"}
      /\ UNCHANGED <<toNotify, ran, grtVars>>
  BY PopTypes
<1>2. unposted' = unposted
  BY DEF Static!Pop
<1>3. notifQueue'[l] = Tail(notifQueue[l])
  BY <1>1 DEF TInv, QueueTypes
<1>4. /\ notifQueue[l] \in Seq(Messages) /\ notifQueue[l] # <<>>
      /\ \A r \in Queues : r # l => notifQueue'[r] = notifQueue[r]
      /\ \A r \in Queues : \A t : r # l \/ t # s => SameMessages(notifQueue[r], notifQueue'[r], t)
      /\ NoneFinished(notifQueue[nLrt], notifQueue'[nLrt])
      /\ OldOrSound
  BY <1>1, ReadMoves
<1> QED BY <1>1, <1>2, <1>3, <1>4 DEF grtVars

(* What all of them have in common.                                        *)
LEMMA PopPhases ==
  ASSUME TInv, OInv, NEW l \in LRT, NEW s, Static!Pop(l, s), Lasts,
         UNCHANGED <<planned, resolved>>,
         s = "LRT_END_ITERATION" => lastJobID'[l] = nJobPerPE[l] - 1,
         s # "LRT_END_ITERATION" => lastJobID' = lastJobID,
         \A k \in LRT : k # l => lastJobID'[k] = lastJobID[k] /\ jobQueue'[k] = jobQueue[k]
  PROVE  /\ GrtPhases' /\ LastIDs'
         /\ pc[grt] = "recv" => pc'[grt] = "recv"
         /\ pc'[grt] \in Outside => pc[grt] \in Outside
<1>0. /\ pc' = [pc EXCEPT ![l] = "drain"] /\ pc[l] \in {"wait", "drain"}
      /\ UNCHANGED <<unposted, toNotify, ran, nSentJobs, sentTo, nFinishedPE, iteration>>
  BY PopMoves
<1>01. \A r \in Queues : \A t : r # l \/ t # s => SameMessages(notifQueue[r], notifQueue'[r], t)
  BY PopMoves
<1>1. /\ pc' = [pc EXCEPT ![l] = "drain"] /\ pc[l] \in {"wait", "drain"}
      /\ UNCHANGED <<unposted, toNotify, ran, nSentJobs, sentTo, nFinishedPE, iteration>>
      /\ \A r \in Queues : \A t : r # l \/ t # s => SameMessages(notifQueue[r], notifQueue'[r], t)
  BY <1>0, <1>01
<1>2. pc'[l] = "drain" /\ \A k \in LRT : k # l => pc'[k] = pc[k]
  BY <1>1, ElsewhereStays
<1>3. LastIDs'
  BY DEF OInv, LastIDs
<1>4. \/ pc'[grt] = pc[grt]
      \/ pc[grt] \in {"wait", "drain"} /\ pc'[grt] \in {"wait", "drain", "ended"}
  BY <1>1, <1>2, ConstantTypes
<1>5. l # grt \/ s # "LRT_END_ITERATION" => (HasEnd(grt)' <=> HasEnd(grt))
  BY <1>1, EndsKept, ConstantTypes
<1>6. /\ pc[grt] = "send" /\ HasEnd(grt) => HasEnd(grt)'
      /\ HasEnd(grt) => HasEnd(grt)' \/ lastJobID'[grt] = nJobPerPE[grt] - 1
      /\ lastJobID[grt] = nJobPerPE[grt] - 1 => lastJobID'[grt] = nJobPerPE[grt] - 1
  BY <1>1, <1>5, ConstantTypes
<1>7. ASSUME NEW j \in Jobs PROVE HasRun(j)' => HasRun(j)
  BY <1>1 DEF HasRun
<1>8. pc[grt] \in InJob => lastJobID'[grt] = lastJobID[grt] /\ jobQueue'[grt] = jobQueue[grt]
  BY <1>1, ConstantTypes DEF InJob
<1>9. GrtPhases'
  BY <1>1, <1>4, <1>6, <1>7, <1>8, GrtPhasesKept DEF OInv
<1> QED BY <1>1, <1>2, <1>3, <1>4, <1>9 DEF Outside

(* A message that tells nothing of jobs, or a stamp.                       *)
LEMMA QuietPop ==
  ASSUME TInv, TInv', PInv, OInv, NEW l \in LRT, NEW s, Static!Pop(l, s), s # "JOB_ADD",
         UNCHANGED <<jobQueue, jobQueueIndex, jobIx, jobStamps, planned, resolved>>,
         s = "LRT_END_ITERATION" => lastJobID'[l] = nJobPerPE[l] - 1,
         s # "LRT_END_ITERATION" => lastJobID' = lastJobID,
         \A k \in LRT : k # l => lastJobID'[k] = lastJobID[k]
  PROVE  OInv'
<1>1. /\ pc' = [pc EXCEPT ![l] = "drain"] /\ pc[l] \in {"wait", "drain"}
      /\ UNCHANGED <<unposted, toNotify, ran, nSentJobs, sentTo, nFinishedPE, iteration>>
  BY PopMoves
<1>2. /\ \A k \in LRT : SameMessages(notifQueue[k], notifQueue'[k], "JOB_ADD")
      /\ NoneFinished(notifQueue[nLrt], notifQueue'[nLrt]) /\ OldOrSound
  <2>1. \A r \in Queues : \A t : r # l \/ t # s => SameMessages(notifQueue[r], notifQueue'[r], t)
    BY PopMoves
  <2>2. NoneFinished(notifQueue[nLrt], notifQueue'[nLrt]) /\ OldOrSound
    BY PopMoves
  <2> QED BY <2>1, <2>2, ConstantTypes
<1>3. SameJobs
  <2>1. PICK p : p = "drain"
    OBVIOUS
  <2>2. /\ pc' = [pc EXCEPT ![l] = p] /\ (p = "exec" <=> pc[l] = "exec") /\ p \notin InJob
        /\ UNCHANGED <<ran, iteration>>
    BY <1>1, <2>1 DEF InJob
  <2> QED BY <2>2, MoveIsQuiet DEF OInv
<1>4. Lasts
  BY <1>3, SameJobsLast
<1>5. /\ GrtPhases' /\ LastIDs'
      /\ pc[grt] = "recv" => pc'[grt] = "recv"
      /\ pc'[grt] \in Outside => pc[grt] \in Outside
  BY <1>4, PopPhases
<1> QED BY <1>1, <1>2, <1>3, <1>5, QuietStep

LEMMA HandleDelayBroadcastInOrder ==
  ASSUME TInv, TInv', PInv, OInv, NEW l \in LRT, HandleDelayBroadcast(l)
  PROVE  OInv'
<1>1. PICK s : s = "JOB_DELAY_BROADCAST_JOBSTAMP"
  OBVIOUS
<1>2. Static!Pop(l, s) /\ UNCHANGED <<lrtVars, planned, resolved>>
  BY <1>1 DEF HandleDelayBroadcast
<1> QED BY <1>1, <1>2, QuietPop DEF lrtVars

LEMMA HandleStopInOrder ==
  ASSUME TInv, TInv', PInv, OInv, NEW l \in LRT, Static!HandleStop(l), UNCHANGED jitVars
  PROVE  OInv'
<1>1. PICK s : s = "LRT_STOP"
  OBVIOUS
<1>2. Static!Pop(l, s) /\ UNCHANGED <<lrtVars, planned, resolved>>
  BY <1>1 DEF Static!HandleStop, Static!lrtVars, lrtVars, jitVars
<1> QED BY <1>1, <1>2, QuietPop DEF lrtVars

LEMMA HandleEndIterationInOrder ==
  ASSUME TInv, TInv', PInv, OInv, NEW l \in LRT, Static!HandleEndIteration(l), UNCHANGED jitVars
  PROVE  OInv'
<1>1. PICK s : s = "LRT_END_ITERATION"
  OBVIOUS
<1>2. /\ Static!Pop(l, s)
      /\ lastJobID' = [lastJobID EXCEPT ![l] = Head(notifQueue[l]).index]
      /\ UNCHANGED <<jobQueue, jobQueueIndex, jobIx, jobStamps, planned, resolved>>
  BY <1>1 DEF Static!HandleEndIteration, jitVars
<1>3. Head(notifQueue[l]).index = nJobPerPE[l] - 1
  <2>1. notifQueue[l] \in Seq(Messages) /\ notifQueue[l] # <<>> /\ Head(notifQueue[l]).subType = s
    BY <1>2, PopMoves
  <2>2. Sound(notifQueue[l][1], l) /\ Head(notifQueue[l]) = notifQueue[l][1]
    BY <2>1, TailElements, ConstantTypes DEF OInv, MessagesAreSound
  <2> QED BY <1>1, <2>1, <2>2 DEF Sound
<1>4. lastJobID'[l] = nJobPerPE[l] - 1 /\ \A k \in LRT : k # l => lastJobID'[k] = lastJobID[k]
  BY <1>2, <1>3 DEF TInv, LrtTypes
<1> QED BY <1>1, <1>2, <1>4, QuietPop

LEMMA HandleUpdateInOrder ==
  ASSUME TInv, TInv', PInv, OInv, NEW l \in LRT, Static!HandleUpdateJobStamp(l), UNCHANGED jitVars
  PROVE  OInv'
<1> DEFINE m == Head(notifQueue[l])
<1>0. PICK s : s = "JOB_UPDATE_JOBSTAMP"
  OBVIOUS
<1>1. /\ Static!Pop(l, s)
      /\ jobStamps' = [jobStamps EXCEPT ![l][m.lrtID] = m.index]
      /\ UNCHANGED <<jobQueue, jobQueueIndex, jobIx, lastJobID, planned, resolved>>
  BY <1>0 DEF Static!HandleUpdateJobStamp, jitVars
<1>2. /\ pc' = [pc EXCEPT ![l] = "drain"] /\ pc[l] \in {"wait", "drain"}
      /\ UNCHANGED <<unposted, toNotify, ran, nSentJobs, sentTo, nFinishedPE, iteration>>
      /\ notifQueue[l] \in Seq(Messages) /\ notifQueue[l] # <<>> /\ m.subType = s
  BY <1>1, PopMoves
<1>3. StampIsTrue(m.lrtID, m.index)
  <2>1. Sound(notifQueue[l][1], l) /\ m = notifQueue[l][1]
    BY <1>2, TailElements, ConstantTypes DEF OInv, MessagesAreSound
  <2> QED BY <1>0, <1>2, <2>1 DEF Sound
<1> HIDE DEF m
<1>4. \A k, i \in LRT : StampIsTrue(i, jobStamps'[k][i])
  <2> SUFFICES ASSUME NEW k \in LRT, NEW i \in LRT PROVE StampIsTrue(i, jobStamps'[k][i])
    OBVIOUS
  <2>1. jobStamps \in [LRT -> [LRT -> Stamp]]
    BY DEF TInv, LrtTypes
  <2>2. jobStamps'[k][i] = jobStamps[k][i] \/ (i = m.lrtID /\ jobStamps'[k][i] = m.index)
    BY <1>1, <2>1
  <2> QED BY <1>3, <2>2 DEF OInv, HeldAreTrue
<1>5. /\ \A j : HasRun(j)' <=> HasRun(j)
      /\ \A k : Blank(k)' <=> Blank(k)
  BY <1>1, <1>2 DEF HasRun, Blank
<1>6. /\ \A k : Rested(k)' <=> Rested(k)
      /\ Lasts
  BY <1>5 DEF Rested, JobsOf, Lasts
<1>7. HeldAreTrue' /\ Counted' /\ Progress'
  <2>1. HeldAreTrue'
    BY <1>4, <1>5 DEF HeldAreTrue, StampIsTrue, JobsOf
  <2>2. Counted'
    BY <1>2 DEF OInv, Counted
  <2>3. Progress'
    BY <1>1, <1>5, <1>6 DEF OInv, Progress, JobsOf
  <2> QED BY <2>1, <2>2, <2>3
<1>8. pc'[l] = "drain" /\ \A k \in LRT : k # l => pc'[k] = pc[k]
  BY <1>2, ElsewhereStays
<1>9. JobQueueInOrder'
  <2>1. \A k \in LRT : (pc'[k] = "exec" <=> pc[k] = "exec") /\ (pc'[k] \in InJob => pc[k] \in InJob)
    BY <1>2, <1>8 DEF InJob
  <2> QED BY <1>1, <1>2, <2>1 DEF OInv, JobQueueInOrder
<1>10. AddsAreOrdered'
  <2>1. \A r \in Queues : \A t : r # l \/ t # s => SameMessages(notifQueue[r], notifQueue'[r], t)
    BY <1>1, PopMoves
  <2>2. \A k \in LRT : SameMessages(notifQueue[k], notifQueue'[k], "JOB_ADD")
    BY <1>0, <2>1, ConstantTypes
  <2> QED BY <1>1, <1>2, <2>2, AllAddsKept DEF OInv
<1>11. /\ GrtPhases' /\ LastIDs'
       /\ pc[grt] = "recv" => pc'[grt] = "recv"
       /\ pc'[grt] \in Outside => pc[grt] \in Outside
  BY <1>0, <1>1, <1>6, PopPhases
<1>12. NoneFinished(notifQueue[nLrt], notifQueue'[nLrt]) /\ OldOrSound
  BY <1>1, PopMoves
<1>13. MessagesAreSound' /\ ConfigsHaveRun' /\ FinishedAreCounted(notifQueue[nLrt])'
  BY <1>1, <1>2, <1>6, <1>11, <1>12, TellingsKept
<1> QED BY <1>7, <1>9, <1>10, <1>11, <1>13 DEF OInv

LEMMA NextAddIsNextJob ==
  ASSUME TInv, OInv, NEW l \in LRT, notifQueue[l] # <<>>,
         Head(notifQueue[l]).subType = "JOB_ADD"
  PROVE  LET j == Head(notifQueue[l]).index IN
         /\ j \in JobsOf(l) /\ ~HasRun(j) /\ j <= nSentJobs
         /\ jobID[j] = Len(jobQueue[l])
<1> DEFINE q == notifQueue[l]
<1> DEFINE j == Head(q).index
<1> DEFINE n == Len(jobQueue[l])
<1>1. /\ q \in Seq(Messages) /\ jobQueue[l] \in Seq(Jobs)
      /\ AddsInOrder(l, q) /\ Progress /\ JobQueueInOrder
      /\ jobIx[l] \in Stamp /\ jobQueueIndex[l] \in Nat
  BY QueueDomains DEF OInv, AddsAreOrdered
<1>2. /\ Head(q) = q[1] /\ 1 \in DOMAIN q /\ Head(q) \in Messages
      /\ \A k \in DOMAIN q : k \in Nat /\ (k # 1 => 1 < k)
  BY <1>1, TailElements
<1>3. /\ j \in Jobs /\ mappedPE[j] = l /\ ~HasRun(j) /\ n <= jobID[j] /\ j <= nSentJobs
  <2>1. j \in Jobs
    BY <1>2 DEF Messages, JobKinds
  <2> QED BY <1>1, <1>2, <2>1 DEF AddsInOrder
<1>4. n \in Nat /\ jobID[j] \in Nat /\ jobID[j] < nJobPerPE[l]
  BY <1>1, <1>3, LenProperties, ScheduleFacts
<1>5. ASSUME n < jobID[j] PROVE FALSE
  <2>0. n < nJobPerPE[l] /\ nJobPerPE[l] \in Nat
    BY <1>4, <1>5, ScheduleFacts
  <2>1. PICK p \in JobsOf(l) : jobID[p] = n
    BY <1>4, <2>0, ScheduleFacts
  <2>2. p \in Jobs /\ mappedPE[p] = l /\ p < j
    BY <1>3, <1>5, <2>1, ScheduleFacts
  <2>3. ~HasRun(p)
    <3>1. ~Rested(l)
      BY <1>3 DEF Rested, JobsOf
    <3>2. HasRun(p) <=> jobID[p] <= jobIx[l]
      BY <1>1, <2>1, <3>1 DEF Progress
    <3>3. jobIx[l] < n
      <4>1. jobQueueIndex[l] <= n
        BY <1>1 DEF JobQueueInOrder
      <4>2. jobQueueIndex[l] = jobIx[l] + 1 + IF pc[l] = "exec" THEN 1 ELSE 0
        BY <1>1 DEF JobQueueInOrder
      <4>3. jobIx[l] \in Int /\ jobIx[l] + 1 <= jobQueueIndex[l]
        BY <1>1, <4>2 DEF Stamp
      <4> HIDE DEF n
      <4> QED BY <1>1, <1>4, <4>1, <4>3
    <3>4. jobIx[l] \in Int /\ n \in Int
      BY <1>1, <1>4 DEF Stamp
    <3> HIDE DEF n
    <3> QED BY <2>1, <3>2, <3>3, <3>4
  <2>4. nSentJobs \in Nat /\ p \in Nat /\ j \in Nat
    BY <1>3, <2>2, ScheduleTypes DEF TInv, GrtTypes, Jobs
  <2>5. p <= nSentJobs
    BY <1>3, <2>2, <2>4
  <2>6. PICK k \in DOMAIN q : q[k].subType = "JOB_ADD" /\ q[k].index = p
    BY <1>1, <1>4, <2>1, <2>3, <2>5 DEF AddsInOrder
  <2>7. k # 1
    BY <1>2, <2>2, <2>4, <2>6
  <2>8. j < p
    BY <1>1, <1>2, <2>6, <2>7 DEF AddsInOrder
  <2> QED BY <2>2, <2>4, <2>8
<1>6. jobID[j] = n
  BY <1>3, <1>4, <1>5
<1> QED BY <1>3, <1>6 DEF JobsOf

(* The queue of an LRT after it has received the first of its jobs there.  *)
LEMMA AddsLeft ==
  ASSUME TInv, TInv', NEW l \in LRT, NEW j \in JobsOf(l), AddsInOrder(l, notifQueue[l]),
         notifQueue[l] # <<>>, notifQueue'[l] = Tail(notifQueue[l]),
         Head(notifQueue[l]).subType = "JOB_ADD", j = Head(notifQueue[l]).index,
         jobID[j] = Len(jobQueue[l]), Len(jobQueue'[l]) = Len(jobQueue[l]) + 1,
         UNCHANGED <<ran, iteration, nSentJobs>>
  PROVE  AddsInOrder(l, notifQueue[l])'
<1> DEFINE q == notifQueue[l]
<1>0. PICK r : r = notifQueue'[l]
  OBVIOUS
<1>1. /\ \A n \in DOMAIN r : n \in Nat /\ n + 1 \in DOMAIN q /\ r[n] = q[n + 1] /\ 1 < n + 1
      /\ \A n \in DOMAIN q : n = 1 \/ n - 1 \in DOMAIN r
      /\ q[1].subType = "JOB_ADD" /\ q[1].index = j /\ 1 \in DOMAIN q /\ DOMAIN q \subseteq Nat
      /\ r \in Seq(Messages)
  <2>1. q \in Seq(Messages) /\ q # <<>> /\ r = Tail(q)
    BY <1>0, QueueDomains
  <2>2. /\ Len(q) \in Nat /\ DOMAIN q = 1..Len(q) /\ DOMAIN r = 1..(Len(q) - 1)
        /\ \A n \in 1..(Len(q) - 1) : r[n] = q[n + 1]
        /\ Head(q) = q[1] /\ 1 \in DOMAIN q /\ r \in Seq(Messages)
    BY <2>1, TailElements
  <2> QED BY <2>2
<1>2. AddsInOrder(l, q)
  OBVIOUS
<1> HIDE DEF q
<1>3. \A i : HasRun(i)' <=> HasRun(i)
  BY DEF HasRun
<1>4. j \in Jobs /\ mappedPE[j] = l /\ Len(jobQueue[l]) \in Nat
  BY QueueDomains DEF JobsOf
<1>5. ASSUME NEW n \in DOMAIN r, r[n].subType = "JOB_ADD"
      PROVE  LET i == r[n].index IN
             mappedPE[i] = l /\ ~HasRun(i)' /\ Len(jobQueue[l])' <= jobID[i] /\ i <= nSentJobs'
  <2>0. PICK i : i = r[n].index
    OBVIOUS
  <2>1. n + 1 \in DOMAIN q /\ r[n] = q[n + 1] /\ q[n + 1].subType = "JOB_ADD" /\ 1 < n + 1
    BY <1>1, <1>5
  <2>2. mappedPE[i] = l /\ ~HasRun(i) /\ Len(jobQueue[l]) <= jobID[i] /\ i <= nSentJobs /\ j < i
    BY <1>1, <1>2, <2>0, <2>1 DEF AddsInOrder
  <2>3. r[n] \in Messages
    BY <1>1, ElementOfSeq, LenProperties
  <2>4. i \in Jobs
    BY <1>5, <2>0, <2>3 DEF Messages, JobKinds
  <2>5. jobID[i] # jobID[j] /\ jobID[i] \in Nat
    BY <1>4, <2>2, <2>4, ScheduleFacts DEF Jobs
  <2>6. ~HasRun(i)'
    BY <1>3, <2>2
  <2>7. Len(jobQueue'[l]) <= jobID[i]
    BY <1>4, <2>2, <2>5
  <2> QED BY <2>0, <2>2, <2>6, <2>7 DEF HasRun
<1>6. ASSUME NEW n \in DOMAIN r, NEW m \in DOMAIN r, r[n].subType = "JOB_ADD",
             r[m].subType = "JOB_ADD", n < m
      PROVE  r[n].index < r[m].index
  <2>1. n + 1 < m + 1
    BY <1>1, <1>6
  <2> QED BY <1>1, <1>2, <1>6, <2>1 DEF AddsInOrder
<1>7. ASSUME NEW i \in JobsOf(l), ~HasRun(i)', Len(jobQueue[l])' <= jobID[i], i <= nSentJobs'
      PROVE  \E n \in DOMAIN r : r[n].subType = "JOB_ADD" /\ r[n].index = i
  <2>1. ~HasRun(i) /\ i <= nSentJobs /\ jobID[i] \in Nat
    BY <1>3, <1>7, ScheduleFacts
  <2>2. Len(jobQueue[l]) <= jobID[i] /\ i # j
    BY <1>4, <1>7, <2>1
  <2>3. PICK n \in DOMAIN q : q[n].subType = "JOB_ADD" /\ q[n].index = i
    BY <1>2, <2>1, <2>2 DEF AddsInOrder
  <2>4. n # 1
    BY <1>1, <2>2, <2>3
  <2>5. n - 1 \in DOMAIN r /\ n \in Nat
    BY <1>1, <2>4
  <2>6. r[n - 1] = q[n]
    BY <1>1, <2>5
  <2> QED BY <2>3, <2>5, <2>6
<1> QED BY <1>0, <1>5, <1>6, <1>7 DEF AddsInOrder, JobsOf

LEMMA HandleJobAddInOrder ==
  ASSUME TInv, TInv', PInv, OInv, NEW l \in LRT, Static!HandleJobAdd(l), UNCHANGED jitVars
  PROVE  OInv'
<1>0. PICK s, j : s = "JOB_ADD" /\ j = Head(notifQueue[l]).index
  OBVIOUS
<1>1. /\ Static!Pop(l, s)
      /\ jobQueue' = [jobQueue EXCEPT ![l] = Append(@, j)]
      /\ UNCHANGED <<jobQueueIndex, jobIx, lastJobID, jobStamps, run, planned, resolved>>
  BY <1>0 DEF Static!HandleJobAdd, jitVars
<1>2. /\ pc' = [pc EXCEPT ![l] = "drain"] /\ pc[l] \in {"wait", "drain"}
      /\ UNCHANGED <<unposted, toNotify, ran, nSentJobs, sentTo, nFinishedPE, iteration>>
      /\ notifQueue[l] # <<>> /\ Head(notifQueue[l]).subType = s
      /\ notifQueue'[l] = Tail(notifQueue[l])
  BY <1>1, PopMoves
<1>3. \A r \in Queues : r # l => notifQueue'[r] = notifQueue[r]
  BY <1>1, PopMoves
<1>4. NoneFinished(notifQueue[nLrt], notifQueue'[nLrt]) /\ OldOrSound
  BY <1>1, PopMoves
<1>5. j \in JobsOf(l) /\ ~HasRun(j) /\ j <= nSentJobs /\ jobID[j] = Len(jobQueue[l])
  BY <1>0, <1>2, NextAddIsNextJob
<1>6. /\ j \in Jobs /\ mappedPE[j] = l
      /\ \A k \in LRT : Len(jobQueue[k]) \in Nat /\ DOMAIN jobQueue[k] = 1..Len(jobQueue[k])
  BY <1>5, QueueDomains DEF JobsOf
<1>7. /\ Len(jobQueue'[l]) = Len(jobQueue[l]) + 1
      /\ DOMAIN jobQueue'[l] = 1..(Len(jobQueue[l]) + 1)
      /\ \A k \in 1..Len(jobQueue[l]) : jobQueue'[l][k] = jobQueue[l][k]
      /\ jobQueue'[l][Len(jobQueue[l]) + 1] = j
      /\ \A k \in LRT : k # l => jobQueue'[k] = jobQueue[k]
  <2>1. jobQueue'[l] = Append(jobQueue[l], j) /\ \A k \in LRT : k # l => jobQueue'[k] = jobQueue[k]
    BY <1>1 DEF TInv, LrtTypes
  <2>2. jobQueue[l] \in Seq(Jobs) /\ Append(jobQueue[l], j) \in Seq(Jobs)
    BY <1>6, QueueDomains, AppendProperties
  <2> QED BY <1>6, <2>1, <2>2, AppendProperties, LenProperties
<1>8. \A i : HasRun(i)' <=> HasRun(i)
  BY <1>2 DEF HasRun
<1>9. ~Rested(l) /\ ~Rested(l)' /\ \A k \in LRT : k # l => (Rested(k)' <=> Rested(k))
  <2>1. ~Rested(l) /\ ~Rested(l)'
    BY <1>5, <1>8 DEF Rested, JobsOf
  <2>2. \A k \in LRT : k # l => (Blank(k)' <=> Blank(k))
    BY <1>1, <1>7 DEF Blank
  <2> QED BY <1>8, <2>1, <2>2 DEF Rested, JobsOf
<1>10. Lasts
  BY <1>8, <1>9 DEF Lasts
<1>11. Counted' /\ HeldAreTrue' /\ Progress'
  <2>1. HeldAreTrue'
    BY <1>1, <1>8 DEF OInv, HeldAreTrue, StampIsTrue, JobsOf
  <2>2. Progress'
    BY <1>1, <1>8, <1>9 DEF OInv, Progress, JobsOf
  <2> QED BY <1>2, <2>1, <2>2 DEF OInv, Counted
<1>12. pc'[l] = "drain" /\ \A k \in LRT : k # l => pc'[k] = pc[k]
  BY <1>2, ElsewhereStays
<1>13. JobQueueInOrder'
  <2> SUFFICES ASSUME NEW k \in LRT
               PROVE  (/\ \A n \in DOMAIN jobQueue[k] : /\ mappedPE[jobQueue[k][n]] = k
                                     /\ jobID[jobQueue[k][n]] = n - 1
                                     /\ jobQueue[k][n] <= nSentJobs
                       /\ jobQueueIndex[k] <= Len(jobQueue[k])
                       /\ jobQueueIndex[k] = jobIx[k] + 1 + IF pc[k] = "exec" THEN 1 ELSE 0
                       /\ pc[k] \in InJob => jobQueueIndex[k] > 0)'
    BY DEF JobQueueInOrder
  <2>1. CASE k # l
    BY <1>1, <1>2, <1>7, <1>12, <2>1 DEF OInv, JobQueueInOrder
  <2>2. CASE k = l
    <3>1. ASSUME NEW n \in DOMAIN jobQueue'[l]
          PROVE  /\ mappedPE[jobQueue'[l][n]] = l /\ jobID[jobQueue'[l][n]] = n - 1
                 /\ jobQueue'[l][n] <= nSentJobs
      <4>1. CASE n \in DOMAIN jobQueue[l]
        BY <1>6, <1>7, <4>1 DEF OInv, JobQueueInOrder
      <4>2. CASE n = Len(jobQueue[l]) + 1
        BY <1>5, <1>6, <1>7, <4>2
      <4> QED BY <1>6, <1>7, <3>1, <4>1, <4>2
    <3>2. jobQueueIndex'[l] = jobQueueIndex[l] /\ jobQueueIndex[l] <= Len(jobQueue[l])
          /\ jobQueueIndex[l] \in Nat
      BY <1>1, QueueDomains DEF OInv, JobQueueInOrder
    <3>3. jobQueueIndex'[l] <= Len(jobQueue'[l])
      BY <1>6, <1>7, <3>2
    <3>4. /\ jobQueueIndex'[l] = jobIx'[l] + 1 + IF pc'[l] = "exec" THEN 1 ELSE 0
          /\ pc'[l] \notin InJob
      BY <1>1, <1>2, <1>12 DEF OInv, JobQueueInOrder, InJob
    <3> QED BY <1>2, <2>2, <3>1, <3>3, <3>4
  <2> QED BY <2>1, <2>2
<1>14. AddsAreOrdered'
  <2> SUFFICES ASSUME NEW k \in LRT PROVE AddsInOrder(k, notifQueue[k])'
    BY DEF AddsAreOrdered
  <2>1. AddsInOrder(k, notifQueue[k])
    BY DEF OInv, AddsAreOrdered
  <2>2. CASE k # l
    <3>1. notifQueue'[k] = notifQueue[k] /\ jobQueue'[k] = jobQueue[k]
      BY <1>3, <1>7, <2>2, ConstantTypes
    <3> QED BY <1>2, <1>8, <2>1, <3>1 DEF AddsInOrder, JobsOf
  <2>3. CASE k = l
    BY <1>0, <1>2, <1>5, <1>7, <2>1, <2>3, AddsLeft
  <2> QED BY <2>2, <2>3
<1>15. /\ GrtPhases' /\ LastIDs'
       /\ pc[grt] = "recv" => pc'[grt] = "recv"
       /\ pc'[grt] \in Outside => pc[grt] \in Outside
  BY <1>0, <1>1, <1>7, <1>10, PopPhases
<1>16. MessagesAreSound' /\ ConfigsHaveRun' /\ FinishedAreCounted(notifQueue[nLrt])'
  BY <1>1, <1>2, <1>4, <1>10, <1>15, TellingsKept
<1> QED BY <1>11, <1>13, <1>14, <1>15, <1>16 DEF OInv

-----------------------------------------------------------------------------
(* The messages that an LRT sends. *)

(* An LRT in a job, or at the broadcast after it, has got jobs.            *)
LEMMA BusyHasJobs ==
  ASSUME TInv, OInv, NEW l \in LRT, jobQueueIndex[l] > 0
  PROVE  /\ ~Rested(l)
         /\ \E j \in JobsOf(l) : jobID[j] = jobQueueIndex[l] - 1 /\ j = jobQueue[l][jobQueueIndex[l]]
                                 /\ j <= nSentJobs
         /\ \A j \in JobsOf(l) : HasRun(j) <=> jobID[j] <= jobIx[l]
<1>1. /\ jobQueueIndex[l] \in Nat /\ Len(jobQueue[l]) \in Nat
      /\ DOMAIN jobQueue[l] = 1..Len(jobQueue[l])
      /\ \A k \in DOMAIN jobQueue[l] : jobQueue[l][k] \in Jobs
  BY QueueDomains
<1>2. jobQueueIndex[l] <= Len(jobQueue[l])
  BY DEF OInv, JobQueueInOrder
<1>3. jobQueueIndex[l] \in DOMAIN jobQueue[l]
  BY <1>1, <1>2
<1>4. PICK j : j = jobQueue[l][jobQueueIndex[l]]
  OBVIOUS
<1>5. j \in JobsOf(l) /\ jobID[j] = jobQueueIndex[l] - 1 /\ j <= nSentJobs
  BY <1>1, <1>3, <1>4 DEF OInv, JobQueueInOrder, JobsOf
<1>6. ~Rested(l)
  BY DEF Rested, Blank
<1> QED BY <1>4, <1>5, <1>6 DEF OInv, Progress

LEMMA BusyHasIndex ==
  ASSUME OInv, NEW l \in LRT, pc[l] \in InJob
  PROVE  jobQueueIndex[l] > 0
  BY DEF OInv, JobQueueInOrder

(* Any push to another queue, by which no job begins or ends.              *)
LEMMA QuietPush ==
  ASSUME TInv, TInv', PInv, OInv, SameJobs, NEW l \in LRT, NEW q \in Queues, NEW m \in Messages,
         Static!Push(l, q, m), m.subType \notin {"JOB_ADD", "LRT_FINISHED_ITERATION"}, Sound(m, q)',
         UNCHANGED <<nSentJobs, nFinishedPE, planned, resolved, lastJobID>>,
         pc[grt] = "recv" => pc'[grt] = "recv",
         pc'[grt] \in Outside => pc[grt] \in Outside,
         GrtPhases'
  PROVE  OInv'
<1>1. LastIDs'
  BY DEF OInv, LastIDs
<1>2. \A r \in Queues : \A s : r # q \/ s # m.subType =>
        SameMessages(notifQueue[r], notifQueue'[r], s)
  BY PushMoves
<1>3. \A k \in LRT : SameMessages(notifQueue[k], notifQueue'[k], "JOB_ADD")
  BY <1>2, ConstantTypes
<1>4. NoneFinished(notifQueue[nLrt], notifQueue'[nLrt]) /\ OldOrSound
  BY PushMoves
<1> QED BY <1>1, <1>3, <1>4, QuietStep

(* What an LRT tells while it is in a job.                                 *)
LEMMA TellingInOrder ==
  ASSUME TInv, TInv', PInv, OInv, NEW l \in LRT, NEW q \in Queues, NEW m \in Messages,
         Static!Push(l, q, m), m.subType \in {"JOB_UPDATE_JOBSTAMP", "JOB_SENT_PARAM"},
         Sound(m, q), pc[l] \in InJob,
         pc' = pc \/ (pc[l] = "notify" /\ pc' = [pc EXCEPT ![l] = "endpass"]),
         UNCHANGED <<lrtVars, grtVars, ran, planned, resolved>>
  PROVE  OInv'
<1>1. UNCHANGED <<jobQueue, jobQueueIndex, jobIx, jobStamps, lastJobID, nSentJobs, sentTo,
                  nFinishedPE, iteration, ran>>
  BY DEF lrtVars, grtVars
<1>2. SameJobs
  <2>1. PICK p : p = "endpass"
    OBVIOUS
  <2>2. pc' = pc \/ (pc' = [pc EXCEPT ![l] = p] /\ (p = "exec" <=> pc[l] = "exec")
                     /\ (p \in InJob => jobQueueIndex[l] > 0))
    BY <2>1, BusyHasIndex
  <2> QED BY <1>1, <2>2, MoveIsQuiet DEF OInv
<1>3. Lasts /\ \A j : HasRun(j)' <=> HasRun(j)
  BY <1>2, SameJobsLast
<1>4. Sound(m, q)'
  BY <1>3, SoundLasts
<1>5. HasEnd(grt)' <=> HasEnd(grt)
  <2>1. \A r \in Queues : \A s : r # q \/ s # m.subType =>
          SameMessages(notifQueue[r], notifQueue'[r], s)
    BY PushMoves
  <2> QED BY <2>1, EndsKept, ConstantTypes
<1>6. \/ pc'[l] = "endpass" /\ pc[l] = "notify" /\ (\A k \in LRT : k # l => pc'[k] = pc[k])
      \/ pc' = pc
  <2>1. PICK p : p = "endpass"
    OBVIOUS
  <2> QED BY <2>1, ElsewhereStays
<1>7. \/ pc'[grt] = pc[grt]
      \/ pc[grt] \in {"exec", "notify"} /\ pc'[grt] \in {"notify", "endpass"}
  BY <1>6, ConstantTypes
<1>8. GrtPhases'
  BY <1>1, <1>3, <1>5, <1>7, GrtPhasesKept DEF OInv
<1>9. /\ pc[grt] = "recv" => pc'[grt] = "recv"
      /\ pc'[grt] \in Outside => pc[grt] \in Outside
  BY <1>7 DEF Outside
<1> QED BY <1>1, <1>2, <1>4, <1>8, <1>9, QuietPush

LEMMA NotifyInOrder ==
  ASSUME TInv, TInv', PInv, OInv, NEW l \in LRT, NotifyLRTJobStamp(l)
  PROVE  OInv'
<1>1. /\ pc[l] \in InJob /\ UNCHANGED <<lrtVars, grtVars, pc, ran, jitVars>>
      /\ \E i \in toNotify[l] : Static!Push(l, i, Static!Message("JOB_UPDATE_JOBSTAMP", l, jobIx[l]))
  BY DEF NotifyLRTJobStamp, At, Static!At, InJob
<1>2. PICK q, m :
        /\ q \in toNotify[l]
        /\ m = Static!Message("JOB_UPDATE_JOBSTAMP", l, jobIx[l])
        /\ Static!Push(l, q, m)
  BY <1>1
<1>3. q \in LRT /\ q \in Queues /\ q # nLrt /\ jobIx[l] \in Stamp
  BY <1>2, ConstantTypes DEF TInv, LrtTypes
<1>4. m \in Messages
  BY <1>2, <1>3, MessageTypes
<1>5. m.subType = "JOB_UPDATE_JOBSTAMP" /\ m.lrtID = l /\ m.index = jobIx[l]
  BY <1>2 DEF Static!Message
<1>6. StampIsTrue(l, jobIx[l])
  BY <1>1, BusyHasIndex, BusyHasJobs DEF StampIsTrue
<1>7. Sound(m, q)
  BY <1>3, <1>5, <1>6 DEF Sound
<1> QED BY <1>1, <1>2, <1>3, <1>4, <1>5, <1>7, TellingInOrder DEF jitVars

(* How many jobs an LRT has begun, and how many it has run.                *)
LEMMA NextIndex ==
  ASSUME TInv, OInv, NEW l \in LRT
  PROVE  /\ jobIx[l] \in Int /\ jobIx[l] >= -1 /\ jobQueueIndex[l] \in Nat
         /\ Len(jobQueue[l]) \in Nat /\ jobQueueIndex[l] <= Len(jobQueue[l])
         /\ pc[l] # "exec" => jobQueueIndex[l] = jobIx[l] + 1
         /\ pc[l] = "exec" => jobQueueIndex[l] = jobIx[l] + 2
<1>1. /\ jobIx[l] \in Stamp /\ jobQueueIndex[l] \in Nat /\ Len(jobQueue[l]) \in Nat
  BY QueueDomains
<1>2. jobIx[l] \in Int /\ jobIx[l] >= -1
  BY <1>1 DEF Stamp
<1>3. /\ jobQueueIndex[l] <= Len(jobQueue[l])
      /\ jobQueueIndex[l] = jobIx[l] + 1 + IF pc[l] = "exec" THEN 1 ELSE 0
  BY DEF OInv, JobQueueInOrder
<1> QED BY <1>1, <1>2, <1>3

LEMMA SendParamInOrder ==
  ASSUME TInv, TInv', PInv, OInv, NEW l \in LRT, SendParam(l)
  PROVE  OInv'
<1>1. /\ pc[l] = "notify" /\ pc' = [pc EXCEPT ![l] = "endpass"]
      /\ Static!CurrentJob(l) \in Config
      /\ UNCHANGED <<lrtVars, grtVars, ran, jitVars>>
  BY DEF SendParam, At, Static!At
<1>2. PICK m : m = Static!Message("JOB_SENT_PARAM", l, Static!CurrentJob(l)) /\ Static!Push(l, nLrt, m)
  BY DEF SendParam
<1>3. m \in Messages /\ nLrt \in Queues
  BY <1>1, <1>2, MessageTypes, ConstantTypes
<1>4. m.subType = "JOB_SENT_PARAM" /\ m.index = Static!CurrentJob(l)
  BY <1>2 DEF Static!Message
<1>5. pc[l] \in InJob
  BY <1>1 DEF InJob
<1>6. HasRun(Static!CurrentJob(l))
  <2>1. PICK j \in JobsOf(l) : jobID[j] = jobQueueIndex[l] - 1 /\ j = jobQueue[l][jobQueueIndex[l]]
    BY <1>5, BusyHasIndex, BusyHasJobs
  <2>2. jobQueueIndex[l] = jobIx[l] + 1 /\ jobIx[l] \in Int
    BY <1>1, NextIndex
  <2>3. HasRun(j)
    BY <1>5, <2>1, <2>2, BusyHasIndex, BusyHasJobs
  <2> QED BY <1>1, <2>1, <2>3, CurrentJobType
<1>7. Sound(m, nLrt)
  BY <1>4, <1>6 DEF Sound
<1> QED BY <1>1, <1>2, <1>3, <1>4, <1>5, <1>7, TellingInOrder DEF jitVars

-----------------------------------------------------------------------------
(* An LRT begins and ends a job. *)

(* In the last round, a GRT that has read its work has all of its jobs.    *)
LEMMA GrtHasItsWork ==
  ASSUME TInv, OInv, PInv, pc[grt] \in {"drain", "notify", "endpass"}, planned = NRounds,
         ~UnreadWork(grt)
  PROVE  /\ lastJobID[grt] = nJobPerPE[grt] - 1
         /\ ~Rested(grt) => \A j \in JobsOf(grt) : jobID[j] < Len(jobQueue[grt])
<1>1. \A k \in DOMAIN notifQueue[grt] :
        notifQueue[grt][k].subType \notin {"JOB_ADD", "LRT_END_ITERATION"}
  BY DEF UnreadWork
<1>2. lastJobID[grt] = nJobPerPE[grt] - 1
  <2>1. ~HasEnd(grt)
    BY <1>1 DEF HasEnd
  <2> QED BY <2>1 DEF OInv, GrtPhases, InJob
<1>3. ASSUME ~Rested(grt), NEW j \in JobsOf(grt)
      PROVE  jobID[j] < Len(jobQueue[grt])
  <2>1. /\ Len(jobQueue[grt]) \in Nat /\ jobID[j] \in Nat /\ jobIx[grt] \in Int
        /\ jobQueueIndex[grt] \in Nat
    BY QueueDomains, ScheduleFacts, ConstantTypes DEF JobsOf
  <2>2. CASE HasRun(j)
    <3>1. jobID[j] <= jobIx[grt]
      BY <1>3, <2>2, ConstantTypes DEF OInv, Progress
    <3>2. jobQueueIndex[grt] <= Len(jobQueue[grt]) /\ jobQueueIndex[grt] = jobIx[grt] + 1
      BY NextIndex, ConstantTypes
    <3> QED BY <2>1, <3>1, <3>2
  <2>3. CASE ~HasRun(j)
    <3>1. j <= nSentJobs
      <4>1. SentUpTo(planned) /\ j \in Jobs
        BY DEF PInv, Rounds, InRun, JobsOf
      <4> QED BY <4>1, RoundAssumption DEF SentUpTo
    <3>2. AddsInOrder(grt, notifQueue[grt])
      BY ConstantTypes DEF OInv, AddsAreOrdered
    <3>3. ~(Len(jobQueue[grt]) <= jobID[j])
      BY <1>1, <2>3, <3>1, <3>2 DEF AddsInOrder
    <3> QED BY <2>1, <3>3
  <2> QED BY <2>2, <2>3
<1> QED BY <1>2, <1>3

LEMMA NextJobIsNext ==
  ASSUME TInv, OInv, NEW l \in LRT, Static!GotJobToDo(l), pc[l] # "exec"
  PROVE  /\ Static!NextJob(l) \in JobsOf(l) /\ ~HasRun(Static!NextJob(l))
         /\ Static!NextJob(l) = jobQueue[l][jobQueueIndex[l] + 1]
         /\ jobID[Static!NextJob(l)] = jobQueueIndex[l] /\ ~Rested(l)
         /\ Static!NextJob(l) <= nSentJobs
<1>1. /\ jobQueueIndex[l] \in Nat /\ Len(jobQueue[l]) \in Nat /\ jobIx[l] \in Int
      /\ DOMAIN jobQueue[l] = 1..Len(jobQueue[l])
      /\ \A k \in DOMAIN jobQueue[l] : jobQueue[l][k] \in Jobs
  BY QueueDomains, ConstantTypes
<1>2. jobQueueIndex[l] < Len(jobQueue[l])
  BY DEF Static!GotJobToDo
<1>3. jobQueueIndex[l] + 1 \in DOMAIN jobQueue[l]
  BY <1>1, <1>2
<1>4. PICK j : j = jobQueue[l][jobQueueIndex[l] + 1]
  OBVIOUS
<1>5. j \in JobsOf(l) /\ jobID[j] = jobQueueIndex[l] /\ j <= nSentJobs
  BY <1>1, <1>3, <1>4 DEF OInv, JobQueueInOrder, JobsOf
<1>6. ~Rested(l)
  BY <1>1, <1>2, EmptySeq DEF Rested, Blank
<1>7. ~HasRun(j)
  <2>1. jobQueueIndex[l] = jobIx[l] + 1
    BY NextIndex
  <2>2. HasRun(j) <=> jobID[j] <= jobIx[l]
    BY <1>5, <1>6 DEF OInv, Progress
  <2> QED BY <1>1, <1>5, <2>1, <2>2
<1> QED BY <1>4, <1>5, <1>6, <1>7 DEF Static!NextJob

LEMMA StartJobInOrder ==
  ASSUME TInv, TInv', PInv, OInv, NEW l \in LRT, Static!StartJob(l), UNCHANGED jitVars
  PROVE  OInv'
<1>1. /\ Static!Drained(l) /\ pc[l] = "drain" /\ Static!GotJobToDo(l)
      /\ jobQueueIndex' = [jobQueueIndex EXCEPT ![l] = @ + 1]
      /\ pc' = [pc EXCEPT ![l] = "exec"]
      /\ UNCHANGED <<notifQueue, unposted, jobQueue, jobIx, lastJobID, jobStamps, ran, planned, resolved>>
      /\ UNCHANGED <<nSentJobs, sentTo, nFinishedPE, iteration>>
  BY DEF Static!StartJob, Static!Drained, Static!At, Static!queueVars, Static!grtVars, jitVars
<1>2. /\ jobQueueIndex'[l] = jobQueueIndex[l] + 1 /\ jobQueueIndex[l] \in Nat
      /\ \A k \in LRT : k # l => jobQueueIndex'[k] = jobQueueIndex[k]
  BY <1>1 DEF TInv, LrtTypes
<1>3. pc'[l] = "exec" /\ \A k \in LRT : k # l => pc'[k] = pc[k]
  BY <1>1, ElsewhereStays
<1>4. \A j : HasRun(j)' <=> HasRun(j)
  BY <1>1 DEF HasRun
<1>5. ~Rested(l) /\ ~Rested(l)' /\ \A k \in LRT : k # l => (Rested(k)' <=> Rested(k))
  <2>1. ~Rested(l)
    BY <1>1, NextJobIsNext
  <2>2. ~Rested(l)'
    BY <1>2 DEF Rested, Blank
  <2>3. \A k \in LRT : k # l => (Blank(k)' <=> Blank(k))
    BY <1>1, <1>2 DEF Blank
  <2> QED BY <1>4, <2>1, <2>2, <2>3 DEF Rested, JobsOf
<1>6. Lasts
  BY <1>4, <1>5 DEF Lasts
<1>7. Counted' /\ HeldAreTrue' /\ Progress'
  <2>1. HeldAreTrue'
    BY <1>1, <1>4 DEF OInv, HeldAreTrue, StampIsTrue, JobsOf
  <2>2. Progress'
    BY <1>1, <1>4, <1>5 DEF OInv, Progress, JobsOf
  <2> QED BY <1>1, <2>1, <2>2 DEF OInv, Counted
<1>8. JobQueueInOrder'
  <2> SUFFICES ASSUME NEW k \in LRT
               PROVE  (/\ jobQueueIndex[k] <= Len(jobQueue[k])
                       /\ jobQueueIndex[k] = jobIx[k] + 1 + IF pc[k] = "exec" THEN 1 ELSE 0
                       /\ pc[k] \in InJob => jobQueueIndex[k] > 0)'
    BY <1>1 DEF OInv, JobQueueInOrder
  <2>1. CASE k # l
    BY <1>1, <1>2, <1>3, <2>1 DEF OInv, JobQueueInOrder
  <2>2. CASE k = l
    <3>1. jobQueueIndex[l] < Len(jobQueue[l]) /\ Len(jobQueue[l]) \in Nat /\ jobIx[l] \in Int
      BY <1>1, QueueDomains, ConstantTypes DEF Static!GotJobToDo
    <3>2. jobQueueIndex[l] = jobIx[l] + 1
      BY <1>1, NextIndex
    <3> QED BY <1>1, <1>2, <1>3, <2>2, <3>1, <3>2
  <2> QED BY <2>1, <2>2
<1>9. /\ \A k \in LRT : SameMessages(notifQueue[k], notifQueue'[k], "JOB_ADD")
      /\ NoneFinished(notifQueue[nLrt], notifQueue'[nLrt]) /\ OldOrSound
  BY <1>1, SilentMoves, ConstantTypes
<1>10. AddsAreOrdered'
  BY <1>1, <1>9, AllAddsKept DEF OInv
<1>11. GrtPhases'
  <2>1. CASE l # grt
    <3>1. pc'[grt] = pc[grt]
      BY <1>3, <2>1, ConstantTypes
    <3>2. HasEnd(grt)' <=> HasEnd(grt)
      BY <1>1 DEF HasEnd
    <3> QED BY <1>1, <1>4, <1>6, <3>1, <3>2, GrtPhasesKept DEF OInv
  <2>2. CASE l = grt
    <3>1. planned = NRounds => HasEnd(grt)' \/ lastJobID'[grt] = nJobPerPE[grt] - 1
      BY <1>1, <2>2 DEF OInv, GrtPhases, HasEnd
    <3>2. pc'[grt] = "exec" /\ pc[grt] = "drain"
      BY <1>1, <1>3, <2>2
    <3> QED BY <1>1, <1>4, <3>1, <3>2 DEF OInv, GrtPhases, Outside
  <2> QED BY <2>1, <2>2
<1>12. /\ pc[grt] = "recv" => pc'[grt] = "recv"
       /\ pc'[grt] \in Outside => pc[grt] \in Outside
       /\ LastIDs'
  BY <1>1, <1>3, ConstantTypes DEF Outside, OInv, LastIDs
<1>13. MessagesAreSound' /\ ConfigsHaveRun' /\ FinishedAreCounted(notifQueue[nLrt])'
  BY <1>1, <1>6, <1>9, <1>12, TellingsKept
<1> QED BY <1>7, <1>8, <1>10, <1>11, <1>12, <1>13 DEF OInv

(* The job that executes is the one after the last that has run.           *)
LEMMA CurrentJobIsNext ==
  ASSUME TInv, OInv, NEW l \in LRT, pc[l] = "exec"
  PROVE  /\ Static!CurrentJob(l) \in JobsOf(l) /\ ~HasRun(Static!CurrentJob(l)) /\ ~Rested(l)
         /\ jobID[Static!CurrentJob(l)] = jobIx[l] + 1
         /\ jobID[Static!CurrentJob(l)] < Len(jobQueue[l])
         /\ Static!CurrentJob(l) <= nSentJobs
         /\ \A j \in JobsOf(l) : HasRun(j) <=> jobID[j] <= jobIx[l]
<1>1. /\ jobIx[l] \in Int /\ jobQueueIndex[l] \in Nat /\ Len(jobQueue[l]) \in Nat
      /\ jobQueueIndex[l] <= Len(jobQueue[l]) /\ jobQueueIndex[l] = jobIx[l] + 2
      /\ jobIx[l] >= -1
  BY NextIndex
<1>2. jobQueueIndex[l] > 0
  BY <1>1
<1>3. PICK j \in JobsOf(l) : /\ jobID[j] = jobQueueIndex[l] - 1 /\ j = jobQueue[l][jobQueueIndex[l]]
                             /\ j <= nSentJobs
  BY <1>2, BusyHasJobs
<1>4. ~Rested(l) /\ \A p \in JobsOf(l) : HasRun(p) <=> jobID[p] <= jobIx[l]
  BY <1>2, BusyHasJobs
<1>5. jobID[j] = jobIx[l] + 1 /\ jobID[j] < Len(jobQueue[l]) /\ ~HasRun(j)
  BY <1>1, <1>3, <1>4
<1>6. Static!CurrentJob(l) = j
  BY <1>3 DEF Static!CurrentJob
<1> QED BY <1>3, <1>4, <1>5, <1>6

LEMMA FinishJobInOrder ==
  ASSUME TInv, TInv', PInv, OInv, NEW l \in LRT, Static!FinishJob(l), UNCHANGED jitVars
  PROVE  OInv'
<1>0. PICK j, s : j = Static!CurrentJob(l) /\ s = "notify"
  OBVIOUS
<1>1. /\ pc[l] = "exec" /\ pc' = [pc EXCEPT ![l] = s]
      /\ ran' = [ran EXCEPT ![j] = @ + 1]
      /\ jobIx' = [jobIx EXCEPT ![l] = @ + 1]
      /\ jobStamps' = [jobStamps EXCEPT ![l][l] = jobIx[l] + 1]
      /\ UNCHANGED <<jobQueue, jobQueueIndex, lastJobID, nSentJobs, sentTo, nFinishedPE,
                     iteration, run, planned, resolved>>
  BY <1>0 DEF Static!FinishJob, Static!At, Static!grtVars, jitVars
<1>2. \/ notifQueue' = notifQueue
      \/ Static!Push(l, nLrt, Static!Message("TRACE_LRT", l, j))
  BY <1>0 DEF Static!FinishJob, Static!queueVars
<1>3. /\ j \in JobsOf(l) /\ ~HasRun(j) /\ ~Rested(l) /\ jobID[j] = jobIx[l] + 1
      /\ jobID[j] < Len(jobQueue[l]) /\ j <= nSentJobs
      /\ \A p \in JobsOf(l) : HasRun(p) <=> jobID[p] <= jobIx[l]
  BY <1>0, <1>1, CurrentJobIsNext
<1>4. /\ j \in Jobs /\ mappedPE[j] = l /\ jobID[j] \in Nat /\ jobIx[l] \in Int
      /\ Len(jobQueue[l]) \in Nat /\ jobQueueIndex[l] = jobIx[l] + 2
  BY <1>1, <1>3, ScheduleFacts, NextIndex DEF JobsOf
<1>5. /\ ran' \in [Jobs -> Nat] /\ ran \in [Jobs -> Nat] /\ jobIx \in [LRT -> Stamp]
      /\ jobStamps \in [LRT -> [LRT -> Stamp]] /\ iteration \in Nat
  BY DEF TInv, LrtTypes, GrtTypes
<1>6. \A p \in Jobs : HasRun(p)' <=> HasRun(p) \/ p = j
  <2>1. ran[j] + 1 = iteration /\ ran[j] \in Nat
    BY <1>3, <1>4, <1>5 DEF OInv, Counted, HasRun
  <2>2. \A p \in Jobs : ran'[p] = IF p = j THEN ran[j] + 1 ELSE ran[p]
    BY <1>1, <1>4, <1>5
  <2> QED BY <1>1, <1>3, <1>4, <2>1, <2>2 DEF HasRun
<1>7. /\ jobIx'[l] = jobIx[l] + 1 /\ jobStamps'[l][l] = jobIx[l] + 1
      /\ \A k \in LRT : k # l => jobIx'[k] = jobIx[k]
      /\ \A k, i \in LRT : k # l \/ i # l => jobStamps'[k][i] = jobStamps[k][i]
  BY <1>1, <1>5
<1>8. pc'[l] = "notify" /\ \A k \in LRT : k # l => pc'[k] = pc[k]
  <2>1. pc'[l] = s /\ \A k \in LRT : k # l => pc'[k] = pc[k]
    BY <1>1, ElsewhereStays
  <2> QED BY <1>0, <2>1
<1>9. Lasts
  <2>1. \A k \in LRT : k # l => (Blank(k)' <=> Blank(k))
    BY <1>1, <1>7 DEF Blank
  <2> QED BY <1>3, <1>6, <2>1 DEF Lasts, Rested, JobsOf
<1>10. Counted'
  <2> SUFFICES ASSUME NEW p \in Jobs PROVE ran'[p] = iteration' \/ ran'[p] + 1 = iteration'
    BY DEF Counted
  <2>1. CASE p = j
    BY <1>6, <2>1 DEF HasRun
  <2>2. CASE p # j
    BY <1>1, <1>4, <1>5, <2>2 DEF OInv, Counted
  <2> QED BY <2>1, <2>2
<1>11. Progress'
  <2> SUFFICES ASSUME NEW k \in LRT, ~Rested(k)', NEW p \in JobsOf(k)
               PROVE  HasRun(p)' <=> jobID[p] <= jobIx'[k]
    BY DEF Progress, JobsOf
  <2>0. p \in Jobs /\ mappedPE[p] = k /\ jobID[p] \in Nat
    BY ScheduleFacts DEF JobsOf
  <2>1. CASE k # l
    <3>1. HasRun(p) <=> jobID[p] <= jobIx[k]
      BY <1>9, <2>1 DEF OInv, Progress, Lasts
    <3> QED BY <1>4, <1>6, <1>7, <2>0, <2>1, <3>1
  <2>2. CASE k = l
    <3>1. HasRun(p) <=> jobID[p] <= jobIx[l]
      BY <1>3, <2>2
    <3>2. jobID[p] = jobID[j] => p = j
      BY <1>4, <2>0, <2>2, ScheduleFacts
    <3> QED BY <1>3, <1>4, <1>6, <1>7, <2>0, <2>2, <3>1, <3>2
  <2> QED BY <2>1, <2>2
<1>12. JobQueueInOrder'
  <2> SUFFICES ASSUME NEW k \in LRT
               PROVE  (/\ jobQueueIndex[k] = jobIx[k] + 1 + IF pc[k] = "exec" THEN 1 ELSE 0
                       /\ pc[k] \in InJob => jobQueueIndex[k] > 0)'
    BY <1>1 DEF OInv, JobQueueInOrder
  <2>1. CASE k # l
    BY <1>1, <1>7, <1>8, <2>1 DEF OInv, JobQueueInOrder
  <2>2. CASE k = l
    <3>1. jobQueueIndex'[l] = jobIx'[l] + 1 + 0 /\ jobQueueIndex'[l] > 0
      <4>1. jobIx[l] >= -1
        BY NextIndex
      <4> QED BY <1>1, <1>4, <1>7, <4>1
    <3> QED BY <1>8, <2>2, <3>1
  <2> QED BY <2>1, <2>2
<1>13. HeldAreTrue'
  <2> SUFFICES ASSUME NEW k \in LRT, NEW i \in LRT
               PROVE  StampIsTrue(i, jobStamps[k][i])'
    BY DEF HeldAreTrue
  <2>1. CASE k = l /\ i = l
    <3>1. ASSUME NEW p \in JobsOf(l), jobID[p] <= jobIx[l] + 1
          PROVE  HasRun(p)'
      <4>1. p \in Jobs /\ jobID[p] \in Nat /\ (jobID[p] = jobID[j] => p = j)
        BY <1>4, ScheduleFacts DEF JobsOf
      <4>2. jobID[p] <= jobIx[l] => HasRun(p)
        BY <1>3
      <4> QED BY <1>3, <1>4, <1>6, <3>1, <4>1, <4>2
    <3> QED BY <1>7, <2>1, <3>1 DEF StampIsTrue, JobsOf
  <2>2. CASE ~(k = l /\ i = l)
    <3>1. PICK x : x = jobStamps[k][i]
      OBVIOUS
    <3>2. jobStamps'[k][i] = x /\ StampIsTrue(i, x)
      BY <1>7, <2>2, <3>1 DEF OInv, HeldAreTrue
    <3>3. StampIsTrue(i, x)'
      BY <1>9, <3>2, TrueStampsLast
    <3> QED BY <3>2, <3>3 DEF StampIsTrue
  <2> QED BY <2>1, <2>2
<1>14. PICK m : m = Static!Message("TRACE_LRT", l, j)
  OBVIOUS
<1>15. m \in Messages /\ m.subType = "TRACE_LRT" /\ nLrt \in Queues /\ nLrt # grt /\ nLrt \notin LRT
  BY <1>4, <1>14, MessageTypes, ConstantTypes DEF Static!Message
<1>16. /\ \A k \in LRT : notifQueue'[k] = notifQueue[k]
       /\ NoneFinished(notifQueue[nLrt], notifQueue'[nLrt])
       /\ OldOrSound
  <2>1. CASE notifQueue' = notifQueue
    BY <2>1, SilentMoves
  <2>2. CASE Static!Push(l, nLrt, m)
    <3>1. \A r \in Queues : r # nLrt => notifQueue'[r] = notifQueue[r]
      BY <1>15, <2>2, PushMoves
    <3>2. NoneFinished(notifQueue[nLrt], notifQueue'[nLrt])
      BY <1>15, <2>2, PushMoves
    <3>3. Sound(m, nLrt)'
      BY <1>15 DEF Sound
    <3>4. OldOrSound
      BY <1>15, <2>2, <3>3, PushMoves
    <3> QED BY <1>15, <3>1, <3>2, <3>4, ConstantTypes
  <2> QED BY <1>2, <1>14, <2>1, <2>2
<1>17. AddsAreOrdered'
  <2> SUFFICES ASSUME NEW k \in LRT PROVE AddsInOrder(k, notifQueue[k])'
    BY DEF AddsAreOrdered
  <2>1. AddsInOrder(k, notifQueue[k])
    BY DEF OInv, AddsAreOrdered
  <2>2. \A p \in JobsOf(k) : Len(jobQueue[k]) <= jobID[p] => (HasRun(p)' <=> HasRun(p))
    <3> SUFFICES ASSUME NEW p \in JobsOf(k), Len(jobQueue[k]) <= jobID[p] PROVE p # j
      BY <1>6 DEF JobsOf
    <3> QED BY <1>3, <1>4 DEF JobsOf
  <2>3. \A n \in DOMAIN notifQueue[k] :
          notifQueue[k][n].subType = "JOB_ADD" => notifQueue[k][n].index \in Jobs
    <3> SUFFICES ASSUME NEW n \in DOMAIN notifQueue[k], notifQueue[k][n].subType = "JOB_ADD"
                 PROVE  notifQueue[k][n].index \in Jobs
      OBVIOUS
    <3>1. notifQueue[k][n] \in Messages
      BY QueueDomains, ElementOfSeq, LenProperties
    <3> QED BY <3>1 DEF Messages, JobKinds
  <2>4. notifQueue'[k] = notifQueue[k] /\ jobQueue'[k] = jobQueue[k] /\ nSentJobs' = nSentJobs
    BY <1>1, <1>16
  <2> QED BY <2>1, <2>2, <2>3, <2>4 DEF AddsInOrder, JobsOf
<1>18. GrtPhases'
  <2>1. HasEnd(grt)' <=> HasEnd(grt)
    BY <1>16, ConstantTypes DEF HasEnd
  <2>2. \/ pc'[grt] = pc[grt]
        \/ pc[grt] \in {"exec", "notify"} /\ pc'[grt] \in {"notify", "endpass"}
    BY <1>1, <1>8, ConstantTypes
  <2>3. \A p \in Jobs : nSentJobs < p /\ HasRun(p)' => HasRun(p)
    <3>1. nSentJobs \in Int /\ j \in Int
      BY <1>4, ScheduleTypes DEF TInv, GrtTypes, Jobs
    <3> QED BY <1>3, <1>6, <3>1
  <2> QED BY <1>1, <1>9, <1>16, <2>1, <2>2, <2>3, GrtPhasesKept DEF OInv
<1>19. /\ pc[grt] = "recv" => pc'[grt] = "recv"
       /\ pc'[grt] \in Outside => pc[grt] \in Outside
       /\ LastIDs'
  BY <1>1, <1>8, ConstantTypes DEF Outside, OInv, LastIDs
<1>20. MessagesAreSound' /\ ConfigsHaveRun' /\ FinishedAreCounted(notifQueue[nLrt])'
  BY <1>1, <1>9, <1>16, <1>19, TellingsKept
<1> QED BY <1>10, <1>11, <1>12, <1>13, <1>17, <1>18, <1>19, <1>20 DEF OInv

-----------------------------------------------------------------------------
(* An LRT ends a pass, and at last its iteration. *)

(* An LRT without jobs has nothing to do.                                  *)
LEMMA NoJobsRested ==
  ASSUME TInv, OInv, NEW l \in LRT, JobsOf(l) = {}
  PROVE  Rested(l)
<1>1. /\ jobQueue[l] \in Seq(Jobs) /\ jobQueueIndex[l] \in Nat /\ jobIx[l] \in Int
      /\ Len(jobQueue[l]) \in Nat /\ DOMAIN jobQueue[l] = 1..Len(jobQueue[l])
      /\ jobQueueIndex[l] <= Len(jobQueue[l]) /\ jobIx[l] >= -1
      /\ pc[l] # "exec" => jobQueueIndex[l] = jobIx[l] + 1
      /\ pc[l] = "exec" => jobQueueIndex[l] = jobIx[l] + 2
  BY QueueDomains, NextIndex
<1>2. DOMAIN jobQueue[l] = {}
  <2> SUFFICES ASSUME NEW k \in DOMAIN jobQueue[l] PROVE FALSE
    OBVIOUS
  <2>1. jobQueue[l][k] \in Jobs /\ mappedPE[jobQueue[l][k]] = l
    BY QueueDomains DEF OInv, JobQueueInOrder
  <2> QED BY <2>1 DEF JobsOf
<1>3. jobQueue[l] = <<>> /\ Len(jobQueue[l]) = 0
  <2>1. Len(jobQueue[l]) # 0 => 1 \in 1..Len(jobQueue[l])
    BY <1>1
  <2> QED BY <1>1, <1>2, <2>1, EmptySeq
<1>4. jobQueueIndex[l] = 0 /\ jobIx[l] = -1
  BY <1>1, <1>3
<1> QED BY <1>3, <1>4 DEF Rested, Blank

(* The jobs of a job queue have IDs below the number of jobs of the LRT.   *)
LEMMA JobQueueFits ==
  ASSUME TInv, OInv, NEW l \in LRT
  PROVE  Len(jobQueue[l]) \in Nat /\ Len(jobQueue[l]) <= nJobPerPE[l]
<1>1. Len(jobQueue[l]) \in Nat /\ DOMAIN jobQueue[l] = 1..Len(jobQueue[l]) /\ nJobPerPE[l] \in Nat
  BY QueueDomains, ScheduleFacts
<1>2. CASE Len(jobQueue[l]) > 0
  <2>1. Len(jobQueue[l]) \in DOMAIN jobQueue[l]
    BY <1>1, <1>2
  <2>2. PICK j \in Jobs : j = jobQueue[l][Len(jobQueue[l])]
    BY <2>1, QueueDomains
  <2>3. mappedPE[j] = l /\ jobID[j] = Len(jobQueue[l]) - 1
    BY <2>1, <2>2 DEF OInv, JobQueueInOrder
  <2>4. jobID[j] < nJobPerPE[l]
    BY <2>3, ScheduleFacts
  <2> QED BY <1>1, <2>3, <2>4
<1> QED BY <1>1, <1>2

(* An LRT that counts its last job as done has executed all of them.       *)
LEMMA DoneHasRun ==
  ASSUME TInv, OInv, NEW l \in LRT, Static!DoneWithIteration(l)
  PROVE  /\ \A j \in JobsOf(l) : HasRun(j)
         /\ ~Rested(l) /\ l \in Activated
<1>1. /\ jobIx[l] = nJobPerPE[l] - 1 /\ jobIx[l] >= 0 /\ nJobPerPE[l] \in Nat
  BY ScheduleFacts DEF OInv, LastIDs, Static!DoneWithIteration
<1>2. ~Rested(l)
  BY <1>1 DEF Rested, Blank
<1>3. \A j \in JobsOf(l) : HasRun(j)
  <2> TAKE j \in JobsOf(l)
  <2>1. jobID[j] \in Nat /\ jobID[j] < nJobPerPE[l]
    BY ScheduleFacts DEF JobsOf
  <2>2. jobID[j] <= jobIx[l]
    BY <1>1, <2>1
  <2> QED BY <1>2, <2>2 DEF OInv, Progress
<1>4. l \in Activated
  BY <1>2, NoJobsRested, ScheduleTypes DEF JobsOf
<1> QED BY <1>2, <1>3, <1>4

(* The GRT leaves run without having ended its iteration only if it has no *)
(* job in it.                                                              *)
LEMMA GrtWithoutJobIsRested ==
  ASSUME TInv, OInv, pc[grt] # "exec",
         ~Static!GotJobToDo(grt), ~Static!DoneWithIteration(grt),
         lastJobID[grt] = nJobPerPE[grt] - 1,
         ~Rested(grt) => \A j \in JobsOf(grt) : jobID[j] < Len(jobQueue[grt])
  PROVE  Rested(grt)
<1> SUFFICES ASSUME ~Rested(grt) PROVE FALSE
  OBVIOUS
<1>1. PICK n \in Nat : n = nJobPerPE[grt]
  BY ScheduleFacts, ConstantTypes
<1>2. n > 0
  <2>1. PICK j \in JobsOf(grt) : TRUE
    BY NoJobsRested, ConstantTypes
  <2>2. jobID[j] \in Nat /\ jobID[j] < n
    BY <1>1, ScheduleFacts DEF JobsOf
  <2> QED BY <1>1, <2>2
<1>3. PICK j \in JobsOf(grt) : jobID[j] = n - 1
  <2>1. n - 1 \in Nat /\ n - 1 < n
    BY <1>2
  <2> QED BY <1>1, <2>1, ScheduleFacts, ConstantTypes
<1>4. Len(jobQueue[grt]) \in Nat /\ Len(jobQueue[grt]) <= n /\ n - 1 < Len(jobQueue[grt])
  BY <1>1, <1>3, JobQueueFits, ConstantTypes
<1>5. /\ jobQueueIndex[grt] \in Nat /\ jobIx[grt] \in Int
      /\ jobQueueIndex[grt] <= Len(jobQueue[grt])
      /\ jobQueueIndex[grt] = jobIx[grt] + 1
  BY NextIndex, ConstantTypes
<1>6. ~(jobQueueIndex[grt] < Len(jobQueue[grt]))
  BY DEF Static!GotJobToDo
<1>7. jobIx[grt] = n - 1
  BY <1>4, <1>5, <1>6
<1> QED BY <1>1, <1>2, <1>7 DEF Static!DoneWithIteration

(* Where LRT l goes when it has no job to do.                              *)
AfterLastJob(l) == IF l # grt THEN "wait" ELSE IF planned < NRounds THEN "resolve" ELSE "recv"

LEMMA PassCases ==
  ASSUME TInv, NEW l \in LRT, NEW resume \in {"wait", "drain"}, EndPass(l, resume)
  PROVE  /\ UNCHANGED <<nSentJobs, sentTo, nFinishedPE, iteration, ran, planned, resolved>>
         /\ \E p : /\ pc' = [pc EXCEPT ![l] = p]
                   /\ \/ /\ Static!DoneWithIteration(l) /\ Static!ResetLrt(l)
                         /\ p = AfterLastJob(l)
                         /\ IF l = grt THEN UNCHANGED queueVars
                            ELSE Static!Push(l, nLrt, Static!Message("LRT_FINISHED_ITERATION", l, -1))
                      \/ /\ ~Static!DoneWithIteration(l) /\ UNCHANGED <<queueVars, lrtVars>>
                         /\ \/ Static!GotJobToDo(l) /\ p = resume
                            \/ ~Static!GotJobToDo(l) /\ p = "broadcast" /\ jobIx[l] >= 0
                            \/ ~Static!GotJobToDo(l) /\ p = AfterLastJob(l)
<1>1. UNCHANGED <<nSentJobs, sentTo, nFinishedPE, iteration, ran, planned, resolved>>
  BY DEF EndPass, grtVars
<1>2. CASE Static!DoneWithIteration(l)
  <2>1. /\ Static!ResetLrt(l)
        /\ IF l = grt THEN UNCHANGED queueVars
           ELSE Static!Push(l, nLrt, Static!Message("LRT_FINISHED_ITERATION", l, -1))
    BY <1>2 DEF EndPass
  <2>2. jobQueue'[l] = <<>> /\ jobQueueIndex'[l] = 0 /\ jobIx'[l] = -1
    BY <2>1 DEF Static!ResetLrt, Static!ClearJobQueue, TInv, LrtTypes
  <2>3. ~Static!GotJobToDo(l)'
    BY <2>2, EmptySeq DEF Static!GotJobToDo
  <2>4. pc' = [pc EXCEPT ![l] = AfterLastJob(l)]
    BY <2>2, <2>3 DEF EndPass, DoneWithCurrentJobs, NoMoreJobs, AfterLastJob
  <2> QED BY <1>1, <1>2, <2>1, <2>4
<1>3. CASE ~Static!DoneWithIteration(l)
  <2>1. UNCHANGED <<queueVars, lrtVars>>
    BY <1>3 DEF EndPass
  <2>2. Static!GotJobToDo(l)' <=> Static!GotJobToDo(l)
    BY <2>1 DEF Static!GotJobToDo, lrtVars
  <2>3. jobIx'[l] = jobIx[l]
    BY <2>1 DEF lrtVars
  <2>4. CASE Static!GotJobToDo(l)
    <3>1. pc' = [pc EXCEPT ![l] = resume]
      BY <2>2, <2>4 DEF EndPass
    <3> QED BY <1>1, <1>3, <2>1, <2>4, <3>1
  <2>5. CASE ~Static!GotJobToDo(l)
    <3>1. \/ pc' = [pc EXCEPT ![l] = "broadcast"] /\ jobIx[l] >= 0
          \/ pc' = [pc EXCEPT ![l] = AfterLastJob(l)]
      BY <2>2, <2>3, <2>5 DEF EndPass, DoneWithCurrentJobs, NoMoreJobs, AfterLastJob
    <3> QED BY <1>1, <1>3, <2>1, <2>5, <3>1
  <2> QED BY <2>4, <2>5
<1> QED BY <1>2, <1>3

(* The place of the GRT after a pass, its own or that of another LRT.      *)
LEMMA PassPhases ==
  ASSUME TInv, OInv, Lasts, NEW l \in LRT, NEW p, pc' = [pc EXCEPT ![l] = p],
         pc[l] \in {"drain", "notify", "endpass", "broadcast"},
         UNCHANGED <<nSentJobs, sentTo, iteration, ran, planned>>,
         HasEnd(grt)' <=> HasEnd(grt),
         l # grt => lastJobID'[grt] = lastJobID[grt] /\ jobQueue'[grt] = jobQueue[grt],
         l = grt => /\ p \in {"wait", "drain", "broadcast", "resolve", "recv"}
                    /\ p \in {"wait", "drain"} /\ planned = NRounds =>
                         HasEnd(grt) \/ lastJobID'[grt] = nJobPerPE[grt] - 1
                    /\ p = "broadcast" => planned # NRounds
                    /\ p = "recv" => Rested(grt)'
  PROVE  /\ GrtPhases'
         /\ pc[grt] = "recv" => pc'[grt] = "recv"
         /\ pc'[grt] \in Outside => pc[grt] \in Outside
<1>1. pc'[l] = p /\ \A k \in LRT : k # l => pc'[k] = pc[k]
  BY ElsewhereStays
<1>2. \A j \in Jobs : HasRun(j)' <=> HasRun(j)
  BY DEF HasRun
<1>3. CASE l # grt
  <2>1. pc'[grt] = pc[grt]
    BY <1>1, <1>3, ConstantTypes
  <2>2. GrtPhases'
    BY <1>2, <1>3, <2>1, GrtPhasesKept DEF OInv
  <2> QED BY <2>1, <2>2
<1>4. CASE l = grt
  <2>1. /\ pc'[grt] = p /\ p \in {"wait", "drain", "broadcast", "resolve", "recv"}
        /\ pc[grt] \notin Outside \cup {"announce", "send", "recv"}
    BY <1>1, <1>4 DEF Outside
  <2>2. /\ \A j \in Jobs : nSentJobs' < j => ~HasRun(j)'
        /\ sentTo' = 0
    BY <1>2, <2>1 DEF OInv, GrtPhases, Outside
  <2>3. /\ pc'[grt] \in {"wait", "drain"} /\ planned' = NRounds =>
             HasEnd(grt)' \/ lastJobID'[grt] = nJobPerPE[grt] - 1
        /\ pc'[grt] \in InJob /\ planned' = NRounds => FALSE
        /\ pc'[grt] = "recv" => Rested(grt)'
    BY <1>4, <2>1 DEF InJob
  <2>4. GrtPhases'
    BY <2>1, <2>2, <2>3 DEF GrtPhases, Outside
  <2> QED BY <2>1, <2>4 DEF Outside
<1> QED BY <1>3, <1>4

(* A pass after which LRT l goes on, or the GRT leaves run.                *)
LEMMA GoingOnInOrder ==
  ASSUME TInv, TInv', PInv, OInv, NEW l \in LRT, NEW p, pc' = [pc EXCEPT ![l] = p],
         pc[l] \in {"drain", "notify", "endpass", "broadcast"},
         UNCHANGED <<queueVars, lrtVars>>,
         UNCHANGED <<nSentJobs, sentTo, nFinishedPE, iteration, ran, planned, resolved>>,
         p # "exec", p \in InJob => jobQueueIndex[l] > 0,
         l = grt => /\ p \in {"wait", "drain", "broadcast", "resolve", "recv"}
                    /\ p \in {"wait", "drain"} /\ planned = NRounds =>
                         HasEnd(grt) \/ lastJobID[grt] = nJobPerPE[grt] - 1
                    /\ p = "broadcast" => planned # NRounds
                    /\ p = "recv" => Rested(grt)
  PROVE  OInv'
<1>1. UNCHANGED <<notifQueue, unposted, jobQueue, jobQueueIndex, jobIx, lastJobID, jobStamps>>
  BY DEF queueVars, lrtVars
<1>2. SameJobs
  BY <1>1, MoveIsQuiet DEF OInv
<1>3. Lasts /\ (Rested(grt)' <=> Rested(grt))
  BY <1>2, SameJobsLast
<1>4. HasEnd(grt)' <=> HasEnd(grt)
  BY <1>1 DEF HasEnd
<1>5. /\ GrtPhases'
      /\ pc[grt] = "recv" => pc'[grt] = "recv"
      /\ pc'[grt] \in Outside => pc[grt] \in Outside
  BY <1>1, <1>3, <1>4, PassPhases
<1> QED BY <1>1, <1>2, <1>5, SilentStep

(* The queue of the GRT after an LRT has said that it has finished.        *)
LEMMA FinishedAppended ==
  ASSUME TInv, Lasts, NEW l \in Activated \ {grt}, ~Rested(l), MessagesAreSound,
         NEW m \in Messages, IsFinishedOf(m, l), notifQueue'[nLrt] = Append(notifQueue[nLrt], m),
         FinishedAreCounted(notifQueue[nLrt]), nFinishedPE' = nFinishedPE,
         pc[grt] = "recv" => pc'[grt] = "recv", pc'[grt] \notin Outside
  PROVE  FinishedAreCounted(notifQueue[nLrt])'
<1> DEFINE q == notifQueue[nLrt]
<1>0. PICK r : r = notifQueue'[nLrt]
  OBVIOUS
<1>1. /\ Len(q) \in Nat /\ DOMAIN q = 1..Len(q) /\ DOMAIN r = 1..(Len(q) + 1)
      /\ \A k \in 1..Len(q) : r[k] = q[k]
      /\ r[Len(q) + 1] = m
  BY <1>0, QueueDomains, AppendProperties, LenProperties
<1>2. ~FinishedFrom(l, q)
  <2> SUFFICES ASSUME NEW k \in DOMAIN q, IsFinishedOf(q[k], l) PROVE FALSE
    BY DEF FinishedFrom
  <2>1. Sound(q[k], nLrt)
    BY ConstantTypes DEF MessagesAreSound
  <2> QED BY <2>1 DEF Sound, IsFinishedOf
<1> HIDE DEF q
<1>3. \A i \in LRT : i # l => ~IsFinishedOf(m, i)
  BY DEF IsFinishedOf
<1>4. \A k \in DOMAIN r : \A i \in LRT : IsFinishedOf(r[k], i) =>
        \/ i = l /\ k = Len(q) + 1
        \/ i # l /\ k \in DOMAIN q /\ IsFinishedOf(q[k], i)
  <2> SUFFICES ASSUME NEW k \in DOMAIN r, NEW i \in LRT, IsFinishedOf(r[k], i)
               PROVE  \/ i = l /\ k = Len(q) + 1
                      \/ i # l /\ k \in DOMAIN q /\ IsFinishedOf(q[k], i)
    OBVIOUS
  <2>1. CASE k = Len(q) + 1
    BY <1>1, <1>3, <2>1
  <2>2. CASE k \in DOMAIN q
    <3>1. IsFinishedOf(q[k], i)
      BY <1>1, <2>2
    <3> QED BY <1>2, <2>2, <3>1 DEF FinishedFrom
  <2> QED BY <1>1, <2>1, <2>2
<1>5. ASSUME NEW i \in LRT PROVE FinishedOnce(i, r)
  <2>1. FinishedOnce(i, q)
    BY DEF FinishedAreCounted, q
  <2> QED BY <1>4, <2>1 DEF FinishedOnce
<1>6. \A i \in LRT : i # l => (FinishedFrom(i, r) => FinishedFrom(i, q))
  BY <1>4 DEF FinishedFrom
<1>7. PICK F \in SUBSET (Activated \ {grt}) :
        /\ Cardinality(F) = nFinishedPE
        /\ \A i \in F : Rested(i) /\ ~FinishedFrom(i, q)
  BY DEF FinishedAreCounted, q
<1>8. \A i \in F : Rested(i)' /\ ~FinishedFrom(i, r)
  <2> TAKE i \in F
  <2>1. i \in LRT /\ i # l
    BY <1>7, PlatformAssumption
  <2> QED BY <1>6, <1>7, <2>1 DEF Lasts
<1>9. pc'[grt] # "recv" => nFinishedPE' = 0
  BY DEF FinishedAreCounted, q
<1> QED BY <1>0, <1>5, <1>7, <1>8, <1>9 DEF FinishedAreCounted, FinishedOnce, FinishedFrom

(* The pass after the last job: the LRT forgets the iteration.             *)
LEMMA EndsIterationInOrder ==
  ASSUME TInv, TInv', PInv, OInv, NEW l \in LRT, Static!DoneWithIteration(l), Static!ResetLrt(l),
         pc' = [pc EXCEPT ![l] = AfterLastJob(l)], pc[l] \in {"drain", "notify", "endpass"},
         IF l = grt THEN UNCHANGED queueVars
         ELSE Static!Push(l, nLrt, Static!Message("LRT_FINISHED_ITERATION", l, -1)),
         UNCHANGED <<nSentJobs, sentTo, nFinishedPE, iteration, ran, planned, resolved>>
  PROVE  OInv'
<1>0. PICK m : m = Static!Message("LRT_FINISHED_ITERATION", l, -1)
  OBVIOUS
<1>1. /\ m \in Messages /\ IsFinishedOf(m, l) /\ m.subType = "LRT_FINISHED_ITERATION" /\ m.lrtID = l
      /\ nLrt \in Queues /\ nLrt # grt /\ nLrt \notin LRT
  BY <1>0, MessageTypes, ConstantTypes DEF Static!Message, IsFinishedOf
<1>2. /\ jobStamps' = [jobStamps EXCEPT ![l] = [i \in LRT |-> -1]]
      /\ jobQueue' = [jobQueue EXCEPT ![l] = <<>>]
      /\ jobQueueIndex' = [jobQueueIndex EXCEPT ![l] = 0]
      /\ lastJobID' = [lastJobID EXCEPT ![l] = -1]
      /\ jobIx' = [jobIx EXCEPT ![l] = -1]
  BY StaticNames DEF Static!ResetLrt, Static!ClearJobQueue
<1>3. /\ jobQueue'[l] = <<>> /\ jobQueueIndex'[l] = 0 /\ lastJobID'[l] = -1 /\ jobIx'[l] = -1
      /\ \A i \in LRT : jobStamps'[l][i] = -1
      /\ \A k \in LRT : k # l => /\ jobQueue'[k] = jobQueue[k] /\ lastJobID'[k] = lastJobID[k]
                                 /\ jobQueueIndex'[k] = jobQueueIndex[k]
                                 /\ jobIx'[k] = jobIx[k] /\ jobStamps'[k] = jobStamps[k]
  BY <1>2 DEF TInv, LrtTypes
<1>4. PICK p : p = AfterLastJob(l)
  OBVIOUS
<1>5. /\ pc'[l] = p /\ \A k \in LRT : k # l => pc'[k] = pc[k]
      /\ p \in {"wait", "resolve", "recv"} /\ (l = grt => p # "wait")
  BY <1>4, ElsewhereStays DEF AfterLastJob
<1>6. \A j : HasRun(j)' <=> HasRun(j)
  BY DEF HasRun
<1>7. ~Rested(l) /\ Rested(l)' /\ l \in Activated /\ \A j \in JobsOf(l) : HasRun(j)
  <2>1. ~Rested(l) /\ l \in Activated /\ \A j \in JobsOf(l) : HasRun(j)
    BY DoneHasRun
  <2> QED BY <1>3, <1>6, <2>1 DEF Rested, Blank, JobsOf
<1>8. Lasts
  <2>1. \A k \in LRT : k # l => (Blank(k)' <=> Blank(k))
    BY <1>3 DEF Blank
  <2> QED BY <1>6, <1>7, <2>1 DEF Lasts, Rested, JobsOf
<1>9. Counted'
  BY DEF OInv, Counted
<1>10. Progress'
  <2> SUFFICES ASSUME NEW k \in LRT, ~Rested(k)', NEW j \in JobsOf(k)
               PROVE  HasRun(j)' <=> jobID[j] <= jobIx'[k]
    BY DEF Progress, JobsOf
  <2>1. k # l /\ ~Rested(k)
    BY <1>7, <1>8 DEF Lasts
  <2> QED BY <1>3, <1>6, <2>1 DEF OInv, Progress
<1>11. JobQueueInOrder'
  <2> SUFFICES ASSUME NEW k \in LRT
               PROVE  (/\ \A n \in DOMAIN jobQueue[k] : /\ mappedPE[jobQueue[k][n]] = k
                                                        /\ jobID[jobQueue[k][n]] = n - 1
                                                        /\ jobQueue[k][n] <= nSentJobs
                       /\ jobQueueIndex[k] <= Len(jobQueue[k])
                       /\ jobQueueIndex[k] = jobIx[k] + 1 + IF pc[k] = "exec" THEN 1 ELSE 0
                       /\ pc[k] \in InJob => jobQueueIndex[k] > 0)'
    BY DEF JobQueueInOrder
  <2>1. CASE k # l
    BY <1>3, <1>5, <2>1 DEF OInv, JobQueueInOrder
  <2>2. CASE k = l
    <3>1. DOMAIN jobQueue'[l] = {} /\ Len(jobQueue'[l]) = 0
      BY <1>3, EmptySeq
    <3>2. /\ jobQueueIndex'[l] <= Len(jobQueue'[l])
          /\ jobQueueIndex'[l] = jobIx'[l] + 1 + 0
          /\ pc'[l] \notin InJob /\ pc'[l] # "exec"
      BY <1>3, <1>5, <3>1 DEF InJob
    <3> QED BY <2>2, <3>1, <3>2
  <2> QED BY <2>1, <2>2
<1>12. HeldAreTrue'
  <2> SUFFICES ASSUME NEW k \in LRT, NEW i \in LRT PROVE StampIsTrue(i, jobStamps[k][i])'
    BY DEF HeldAreTrue
  <2>1. CASE k # l
    BY <1>3, <1>6, <2>1 DEF OInv, HeldAreTrue, StampIsTrue, JobsOf
  <2>2. CASE k = l
    <3>1. \A j \in JobsOf(i) : jobID[j] \in Nat
      BY ScheduleFacts DEF JobsOf
    <3>2. \A j \in JobsOf(i) : ~(jobID[j] <= -1)
      BY <3>1
    <3> QED BY <1>3, <2>2, <3>2 DEF StampIsTrue, JobsOf
  <2> QED BY <2>1, <2>2
<1>13. /\ \A k \in LRT : notifQueue'[k] = notifQueue[k]
       /\ OldOrSound
       /\ IF l = grt THEN notifQueue' = notifQueue
          ELSE notifQueue'[nLrt] = Append(notifQueue[nLrt], m)
  <2>1. CASE l = grt
    <3>1. notifQueue' = notifQueue
      BY <2>1 DEF queueVars
    <3> QED BY <2>1, <3>1, SilentMoves
  <2>2. CASE l # grt
    <3>0. Static!Push(l, nLrt, m)
      BY <1>0, <2>2
    <3>1. /\ \A r \in Queues : r # nLrt => notifQueue'[r] = notifQueue[r]
          /\ notifQueue'[nLrt] = Append(notifQueue[nLrt], m)
      BY <1>1, <3>0, PushMoves
    <3>2. Sound(m, nLrt)'
      BY <1>1, <1>7, <2>2 DEF Sound
    <3>3. OldOrSound
      BY <1>1, <3>0, <3>2, PushMoves
    <3> QED BY <1>1, <2>2, <3>1, <3>3, ConstantTypes
  <2> QED BY <2>1, <2>2
<1>14. AddsAreOrdered'
  <2> SUFFICES ASSUME NEW k \in LRT PROVE AddsInOrder(k, notifQueue[k])'
    BY DEF AddsAreOrdered
  <2>1. AddsInOrder(k, notifQueue[k])
    BY DEF OInv, AddsAreOrdered
  <2>2. CASE k # l
    BY <1>3, <1>6, <1>13, <2>1, <2>2 DEF AddsInOrder, JobsOf
  <2>3. CASE k = l
    <3>1. \A n \in DOMAIN notifQueue[l] : notifQueue[l][n].subType # "JOB_ADD"
      <4> SUFFICES ASSUME NEW n \in DOMAIN notifQueue[l], notifQueue[l][n].subType = "JOB_ADD"
                   PROVE  FALSE
        OBVIOUS
      <4>1. notifQueue[l][n] \in Messages
        BY QueueDomains, ElementOfSeq, LenProperties
      <4>2. notifQueue[l][n].index \in Jobs
        BY <4>1 DEF Messages, JobKinds
      <4> QED BY <1>7, <2>1, <2>3, <4>2 DEF AddsInOrder, JobsOf
    <3> QED BY <1>6, <1>7, <1>13, <2>3, <3>1 DEF AddsInOrder, JobsOf
  <2> QED BY <2>2, <2>3
<1>15. LastIDs'
  BY <1>3 DEF OInv, LastIDs
<1>16. HasEnd(grt)' <=> HasEnd(grt)
  BY <1>13, ConstantTypes DEF HasEnd
<1>17. /\ GrtPhases'
       /\ pc[grt] = "recv" => pc'[grt] = "recv"
       /\ pc'[grt] \in Outside => pc[grt] \in Outside
  <2>1. l # grt => lastJobID'[grt] = lastJobID[grt] /\ jobQueue'[grt] = jobQueue[grt]
    BY <1>3, ConstantTypes
  <2> QED BY <1>4, <1>5, <1>7, <1>8, <1>13, <1>16, <2>1, PassPhases
<1>18. MessagesAreSound' /\ ConfigsHaveRun'
  BY <1>8, <1>13, MessagesKept, ConfigsKept DEF OInv
<1>19. FinishedAreCounted(notifQueue[nLrt])'
  <2>1. CASE l = grt
    <3>1. NoneFinished(notifQueue[nLrt], notifQueue'[nLrt])
      BY <1>13, <2>1, SilentMoves
    <3> QED BY <1>8, <1>17, <3>1, AllFinishedKept DEF OInv
  <2>2. CASE l # grt
    <3>1. pc'[grt] \notin Outside
      BY <1>7, <1>17 DEF OInv, GrtPhases
    <3> QED BY <1>1, <1>7, <1>8, <1>13, <1>17, <2>2, <3>1, FinishedAppended DEF OInv
  <2> QED BY <2>1, <2>2
<1> QED BY <1>9, <1>10, <1>11, <1>12, <1>14, <1>15, <1>17, <1>18, <1>19 DEF OInv

LEMMA PassInOrder ==
  ASSUME TInv, TInv', PInv, OInv, ~GrtMisses, NEW l \in LRT, PassWithoutJob(l) \/ PassWithJob(l)
  PROVE  OInv'
<1>1. PICK resume \in {"wait", "drain"} :
        EndPass(l, resume) /\ pc[l] \in {"drain", "notify", "endpass"}
  BY DEF PassWithoutJob, PassWithJob, Static!Drained, At, Static!At
<1>2. UNCHANGED <<nSentJobs, sentTo, nFinishedPE, iteration, ran, planned, resolved>>
  BY <1>1, PassCases
<1>3. PICK p :
        /\ pc' = [pc EXCEPT ![l] = p]
        /\ \/ /\ Static!DoneWithIteration(l) /\ Static!ResetLrt(l)
              /\ p = AfterLastJob(l)
              /\ IF l = grt THEN UNCHANGED queueVars
                 ELSE Static!Push(l, nLrt, Static!Message("LRT_FINISHED_ITERATION", l, -1))
           \/ /\ ~Static!DoneWithIteration(l) /\ UNCHANGED <<queueVars, lrtVars>>
              /\ \/ Static!GotJobToDo(l) /\ p = resume
                 \/ ~Static!GotJobToDo(l) /\ p = "broadcast" /\ jobIx[l] >= 0
                 \/ ~Static!GotJobToDo(l) /\ p = AfterLastJob(l)
  BY <1>1, PassCases
<1>4. CASE Static!DoneWithIteration(l)
  BY <1>1, <1>2, <1>3, <1>4, EndsIterationInOrder
<1>5. CASE ~Static!DoneWithIteration(l)
  <2>1. /\ UNCHANGED <<queueVars, lrtVars>>
        /\ \/ Static!GotJobToDo(l) /\ p = resume
           \/ ~Static!GotJobToDo(l) /\ p = "broadcast" /\ jobIx[l] >= 0
           \/ ~Static!GotJobToDo(l) /\ p = AfterLastJob(l)
    BY <1>3, <1>5
  <2>2. /\ p \in {"wait", "drain", "broadcast", "resolve", "recv"}
        /\ p = "resolve" => planned # NRounds
        /\ p = "recv" => l = grt /\ planned = NRounds
        /\ l = grt /\ ~Static!GotJobToDo(l) => p \in {"broadcast", "resolve", "recv"}
    <3>1. ~(planned < NRounds) => planned = NRounds
      BY ConstantTypes DEF TInv, GrtTypes
    <3>2. planned < NRounds => planned # NRounds
      BY ConstantTypes DEF TInv, GrtTypes
    <3> QED BY <2>1, <3>1, <3>2 DEF AfterLastJob
  <2>3. l = grt /\ planned = NRounds /\ ~Static!GotJobToDo(l) => Rested(grt) /\ jobIx[grt] = -1
    <3> SUFFICES ASSUME l = grt, planned = NRounds, ~Static!GotJobToDo(l)
                 PROVE  Rested(grt) /\ jobIx[grt] = -1
      OBVIOUS
    <3>1. pc'[grt] = p /\ p \in {"broadcast", "recv"}
      BY <1>3, <2>2, ElsewhereStays
    <3>2. ~UnreadWork(grt)
      BY <1>1, <3>1 DEF GrtMisses, GrtEndsRounds
    <3>3. Rested(grt)
      BY <1>1, <1>5, <3>2, GrtHasItsWork, GrtWithoutJobIsRested
    <3> QED BY <3>3 DEF Rested, Blank
  <2>4. p = "broadcast" => ~Static!GotJobToDo(l) /\ jobIx[l] >= 0
    BY <2>1 DEF AfterLastJob
  <2>5. p \in InJob => jobQueueIndex[l] > 0
    <3>1. pc[l] # "exec"
      BY <1>1
    <3>2. jobQueueIndex[l] = jobIx[l] + 1 /\ jobIx[l] \in Int
      BY <3>1, NextIndex
    <3>3. p \in InJob => p = "broadcast"
      BY <2>2 DEF InJob
    <3> QED BY <2>4, <3>2, <3>3
  <2>6. l = grt /\ p = "broadcast" => planned # NRounds
    <3>1. l = grt /\ planned = NRounds /\ ~Static!GotJobToDo(l) => ~(jobIx[l] >= 0)
      BY <2>3
    <3> QED BY <2>4, <3>1
  <2>7. l = grt /\ p = "recv" => Rested(grt)
    BY <2>1, <2>2, <2>3
  <2>8. /\ l = grt /\ p \in {"wait", "drain"} /\ planned = NRounds =>
                         HasEnd(grt) \/ lastJobID[grt] = nJobPerPE[grt] - 1
        /\ pc[l] \in {"drain", "notify", "endpass", "broadcast"} /\ p # "exec"
    BY <1>1, <2>2 DEF OInv, GrtPhases, InJob
  <2> QED BY <1>2, <1>3, <2>1, <2>2, <2>5, <2>6, <2>7, <2>8, GoingOnInOrder
<1> QED BY <1>4, <1>5

LEMMA BroadcastedInOrder ==
  ASSUME TInv, TInv', PInv, OInv, NEW l \in LRT, Broadcasted(l)
  PROVE  OInv'
<1>0. PICK p : p = AfterLastJob(l)
  OBVIOUS
<1>1. /\ pc[l] = "broadcast" /\ pc' = [pc EXCEPT ![l] = p]
      /\ UNCHANGED <<queueVars, lrtVars>>
      /\ UNCHANGED <<nSentJobs, sentTo, nFinishedPE, iteration, ran, planned, resolved>>
  BY <1>0 DEF Broadcasted, At, Static!At, NoMoreJobs, AfterLastJob, grtVars, jitVars
<1>2. l = grt => p = "resolve"
  <2>1. l = grt => planned # NRounds
    BY <1>1 DEF OInv, GrtPhases, InJob
  <2>2. planned # NRounds => planned < NRounds
    BY ConstantTypes DEF TInv, GrtTypes
  <2> QED BY <1>0, <2>1, <2>2 DEF AfterLastJob
<1>3. p \in {"wait", "resolve", "recv"} /\ p # "exec" /\ p \notin InJob
  BY <1>0 DEF AfterLastJob, InJob
<1> QED BY <1>1, <1>2, <1>3, GoingOnInOrder

LEMMA RunInOrder ==
  ASSUME TInv, TInv', PInv, OInv, ~GrtMisses, NEW l \in LRT, Run(l) \/ Post(l)
  PROVE  OInv'
<1>1. CASE HandleDelayBroadcast(l)
  BY <1>1, HandleDelayBroadcastInOrder
<1>2. CASE PassWithoutJob(l) \/ PassWithJob(l)
  BY <1>2, PassInOrder
<1>3. CASE NotifyLRTJobStamp(l)
  BY <1>3, NotifyInOrder
<1>4. CASE SendParam(l)
  BY <1>4, SendParamInOrder
<1>5. CASE Broadcasted(l)
  BY <1>5, BroadcastedInOrder
<1>6. CASE Post(l)
  BY <1>6, PostInOrder
<1>7. CASE UNCHANGED jitVars /\ Static!HandleNotification(l)
  BY <1>7, HandleJobAddInOrder, HandleUpdateInOrder, HandleEndIterationInOrder, HandleStopInOrder
     DEF Static!HandleNotification
<1>8. CASE UNCHANGED jitVars /\ Static!ExitRun(l)
  BY <1>8, ExitRunInOrder
<1>9. CASE UNCHANGED jitVars /\ Static!StartJob(l)
  BY <1>9, StartJobInOrder
<1>10. CASE UNCHANGED jitVars /\ Static!FinishJob(l)
  BY <1>10, FinishJobInOrder
<1> QED BY <1>1, <1>2, <1>3, <1>4, <1>5, <1>6, <1>7, <1>8, <1>9, <1>10 DEF Run

-----------------------------------------------------------------------------
(* The GRT. *)

(* A step of the GRT in which it neither sends nor receives.               *)
LEMMA GrtMovesInOrder ==
  ASSUME TInv, TInv', PInv, OInv, NEW p, p \notin InJob, p # "recv",
         pc[grt] \in InGrt \ {"recv"}, pc' = [pc EXCEPT ![grt] = p],
         UNCHANGED <<queueVars, lrtVars, nSentJobs, nFinishedPE, iteration, ran, planned, resolved>>,
         p \in Outside <=> pc[grt] \in Outside,
         p \notin {"announce", "send", "stop", "done"} => sentTo' = 0,
         p = "send" => sentTo' = 0,
         p \in {"wait", "drain"} /\ planned = NRounds => HasEnd(grt)
  PROVE  OInv'
<1>1. UNCHANGED <<notifQueue, unposted, jobQueue, jobQueueIndex, jobIx, lastJobID, jobStamps>>
  BY DEF queueVars, lrtVars
<1>2. SameJobs
  <2>1. (p = "exec" <=> pc[grt] = "exec") /\ (p \in InJob => jobQueueIndex[grt] > 0)
    BY DEF InJob, InGrt
  <2> QED BY <1>1, <2>1, MoveIsQuiet, ConstantTypes DEF OInv
<1>3. (\A j : HasRun(j)' <=> HasRun(j)) /\ (\A k : Rested(k)' <=> Rested(k))
  BY <1>2, SameJobsLast
<1>4. HasEnd(grt)' <=> HasEnd(grt)
  BY <1>1 DEF HasEnd
<1>5. pc'[grt] = p
  BY ElsewhereStays, ConstantTypes
<1>6. grt \in Int /\ grt >= 0
  BY ConstantTypes DEF LRT
<1>7. GrtPhases'
  <2>1. pc'[grt] \in Outside => \A k \in LRT : Rested(k)'
    BY <1>3, <1>5 DEF OInv, GrtPhases
  <2>2. pc'[grt] \notin Outside => \A j \in Jobs : nSentJobs' < j => ~HasRun(j)'
    BY <1>3, <1>5 DEF OInv, GrtPhases
  <2>3. /\ pc'[grt] \notin {"announce", "send", "stop", "done"} => sentTo' = 0
        /\ pc'[grt] = "send" /\ planned' < NRounds => sentTo' = 0
        /\ pc'[grt] = "send" /\ grt < sentTo' => HasEnd(grt)'
    BY <1>5, <1>6
  <2>4. /\ pc'[grt] \in {"wait", "drain"} /\ planned' = NRounds =>
             HasEnd(grt)' \/ lastJobID'[grt] = nJobPerPE[grt] - 1
        /\ pc'[grt] \notin InJob /\ pc'[grt] # "recv"
    BY <1>4, <1>5
  <2> QED BY <2>1, <2>2, <2>3, <2>4 DEF GrtPhases
<1>8. /\ pc[grt] = "recv" => pc'[grt] = "recv"
      /\ pc'[grt] \in Outside => pc[grt] \in Outside
  BY <1>5
<1> QED BY <1>1, <1>2, <1>7, <1>8, SilentStep

LEMMA GrtMovingInOrder ==
  ASSUME TInv, TInv', PInv, OInv,
         \/ RunConfigJobs \/ Resolved
         \/ /\ UNCHANGED jitVars
            /\ \/ planned = NRounds /\ Static!RunUntilNoMoreJobs
               \/ Static!Destroy \/ Static!Barrier
  PROVE  OInv'
<1> USE DEF Static!At, At, Static!queueVars, Static!lrtVars, Static!grtVars, queueVars, lrtVars,
            grtVars, jitVars, InJob, InGrt, Outside
<1>1. CASE RunConfigJobs
  <2>1. PICK p : p = "drain"
    OBVIOUS
  <2>2. /\ pc[grt] = "send" /\ pc' = [pc EXCEPT ![grt] = p] /\ planned < NRounds
        /\ UNCHANGED <<queueVars, lrtVars, nSentJobs, sentTo, nFinishedPE, iteration, ran, planned, resolved>>
    BY <1>1, <2>1 DEF RunConfigJobs
  <2>3. sentTo = 0 /\ planned # NRounds
    BY <2>2, ConstantTypes DEF OInv, GrtPhases, TInv, GrtTypes
  <2> QED BY <2>1, <2>2, <2>3, GrtMovesInOrder
<1>2. CASE Resolved
  <2>1. PICK p : p = "plan"
    OBVIOUS
  <2>2. /\ pc[grt] = "resolve" /\ pc' = [pc EXCEPT ![grt] = p]
        /\ UNCHANGED <<queueVars, lrtVars, nSentJobs, sentTo, nFinishedPE, iteration, ran, planned, resolved>>
    BY <1>2, <2>1 DEF Resolved
  <2>3. sentTo = 0
    BY <2>2 DEF OInv, GrtPhases
  <2> QED BY <2>1, <2>2, <2>3, GrtMovesInOrder
<1>3. CASE UNCHANGED jitVars /\ planned = NRounds /\ Static!RunUntilNoMoreJobs
  <2>1. PICK p : p = "drain"
    OBVIOUS
  <2>2. /\ pc[grt] = "send" /\ pc' = [pc EXCEPT ![grt] = p] /\ sentTo = nLrt /\ sentTo' = 0
        /\ UNCHANGED <<queueVars, lrtVars, nSentJobs, nFinishedPE, iteration, ran, planned, resolved>>
    BY <1>3, <2>1 DEF Static!RunUntilNoMoreJobs
  <2>3. HasEnd(grt)
    <3>1. grt < nLrt
      BY PlatformAssumption DEF LRT
    <3> QED BY <2>2, <3>1 DEF OInv, GrtPhases
  <2> QED BY <2>1, <2>2, <2>3, GrtMovesInOrder
<1>4. CASE UNCHANGED jitVars /\ Static!Destroy
  <2>1. PICK p : p = "stop"
    OBVIOUS
  <2>2. /\ pc[grt] = "idle" /\ pc' = [pc EXCEPT ![grt] = p]
        /\ UNCHANGED <<queueVars, lrtVars, nSentJobs, sentTo, nFinishedPE, iteration, ran, planned, resolved>>
    BY <1>4, <2>1 DEF Static!Destroy
  <2> QED BY <2>1, <2>2, GrtMovesInOrder
<1>5. CASE UNCHANGED jitVars /\ Static!Barrier
  <2>1. PICK p : p = "done"
    OBVIOUS
  <2>2. /\ pc[grt] = "stop" /\ pc' = [pc EXCEPT ![grt] = p]
        /\ UNCHANGED <<queueVars, lrtVars, nSentJobs, sentTo, nFinishedPE, iteration, ran, planned, resolved>>
    BY <1>5, <2>1 DEF Static!Barrier
  <2> QED BY <2>1, <2>2, GrtMovesInOrder
<1> QED BY <1>1, <1>2, <1>3, <1>4, <1>5

(* The state of the jobs when the GRT sends or receives.                   *)
LEMMA GrtWaitsQuietly ==
  ASSUME TInv, OInv, pc' = pc, UNCHANGED <<lrtVars, ran, iteration>>
  PROVE  SameJobs /\ UNCHANGED <<jobQueue, jobQueueIndex, jobIx, lastJobID, jobStamps>>
  BY DEF OInv, JobQueueInOrder, SameJobs, lrtVars

LEMMA AnnounceInOrder ==
  ASSUME TInv, TInv', PInv, OInv, Announce
  PROVE  OInv'
<1>1. /\ pc[grt] = "announce"
      /\ UNCHANGED <<lrtVars, nSentJobs, nFinishedPE, iteration, ran, planned, resolved>>
  BY DEF Announce, At, Static!At, jitVars
<1>2. CASE sentTo < Cardinality(Activated) /\ sentTo # grt
  <2>1. PICK m, q : m = Static!Message("JOB_DELAY_BROADCAST_JOBSTAMP", grt, -1) /\ q = sentTo
    OBVIOUS
  <2>2. pc' = pc /\ Static!Push(grt, q, m)
    BY <1>2, <2>1 DEF Announce
  <2>3. /\ m \in Messages /\ m.subType = "JOB_DELAY_BROADCAST_JOBSTAMP"
        /\ q \in Queues /\ grt \in LRT
    BY <2>1, MessageTypes, ConstantTypes DEF Static!Message, TInv, GrtTypes, Queues
  <2>4. Sound(m, q)'
    BY <2>3 DEF Sound
  <2>5. SameJobs /\ UNCHANGED <<jobQueue, jobQueueIndex, jobIx, lastJobID, jobStamps>>
    BY <1>1, <2>2, GrtWaitsQuietly
  <2>6. (\A j : HasRun(j)' <=> HasRun(j)) /\ (\A k : Rested(k)' <=> Rested(k))
    BY <2>5, SameJobsLast
  <2>7. GrtPhases'
    BY <1>1, <2>2, <2>6 DEF OInv, GrtPhases, Outside, InJob
  <2> QED BY <1>1, <2>2, <2>3, <2>4, <2>5, <2>7, QuietPush
<1>3. CASE sentTo < Cardinality(Activated) /\ sentTo = grt
  <2>1. pc' = pc /\ UNCHANGED queueVars
    BY <1>3 DEF Announce
  <2>2. SameJobs /\ UNCHANGED <<notifQueue, lastJobID>>
    BY <1>1, <2>1, GrtWaitsQuietly DEF queueVars
  <2>3. (\A j : HasRun(j)' <=> HasRun(j)) /\ (\A k : Rested(k)' <=> Rested(k))
    BY <2>2, SameJobsLast
  <2>4. GrtPhases'
    BY <1>1, <2>1, <2>2, <2>3 DEF OInv, GrtPhases, Outside, InJob
  <2> QED BY <1>1, <2>1, <2>2, <2>4, SilentStep
<1>4. CASE ~(sentTo < Cardinality(Activated))
  <2>1. PICK p : p = "send"
    OBVIOUS
  <2>2. pc' = [pc EXCEPT ![grt] = p] /\ sentTo' = 0 /\ UNCHANGED queueVars
    BY <1>4, <2>1 DEF Announce
  <2>3. /\ p \notin InJob /\ p # "recv" /\ p \notin {"wait", "drain"} /\ p \in {"announce", "send", "stop", "done"}
        /\ (p \in Outside <=> pc[grt] \in Outside) /\ pc[grt] \in InGrt \ {"recv"}
    BY <1>1, <2>1 DEF InJob, InGrt, Outside
  <2> QED BY <1>1, <2>2, <2>3, GrtMovesInOrder
<1> QED BY <1>2, <1>3, <1>4

(* The end of the iteration, and the request to stop.                      *)
LEMMA EndAppended ==
  ASSUME TInv, NEW q \in Queues, NEW m \in Messages, Static!Push(grt, q, m)
  PROVE  /\ HasEnd(grt) => HasEnd(grt)'
         /\ q = grt /\ m.subType = "LRT_END_ITERATION" => HasEnd(grt)'
<1>1. /\ notifQueue'[q] = Append(notifQueue[q], m)
      /\ \A r \in Queues : r # q => notifQueue'[r] = notifQueue[r]
  BY PushMoves, ConstantTypes
<1>2. CASE q # grt
  BY <1>1, <1>2, ConstantTypes DEF HasEnd
<1>3. CASE q = grt
  <2>1. PICK r, s : r = notifQueue[grt] /\ s = notifQueue'[grt]
    OBVIOUS
  <2>2. s = Append(r, m) /\ r \in Seq(Messages)
    BY <1>1, <1>3, <2>1, QueueDomains
  <2>3. /\ Len(r) \in Nat /\ DOMAIN r = 1..Len(r) /\ DOMAIN s = 1..(Len(r) + 1)
        /\ \A k \in 1..Len(r) : s[k] = r[k]
        /\ s[Len(r) + 1] = m
    BY <2>2, AppendProperties, LenProperties
  <2>4. Len(r) + 1 \in DOMAIN s /\ \A k \in DOMAIN r : k \in DOMAIN s /\ s[k] = r[k]
    BY <2>3
  <2> QED BY <2>1, <2>3, <2>4 DEF HasEnd
<1> QED BY <1>2, <1>3

LEMMA SendEndInOrder ==
  ASSUME TInv, TInv', PInv, OInv, planned = NRounds, Static!SendEndNotification, UNCHANGED jitVars
  PROVE  OInv'
<1>1. PICK m, q : m = Static!Message("LRT_END_ITERATION", grt, nJobPerPE[q] - 1) /\ q = sentTo
  OBVIOUS
<1>2. /\ pc[grt] = "send" /\ q < nLrt /\ sentTo' = q + 1 /\ Static!Push(grt, q, m) /\ pc' = pc
      /\ UNCHANGED <<lrtVars, nSentJobs, nFinishedPE, iteration, ran, planned, resolved>>
  BY <1>1 DEF Static!SendEndNotification, Static!At, Static!lrtVars, lrtVars, jitVars
<1>3. q \in LRT /\ q \in Queues /\ grt \in LRT /\ grt \in Int /\ q \in Int
  BY <1>1, <1>2, ConstantTypes DEF TInv, GrtTypes, LRT
<1>4. m \in Messages /\ m.subType = "LRT_END_ITERATION" /\ m.index = nJobPerPE[q] - 1
  <2>1. nJobPerPE[q] - 1 \in Stamp
    BY <1>3, ConstantTypes
  <2> QED BY <1>1, <1>3, <2>1, MessageTypes DEF Static!Message
<1>5. Sound(m, q)'
  BY <1>4 DEF Sound
<1>6. SameJobs /\ UNCHANGED <<jobQueue, jobQueueIndex, jobIx, lastJobID, jobStamps>>
  BY <1>2, GrtWaitsQuietly
<1>7. (\A j : HasRun(j)' <=> HasRun(j)) /\ (\A k : Rested(k)' <=> Rested(k))
  BY <1>6, SameJobsLast
<1>8. grt < sentTo' => HasEnd(grt)'
  <2>1. grt < sentTo' => grt < q \/ grt = q
    BY <1>2, <1>3
  <2>2. grt < q => HasEnd(grt)
    BY <1>1, <1>2 DEF OInv, GrtPhases
  <2> QED BY <1>2, <1>3, <1>4, <2>1, <2>2, EndAppended
<1>9. planned \in Int /\ ~(planned < NRounds)
  BY ConstantTypes
<1>10. GrtPhases'
  <2>1. pc'[grt] = "send" /\ planned' = planned
    BY <1>2
  <2>2. \A j \in Jobs : nSentJobs' < j => ~HasRun(j)'
    BY <1>2, <1>7 DEF OInv, GrtPhases, Outside
  <2> QED BY <1>8, <1>9, <2>1, <2>2 DEF GrtPhases, Outside, InJob
<1> QED BY <1>2, <1>3, <1>4, <1>5, <1>6, <1>10, QuietPush

LEMMA SendStopInOrder ==
  ASSUME TInv, TInv', PInv, OInv, Static!SendStop, UNCHANGED jitVars
  PROVE  OInv'
<1>1. PICK m, q : m = Static!Message("LRT_STOP", grt, -1) /\ q = sentTo
  OBVIOUS
<1>2. /\ pc[grt] = "stop" /\ q < nLrt /\ pc' = pc
      /\ Static!Push(grt, q, m) \/ notifQueue' = notifQueue
      /\ UNCHANGED <<lrtVars, nSentJobs, nFinishedPE, iteration, ran, planned, resolved>>
  BY <1>1 DEF Static!SendStop, Static!At, Static!lrtVars, Static!queueVars, lrtVars, jitVars
<1>3. q \in Queues /\ grt \in LRT /\ -1 \in Stamp
  BY <1>1, <1>2, ConstantTypes DEF TInv, GrtTypes, Queues
<1>4. m \in Messages /\ m.subType = "LRT_STOP"
  BY <1>1, <1>3, MessageTypes DEF Static!Message
<1>5. Sound(m, q)'
  BY <1>4 DEF Sound
<1>6. SameJobs /\ UNCHANGED <<jobQueue, jobQueueIndex, jobIx, lastJobID, jobStamps>>
  BY <1>2, GrtWaitsQuietly
<1>7. (\A j : HasRun(j)' <=> HasRun(j)) /\ (\A k : Rested(k)' <=> Rested(k))
  BY <1>6, SameJobsLast
<1>8. GrtPhases'
  <2>1. pc'[grt] = "stop" /\ \A k \in LRT : Rested(k)'
    BY <1>2, <1>7 DEF OInv, GrtPhases, Outside
  <2> QED BY <2>1 DEF GrtPhases, Outside, InJob
<1>9. CASE Static!Push(grt, q, m)
  BY <1>2, <1>3, <1>4, <1>5, <1>6, <1>8, <1>9, QuietPush
<1>10. CASE notifQueue' = notifQueue
  BY <1>2, <1>6, <1>8, <1>10, SilentStep
<1> QED BY <1>2, <1>9, <1>10

(* The queue of an LRT after the GRT has sent it a job.                    *)
LEMMA AddAppended ==
  ASSUME TInv, NEW l \in LRT, NEW q \in Seq(Messages), AddsInOrder(l, q), NEW j \in JobsOf(l),
         ~HasRun(j), Len(jobQueue[l]) <= jobID[j], j = nSentJobs + 1,
         NEW m \in Messages, m.subType = "JOB_ADD", m.index = j,
         nSentJobs' = j, UNCHANGED <<ran, iteration, jobQueue>>
  PROVE  AddsInOrder(l, Append(q, m))'
<1>1. PICK r : r = Append(q, m)
  OBVIOUS
<1>2. /\ Len(q) \in Nat /\ DOMAIN q = 1..Len(q) /\ DOMAIN r = 1..(Len(q) + 1)
      /\ \A k \in 1..Len(q) : r[k] = q[k]
      /\ r[Len(q) + 1] = m
  BY <1>1, AppendProperties, LenProperties
<1>3. \A i : HasRun(i)' <=> HasRun(i)
  BY DEF HasRun
<1>4. nSentJobs \in Nat /\ j \in Jobs /\ mappedPE[j] = l
  BY ScheduleTypes DEF TInv, GrtTypes, JobsOf
<1>5. ASSUME NEW k \in DOMAIN q, q[k].subType = "JOB_ADD"
      PROVE  /\ q[k].index \in Int /\ q[k].index <= nSentJobs /\ mappedPE[q[k].index] = l
             /\ ~HasRun(q[k].index) /\ Len(jobQueue[l]) <= jobID[q[k].index]
  <2>1. q[k] \in Messages
    BY ElementOfSeq, <1>2
  <2>2. q[k].index \in Jobs
    BY <1>5, <2>1 DEF Messages, JobKinds
  <2> QED BY <1>5, <2>2 DEF AddsInOrder, Jobs
<1>6. ASSUME NEW k \in DOMAIN r, r[k].subType = "JOB_ADD"
      PROVE  LET i == r[k].index IN
             mappedPE[i] = l /\ ~HasRun(i)' /\ Len(jobQueue[l])' <= jobID[i] /\ i <= nSentJobs'
  <2>0. PICK i : i = r[k].index
    OBVIOUS
  <2>1. mappedPE[i] = l /\ ~HasRun(i) /\ Len(jobQueue[l]) <= jobID[i] /\ i <= j
    <3>1. CASE k = Len(q) + 1
      BY <1>2, <1>4, <2>0, <3>1
    <3>2. CASE k \in DOMAIN q
      <4>1. r[k] = q[k]
        BY <1>2, <3>2
      <4>2. /\ i \in Int /\ i <= nSentJobs /\ mappedPE[i] = l
            /\ ~HasRun(i) /\ Len(jobQueue[l]) <= jobID[i]
        BY <1>5, <1>6, <2>0, <3>2, <4>1
      <4> QED BY <1>4, <4>2
    <3> QED BY <1>2, <3>1, <3>2
  <2>2. ~HasRun(i)'
    BY <1>3, <2>1
  <2> QED BY <2>0, <2>1, <2>2 DEF HasRun
<1>7. ASSUME NEW k \in DOMAIN r, NEW n \in DOMAIN r, r[k].subType = "JOB_ADD",
             r[n].subType = "JOB_ADD", k < n
      PROVE  r[k].index < r[n].index
  <2>1. k \in DOMAIN q /\ r[k] = q[k]
    BY <1>2, <1>7
  <2>2. CASE n \in DOMAIN q
    <3>1. r[n] = q[n]
      BY <1>2, <2>2
    <3> QED BY <1>7, <2>1, <2>2, <3>1 DEF AddsInOrder
  <2>3. CASE n = Len(q) + 1
    <3>1. r[n].index = nSentJobs + 1
      BY <1>2, <2>3
    <3>2. r[k].index \in Int /\ r[k].index <= nSentJobs
      BY <1>5, <1>7, <2>1
    <3> QED BY <1>4, <3>1, <3>2
  <2> QED BY <1>2, <2>2, <2>3
<1>8. ASSUME NEW i \in JobsOf(l), ~HasRun(i)', Len(jobQueue[l])' <= jobID[i], i <= nSentJobs'
      PROVE  \E k \in DOMAIN r : r[k].subType = "JOB_ADD" /\ r[k].index = i
  <2>1. CASE i = j
    <3>1. Len(q) + 1 \in DOMAIN r
      BY <1>2
    <3> QED BY <1>2, <2>1, <3>1
  <2>2. CASE i # j
    <3>1. i <= nSentJobs
      <4>1. i \in Int
        BY DEF JobsOf, Jobs
      <4> QED BY <1>4, <1>8, <2>2, <4>1
    <3>2. \E k \in DOMAIN q : q[k].subType = "JOB_ADD" /\ q[k].index = i
      BY <1>3, <1>8, <3>1 DEF AddsInOrder
    <3> QED BY <1>2, <3>2
  <2> QED BY <2>1, <2>2
<1>9. AddsInOrder(l, r)'
  BY <1>6, <1>7, <1>8 DEF AddsInOrder, JobsOf
<1> QED BY <1>1, <1>9 DEF AddsInOrder

LEMMA SendJobInOrder ==
  ASSUME TInv, TInv', PInv, OInv, SendJob
  PROVE  OInv'
<1>1. PICK j, l, m : j = nSentJobs + 1 /\ l = mappedPE[j] /\ m = Static!Message("JOB_ADD", grt, j)
  OBVIOUS
<1>2. /\ pc[grt] = "send" /\ nSentJobs < NJobs /\ Static!Push(grt, l, m) /\ pc' = pc
      /\ nSentJobs' = j
      /\ UNCHANGED <<lrtVars, sentTo, nFinishedPE, iteration, ran, planned, resolved>>
  BY <1>1 DEF SendJob, Static!SendJob, Static!At, Static!lrtVars, lrtVars
<1>3. nSentJobs \in Nat /\ j \in Jobs /\ l \in LRT /\ l \in Queues /\ grt \in LRT /\ j \in JobsOf(l)
  BY <1>1, <1>2, ConstantTypes DEF TInv, GrtTypes, Jobs, JobsOf
<1>4. m \in Messages /\ m.subType = "JOB_ADD" /\ m.index = j
  BY <1>1, <1>3, MessageTypes DEF Static!Message
<1>5. Sound(m, l)'
  BY <1>4 DEF Sound
<1>6. SameJobs /\ UNCHANGED <<jobQueue, jobQueueIndex, jobIx, lastJobID, jobStamps>>
  BY <1>2, GrtWaitsQuietly
<1>7. (\A i : HasRun(i)' <=> HasRun(i)) /\ (\A k : Rested(k)' <=> Rested(k)) /\ Lasts
  BY <1>6, SameJobsLast
<1>8. /\ notifQueue'[l] = Append(notifQueue[l], m)
      /\ \A r \in Queues : r # l => notifQueue'[r] = notifQueue[r]
  BY <1>2, <1>3, <1>4, PushMoves
<1>9. OldOrSound /\ NoneFinished(notifQueue[nLrt], notifQueue'[nLrt])
  <2>1. OldOrSound
    BY <1>2, <1>3, <1>4, <1>5, PushMoves
  <2>2. l # nLrt
    BY <1>3, ConstantTypes
  <2> QED BY <1>2, <1>3, <1>4, <2>1, <2>2, PushMoves
<1>10. ~HasRun(j)
  <2>1. nSentJobs < j
    BY <1>1, <1>3
  <2> QED BY <1>2, <1>3, <2>1 DEF OInv, GrtPhases, Outside
<1>11. Len(jobQueue[l]) <= jobID[j]
  <2> SUFFICES ASSUME jobID[j] < Len(jobQueue[l]) PROVE FALSE
    BY <1>3, QueueDomains, ScheduleFacts
  <2>1. jobID[j] \in Nat /\ Len(jobQueue[l]) \in Nat /\ DOMAIN jobQueue[l] = 1..Len(jobQueue[l])
    BY <1>3, QueueDomains, ScheduleFacts
  <2>2. jobID[j] + 1 \in DOMAIN jobQueue[l]
    BY <2>1
  <2>3. PICK i \in Jobs : i = jobQueue[l][jobID[j] + 1]
    BY <1>3, <2>2, QueueDomains
  <2>4. mappedPE[i] = l /\ jobID[i] = jobID[j] /\ i <= nSentJobs
    <3>1. /\ mappedPE[i] = l /\ i <= nSentJobs
          /\ jobID[i] = (jobID[j] + 1) - 1
      BY <1>3, <2>2, <2>3 DEF OInv, JobQueueInOrder
    <3> QED BY <2>1, <3>1
  <2>5. i = j
    BY <1>1, <1>3, <2>4, ScheduleFacts
  <2> QED BY <1>1, <1>3, <2>4, <2>5
<1>12. AddsAreOrdered'
  <2> SUFFICES ASSUME NEW k \in LRT PROVE AddsInOrder(k, notifQueue[k])'
    BY DEF AddsAreOrdered
  <2>1. PICK q : q = notifQueue[k]
    OBVIOUS
  <2>2. AddsInOrder(k, q) /\ q \in Seq(Messages) /\ k \in Queues
    BY <2>1, QueueDomains DEF OInv, AddsAreOrdered
  <2>3. CASE k = l
    <3>1. AddsInOrder(l, Append(q, m))'
      BY <1>1, <1>2, <1>3, <1>4, <1>6, <1>10, <1>11, <2>2, <2>3, AddAppended
    <3>2. PICK r : r = Append(q, m)
      OBVIOUS
    <3>3. notifQueue'[k] = r
      BY <1>8, <2>1, <2>3, <3>2
    <3>4. AddsInOrder(k, r)'
      BY <2>3, <3>1, <3>2 DEF AddsInOrder
    <3> QED BY <3>3, <3>4 DEF AddsInOrder
  <2>4. CASE k # l
    <3>1. ASSUME NEW n \in DOMAIN q, q[n].subType = "JOB_ADD"
          PROVE  q[n].index <= nSentJobs'
      <4>1. q[n] \in Messages
        BY <2>2, ElementOfSeq, LenProperties
      <4>2. q[n].index \in Jobs /\ q[n].index <= nSentJobs
        BY <2>2, <3>1, <4>1 DEF Messages, JobKinds, AddsInOrder
      <4> QED BY <1>1, <1>2, <1>3, <4>2 DEF Jobs
    <3>2. ASSUME NEW i \in JobsOf(k), i <= nSentJobs' PROVE i <= nSentJobs
      <4>1. i \in Int /\ i # j
        BY <1>1, <2>4 DEF JobsOf, Jobs
      <4> QED BY <1>1, <1>2, <1>3, <3>2, <4>1
    <3>3. notifQueue'[k] = q /\ jobQueue'[k] = jobQueue[k]
      BY <1>6, <1>8, <2>1, <2>2, <2>4
    <3>4. ASSUME NEW n \in DOMAIN q, q[n].subType = "JOB_ADD"
          PROVE  /\ mappedPE[q[n].index] = k /\ ~HasRun(q[n].index)'
                 /\ Len(jobQueue'[k]) <= jobID[q[n].index] /\ q[n].index <= nSentJobs'
      <4>1. PICK i : i = q[n].index
        OBVIOUS
      <4>2. mappedPE[i] = k /\ ~HasRun(i) /\ Len(jobQueue[k]) <= jobID[i] /\ i <= nSentJobs'
        BY <2>2, <3>1, <3>4, <4>1 DEF AddsInOrder
      <4>3. ~HasRun(i)'
        BY <1>7, <4>2
      <4> QED BY <3>3, <4>1, <4>2, <4>3 DEF HasRun
    <3>5. ASSUME NEW i \in JobsOf(k), ~HasRun(i)', Len(jobQueue'[k]) <= jobID[i], i <= nSentJobs'
          PROVE  \E n \in DOMAIN q : q[n].subType = "JOB_ADD" /\ q[n].index = i
      <4>1. ~HasRun(i) /\ Len(jobQueue[k]) <= jobID[i] /\ i <= nSentJobs
        BY <1>7, <3>2, <3>3, <3>5
      <4> QED BY <2>2, <4>1 DEF AddsInOrder
    <3>6. \A n, i \in DOMAIN q :
            q[n].subType = "JOB_ADD" /\ q[i].subType = "JOB_ADD" /\ n < i => q[n].index < q[i].index
      BY <2>2 DEF AddsInOrder
    <3>7. AddsInOrder(k, q)'
      BY <3>4, <3>5, <3>6 DEF AddsInOrder, JobsOf, HasRun
    <3> QED BY <3>3, <3>7 DEF AddsInOrder
  <2> QED BY <2>3, <2>4
<1>13. Counted' /\ Progress' /\ JobQueueInOrder' /\ HeldAreTrue'
  <2>1. nSentJobs <= nSentJobs'
    BY <1>1, <1>2, <1>3
  <2> QED BY <1>6, <2>1, JobsKept
<1>14. LastIDs'
  BY <1>6 DEF OInv, LastIDs
<1>15. HasEnd(grt) => HasEnd(grt)'
  BY <1>2, <1>3, <1>4, EndAppended
<1>16. GrtPhases'
  <2>1. \A i \in Jobs : nSentJobs' < i => ~HasRun(i)'
    <3> SUFFICES ASSUME NEW i \in Jobs, nSentJobs' < i PROVE ~HasRun(i)
      BY <1>7
    <3>1. nSentJobs < i
      BY <1>1, <1>2, <1>3 DEF Jobs
    <3> QED BY <1>2, <3>1 DEF OInv, GrtPhases, Outside
  <2>2. pc'[grt] = "send" /\ sentTo' = sentTo /\ planned' = planned
    BY <1>2
  <2>3. /\ planned < NRounds => sentTo = 0
        /\ grt < sentTo => HasEnd(grt)'
    BY <1>2, <1>15 DEF OInv, GrtPhases
  <2> QED BY <2>1, <2>2, <2>3 DEF GrtPhases, Outside, InJob
<1>17. MessagesAreSound' /\ ConfigsHaveRun' /\ FinishedAreCounted(notifQueue[nLrt])'
  BY <1>2, <1>7, <1>9, TellingsKept
<1> QED BY <1>12, <1>13, <1>14, <1>16, <1>17 DEF OInv

(* A step of the GRT after which it knows more of the configuration.       *)
LEMMA LearningStep ==
  ASSUME TInv, TInv', PInv, OInv, SameJobs,
         UNCHANGED <<nSentJobs, nFinishedPE, lastJobID>>,
         \A l \in LRT : SameMessages(notifQueue[l], notifQueue'[l], "JOB_ADD"),
         OldOrSound, NoneFinished(notifQueue[nLrt], notifQueue'[nLrt]),
         pc[grt] # "recv", pc'[grt] \in Outside => pc[grt] \in Outside,
         ConfigsHaveRun', GrtPhases'
  PROVE  OInv'
<1>1. Lasts
  BY SameJobsLast
<1>2. nSentJobs <= nSentJobs'
  BY ConstantTypes DEF TInv, GrtTypes
<1>3. Counted' /\ Progress' /\ JobQueueInOrder' /\ HeldAreTrue'
  BY <1>2, JobsKept
<1>4. AddsAreOrdered' /\ LastIDs'
  BY AllAddsKept DEF OInv, SameJobs, LastIDs
<1>5. MessagesAreSound' /\ FinishedAreCounted(notifQueue[nLrt])'
  BY <1>1, MessagesKept, AllFinishedKept DEF OInv
<1> QED BY <1>3, <1>4, <1>5 DEF OInv

(* A round is planned when the jobs that configure it have run.            *)
LEMMA PlanInOrder ==
  ASSUME TInv, TInv', PInv, OInv, Plan
  PROVE  OInv'
<1>1. PICK p : p = IF planned' < NRounds THEN "announce" ELSE "send"
  OBVIOUS
<1>2. /\ pc[grt] = "plan" /\ planned' = planned + 1 /\ pc' = [pc EXCEPT ![grt] = p]
      /\ p \in {"announce", "send"}
      /\ UNCHANGED <<notifQueue, unposted, jobQueue, jobQueueIndex, jobIx, lastJobID, jobStamps,
                     nSentJobs, sentTo, nFinishedPE, iteration, ran, resolved>>
  BY <1>1 DEF Plan, At, Static!At, queueVars, lrtVars, grtVars
<1>3. pc'[grt] = p /\ pc[grt] # "recv" /\ pc'[grt] \notin Outside
  BY <1>2, ElsewhereStays, ConstantTypes DEF Outside
<1>4. SameJobs
  <2>1. (p = "exec" <=> pc[grt] = "exec") /\ p \notin InJob
    BY <1>2 DEF InJob
  <2> QED BY <1>2, <2>1, MoveIsQuiet, ConstantTypes DEF OInv
<1>5. (\A j : HasRun(j)' <=> HasRun(j)) /\ (\A k : Rested(k)' <=> Rested(k))
  BY <1>4, SameJobsLast
<1>6. ConfigsHaveRun'
  <2>1. curNParam = 0 /\ SentUpTo(planned) /\ ParametersCounted
    BY <1>2 DEF PInv, Rounds
  <2>2. ASSUME NEW c \in Config, round[c] < planned + 1 PROVE HasRun(c)
    <3>1. c \in Jobs /\ round[c] \in Int /\ planned \in Int
      BY ConstantTypes, RoundAssumption DEF TInv, GrtTypes
    <3>2. round[c] <= planned
      BY <2>2, <3>1
    <3>3. c \in resolved
      BY <2>1, <3>1, <3>2, NoneIsAwaited DEF SentUpTo, Sent
    <3> QED BY <3>3 DEF OInv, ConfigsHaveRun
  <2> QED BY <1>2, <1>5, <2>2 DEF OInv, ConfigsHaveRun
<1>7. GrtPhases'
  <2>1. sentTo' = 0 /\ \A j \in Jobs : nSentJobs' < j => ~HasRun(j)'
    BY <1>2, <1>5 DEF OInv, GrtPhases, Outside
  <2>2. ~(grt < 0)
    BY ConstantTypes DEF LRT
  <2> QED BY <1>2, <1>3, <2>1, <2>2 DEF GrtPhases, Outside, InJob
<1>8. /\ \A l \in LRT : SameMessages(notifQueue[l], notifQueue'[l], "JOB_ADD")
      /\ OldOrSound /\ NoneFinished(notifQueue[nLrt], notifQueue'[nLrt])
  BY <1>2, SilentMoves, ConstantTypes
<1> QED BY <1>2, <1>3, <1>4, <1>6, <1>7, <1>8, LearningStep

LEMMA ResolveParamsInOrder ==
  ASSUME TInv, TInv', PInv, OInv, ResolveParams
  PROVE  OInv'
<1>1. PICK m : m = Head(notifQueue[nLrt])
  OBVIOUS
<1>2. /\ pc[grt] = "resolve" /\ credits[nLrt] > 0 /\ pc' = pc
      /\ \/ notifQueue' = [notifQueue EXCEPT ![nLrt] = Tail(@)]
         \/ notifQueue' = [notifQueue EXCEPT ![nLrt] = Append(Tail(@), Head(@))]
      /\ resolved' = resolved \/ (m.subType = "JOB_SENT_PARAM" /\ resolved' = resolved \cup {m.index})
      /\ UNCHANGED <<lrtVars, nSentJobs, sentTo, nFinishedPE, iteration, ran, planned>>
  BY <1>1 DEF ResolveParams, At, Static!At, grtVars
<1>3. nLrt \in Queues /\ nLrt # grt /\ grt \in LRT /\ LRT \subseteq Queues /\ nLrt \notin LRT
  BY ConstantTypes
<1>4. /\ notifQueue[nLrt] \in Seq(Messages) /\ notifQueue[nLrt] # <<>>
      /\ \A r \in Queues : r # nLrt => notifQueue'[r] = notifQueue[r]
      /\ NoneFinished(notifQueue[nLrt], notifQueue'[nLrt])
      /\ OldOrSound
  BY <1>2, <1>3, ReadMoves
<1>5. SameJobs /\ UNCHANGED <<jobQueue, jobQueueIndex, jobIx, lastJobID, jobStamps>>
  BY <1>2, GrtWaitsQuietly
<1>6. (\A j : HasRun(j)' <=> HasRun(j)) /\ (\A k : Rested(k)' <=> Rested(k))
  BY <1>5, SameJobsLast
<1>7. m.subType = "JOB_SENT_PARAM" => HasRun(m.index)
  <2>1. Sound(notifQueue[nLrt][1], nLrt) /\ m = notifQueue[nLrt][1]
    BY <1>1, <1>3, <1>4, TailElements DEF OInv, MessagesAreSound
  <2> QED BY <2>1 DEF Sound
<1>8. ConfigsHaveRun'
  BY <1>2, <1>6, <1>7 DEF OInv, ConfigsHaveRun
<1>9. \A l \in LRT : SameMessages(notifQueue[l], notifQueue'[l], "JOB_ADD")
  BY <1>3, <1>4, SameQueue, QueueDomains
<1>10. HasEnd(grt)' <=> HasEnd(grt)
  BY <1>3, <1>4 DEF HasEnd
<1>11. GrtPhases'
  BY <1>2, <1>6 DEF OInv, GrtPhases, Outside, InJob
<1>12. pc[grt] # "recv" /\ (pc'[grt] \in Outside => pc[grt] \in Outside)
  BY <1>2
<1> QED BY <1>2, <1>4, <1>5, <1>8, <1>9, <1>11, <1>12, LearningStep

(* The GRT counts the LRTs that have finished.                             *)
LEMMA ReceivingPhases ==
  ASSUME TInv, OInv, SameJobs, pc' = pc, pc[grt] = "recv",
         UNCHANGED <<nSentJobs, sentTo, planned>>
  PROVE  GrtPhases'
<1>1. (\A j : HasRun(j)' <=> HasRun(j)) /\ (\A k : Rested(k)' <=> Rested(k))
  BY SameJobsLast
<1> QED BY <1>1 DEF OInv, GrtPhases, Outside, InJob

LEMMA PushBackInOrder ==
  ASSUME TInv, TInv', PInv, OInv, Static!PushBackTrace, UNCHANGED jitVars
  PROVE  OInv'
<1>1. /\ pc[grt] = "recv" /\ credits[nLrt] > 0 /\ pc' = pc
      /\ notifQueue' = [notifQueue EXCEPT ![nLrt] = Append(Tail(@), Head(@))]
      /\ UNCHANGED <<lrtVars, nSentJobs, sentTo, nFinishedPE, iteration, ran, planned, resolved>>
  BY DEF Static!PushBackTrace, Static!At, Static!lrtVars, Static!grtVars, lrtVars, jitVars
<1>2. nLrt \in Queues /\ LRT \subseteq Queues /\ nLrt \notin LRT
  BY ConstantTypes
<1>3. /\ \A r \in Queues : r # nLrt => notifQueue'[r] = notifQueue[r]
      /\ NoneFinished(notifQueue[nLrt], notifQueue'[nLrt])
      /\ OldOrSound
  BY <1>1, <1>2, ReadMoves
<1>4. SameJobs /\ UNCHANGED <<jobQueue, jobQueueIndex, jobIx, lastJobID, jobStamps>>
  BY <1>1, GrtWaitsQuietly
<1>5. \A l \in LRT : SameMessages(notifQueue[l], notifQueue'[l], "JOB_ADD")
  BY <1>2, <1>3, SameQueue, QueueDomains
<1>6. LastIDs' /\ GrtPhases'
  BY <1>1, <1>4, ReceivingPhases DEF OInv, LastIDs
<1> QED BY <1>1, <1>3, <1>4, <1>5, <1>6, QuietStep

LEMMA OthersAreFinite ==
  /\ IsFiniteSet(Activated \ {grt}) /\ Activated \ {grt} \subseteq LRT
  /\ Cardinality(Activated \ {grt}) = Cardinality(Activated) - 1
<1>1. IsFiniteSet(LRT) /\ Activated \subseteq LRT /\ grt \in Activated
  BY PlatformAssumption, FS_Interval DEF LRT
<1>2. IsFiniteSet(Activated)
  BY <1>1, FS_Subset
<1> QED BY <1>1, <1>2, FS_RemoveElement

LEMMA ReceiveInOrder ==
  ASSUME TInv, TInv', PInv, OInv, Static!ReceiveFinished, UNCHANGED jitVars
  PROVE  OInv'
<1>1. PICK q, m, i : q = notifQueue[nLrt] /\ m = Head(q) /\ i = m.lrtID
  OBVIOUS
<1>2. /\ pc[grt] = "recv" /\ credits[nLrt] > 0 /\ pc' = pc
      /\ m.subType = "LRT_FINISHED_ITERATION"
      /\ notifQueue' = [notifQueue EXCEPT ![nLrt] = Tail(@)]
      /\ nFinishedPE' = nFinishedPE + 1
      /\ UNCHANGED <<lrtVars, nSentJobs, sentTo, iteration, ran, planned, resolved>>
  BY <1>1 DEF Static!ReceiveFinished, Static!At, Static!lrtVars, lrtVars, jitVars
<1>3. nLrt \in Queues /\ LRT \subseteq Queues /\ nLrt \notin LRT
  BY ConstantTypes
<1>4. /\ q \in Seq(Messages) /\ q # <<>>
      /\ \A r \in Queues : r # nLrt => notifQueue'[r] = notifQueue[r]
      /\ NoneFinished(q, notifQueue'[nLrt])
      /\ OldOrSound
  BY <1>1, <1>2, <1>3, ReadMoves
<1>5. SameJobs /\ UNCHANGED <<jobQueue, jobQueueIndex, jobIx, lastJobID, jobStamps>>
  BY <1>2, GrtWaitsQuietly
<1>6. (\A k : Rested(k)' <=> Rested(k)) /\ Lasts
  BY <1>5, SameJobsLast
<1>7. Counted' /\ Progress' /\ JobQueueInOrder' /\ HeldAreTrue'
  <2>1. nSentJobs <= nSentJobs'
    BY <1>2, ConstantTypes DEF TInv, GrtTypes
  <2> QED BY <1>5, <2>1, JobsKept
<1>8. AddsAreOrdered'
  <2>1. \A l \in LRT : SameMessages(notifQueue[l], notifQueue'[l], "JOB_ADD")
    BY <1>3, <1>4, SameQueue, QueueDomains
  <2> QED BY <1>2, <1>5, <2>1, AllAddsKept DEF OInv
<1>9. LastIDs' /\ GrtPhases'
  BY <1>2, <1>5, ReceivingPhases DEF OInv, LastIDs
<1>10. MessagesAreSound' /\ ConfigsHaveRun'
  BY <1>2, <1>4, <1>6, MessagesKept, ConfigsKept DEF OInv
<1>11. PICK r : r = notifQueue'[nLrt]
  OBVIOUS
<1>12. /\ r = Tail(q) /\ 1 \in DOMAIN q /\ m = q[1]
       /\ \A k \in DOMAIN r : k # 0 /\ k + 1 \in DOMAIN q /\ r[k] = q[k + 1] /\ k + 1 # 1
  <2>1. r = Tail(q)
    BY <1>1, <1>2, <1>3, <1>11 DEF TInv, QueueTypes
  <2> QED BY <1>1, <1>4, <2>1, TailElements
<1>13. i \in Activated \ {grt} /\ Rested(i) /\ FinishedFrom(i, q) /\ i \in LRT
  <2>1. Sound(m, nLrt)
    BY <1>1, <1>3, <1>12 DEF OInv, MessagesAreSound
  <2> QED BY <1>1, <1>2, <1>12, <2>1, OthersAreFinite DEF Sound, FinishedFrom, IsFinishedOf
<1>14. ~FinishedFrom(i, r)
  <2>1. IsFinishedOf(q[1], i)
    BY <1>1, <1>2, <1>12 DEF IsFinishedOf
  <2>2. FinishedOnce(i, q)
    BY <1>1, <1>13 DEF OInv, FinishedAreCounted
  <2> SUFFICES ASSUME NEW k \in DOMAIN r, IsFinishedOf(r[k], i) PROVE FALSE
    BY DEF FinishedFrom
  <2> QED BY <1>12, <2>1, <2>2 DEF FinishedOnce
<1>15. PICK F \in SUBSET (Activated \ {grt}) :
         Cardinality(F) = nFinishedPE /\ \A k \in F : Rested(k) /\ ~FinishedFrom(k, q)
  BY <1>1 DEF OInv, FinishedAreCounted
<1>16. i \notin F /\ IsFiniteSet(F)
  BY <1>13, <1>15, OthersAreFinite, FS_Subset
<1>17. PICK G : G = F \cup {i}
  OBVIOUS
<1>18. G \in SUBSET (Activated \ {grt}) /\ Cardinality(G) = nFinishedPE'
  BY <1>2, <1>13, <1>15, <1>16, <1>17, FS_AddElement
<1>19. \A k \in G : Rested(k)' /\ ~FinishedFrom(k, r)
  <2> SUFFICES ASSUME NEW k \in G PROVE Rested(k)' /\ ~FinishedFrom(k, r)
    OBVIOUS
  <2>1. k \in LRT
    BY <1>13, <1>17, OthersAreFinite
  <2> QED BY <1>4, <1>6, <1>11, <1>13, <1>14, <1>15, <1>17, <2>1 DEF NoneFinished
<1>20. FinishedAreCounted(r)'
  <2>1. \A k \in LRT : FinishedOnce(k, r)
    BY <1>1, <1>4, <1>11 DEF OInv, FinishedAreCounted, NoneFinished
  <2> QED BY <1>2, <1>18, <1>19, <2>1 DEF FinishedAreCounted, Outside, FinishedFrom, FinishedOnce
<1> QED BY <1>7, <1>8, <1>9, <1>10, <1>11, <1>20 DEF OInv, FinishedAreCounted

(* When the GRT has counted them all, the iteration is over everywhere.    *)
LEMMA AllHaveFinished ==
  ASSUME TInv, OInv, pc[grt] = "recv", nFinishedPE = Static!NPEToWait
  PROVE  /\ \A l \in LRT : Rested(l)
         /\ \A l \in LRT : ~FinishedFrom(l, notifQueue[nLrt])
<1>1. PICK q : q = notifQueue[nLrt]
  OBVIOUS
<1>2. PICK F \in SUBSET (Activated \ {grt}) :
        Cardinality(F) = nFinishedPE /\ \A k \in F : Rested(k) /\ ~FinishedFrom(k, q)
  BY <1>1 DEF OInv, FinishedAreCounted
<1>3. Cardinality(F) = Cardinality(Activated \ {grt})
  <2>1. Static!NPEToWait = Cardinality(Activated) - 1
    BY StaticCardinality DEF Static!NPEToWait
  <2> QED BY <1>2, <2>1, OthersAreFinite
<1>4. F = Activated \ {grt}
  BY <1>3, OthersAreFinite, FS_Subset
<1>5. ASSUME NEW l \in LRT PROVE Rested(l)
  <2>1. CASE l = grt
    BY <2>1 DEF OInv, GrtPhases
  <2>2. CASE l \in F
    BY <1>2, <2>2
  <2>3. CASE l \notin Activated
    <3>1. JobsOf(l) = {}
      BY <2>3, ScheduleTypes DEF JobsOf
    <3> QED BY <3>1, NoJobsRested
  <2> QED BY <1>4, <2>1, <2>2, <2>3
<1>6. ASSUME NEW l \in LRT, FinishedFrom(l, q) PROVE FALSE
  <2>1. PICK k \in DOMAIN q : IsFinishedOf(q[k], l)
    BY <1>6 DEF FinishedFrom
  <2>2. Sound(q[k], nLrt)
    BY <1>1, <2>1, ConstantTypes DEF OInv, MessagesAreSound
  <2>3. l \in F
    BY <1>4, <2>1, <2>2 DEF Sound, IsFinishedOf
  <2> QED BY <1>2, <1>6, <2>3
<1> QED BY <1>1, <1>5, <1>6

LEMMA ReturnInOrder ==
  ASSUME TInv, TInv', PInv, OInv, Static!IterateReturns, UNCHANGED jitVars
  PROVE  OInv'
<1>1. PICK p, q : p = "idle" /\ q = notifQueue[nLrt]
  OBVIOUS
<1>2. /\ pc[grt] = "recv" /\ nFinishedPE = Static!NPEToWait /\ nFinishedPE' = 0
      /\ pc' = [pc EXCEPT ![grt] = p]
      /\ UNCHANGED <<queueVars, lrtVars, nSentJobs, sentTo, iteration, ran, planned, resolved>>
  BY <1>1 DEF Static!IterateReturns, Static!At, Static!lrtVars, Static!queueVars, lrtVars,
              queueVars, jitVars
<1>3. UNCHANGED <<notifQueue, unposted, jobQueue, jobQueueIndex, jobIx, lastJobID, jobStamps>>
  BY <1>2 DEF queueVars, lrtVars
<1>4. pc'[grt] = "idle" /\ grt \in LRT
  BY <1>1, <1>2, ElsewhereStays, ConstantTypes
<1>5. SameJobs
  <2>1. (p = "exec" <=> pc[grt] = "exec") /\ p \notin InJob
    BY <1>1, <1>2 DEF InJob
  <2> QED BY <1>2, <1>3, <1>4, <2>1, MoveIsQuiet DEF OInv
<1>6. (\A k : Rested(k)' <=> Rested(k)) /\ Lasts
  BY <1>5, SameJobsLast
<1>7. (\A l \in LRT : Rested(l)) /\ (\A l \in LRT : ~FinishedFrom(l, q))
  BY <1>1, <1>2, AllHaveFinished
<1>8. Counted' /\ Progress' /\ JobQueueInOrder' /\ HeldAreTrue'
  <2>1. nSentJobs <= nSentJobs'
    BY <1>2, ConstantTypes DEF TInv, GrtTypes
  <2> QED BY <1>5, <2>1, JobsKept
<1>9. OldOrSound /\ \A l \in LRT : SameMessages(notifQueue[l], notifQueue'[l], "JOB_ADD")
  BY <1>3, SilentMoves, ConstantTypes
<1>10. AddsAreOrdered' /\ LastIDs'
  BY <1>2, <1>3, <1>9, AllAddsKept DEF OInv, LastIDs
<1>11. MessagesAreSound' /\ ConfigsHaveRun'
  BY <1>2, <1>6, <1>9, MessagesKept, ConfigsKept DEF OInv
<1>12. GrtPhases'
  <2>1. sentTo' = 0
    BY <1>2, <1>3 DEF OInv, GrtPhases
  <2>2. \A l \in LRT : Rested(l)'
    BY <1>6, <1>7
  <2> QED BY <1>4, <2>1, <2>2 DEF GrtPhases, Outside, InJob
<1>13. FinishedAreCounted(q)'
  <2>1. \A l \in LRT : FinishedOnce(l, q)
    BY <1>1 DEF OInv, FinishedAreCounted
  <2>2. PICK F : F = {}
    OBVIOUS
  <2>3. F \in SUBSET (Activated \ {grt}) /\ Cardinality(F) = nFinishedPE' /\ \A i : i \notin F
    BY <1>2, <2>2, FS_EmptySet
  <2> QED BY <1>2, <1>7, <2>1, <2>3 DEF FinishedAreCounted, FinishedOnce, FinishedFrom
<1> QED BY <1>1, <1>3, <1>8, <1>10, <1>11, <1>12, <1>13 DEF OInv, FinishedAreCounted

(* A call of iterate.  Here, and only here, something that was true can    *)
(* become false: no job has run in the new iteration.                      *)
LEMMA IdleQueues ==
  ASSUME TInv, PInv, OInv, ~StampIsLeft, pc[grt] = "idle",
         NEW q \in Queues, NEW k \in DOMAIN notifQueue[q]
  PROVE  LET m == notifQueue[q][k] IN
         /\ m.subType \notin {"JOB_UPDATE_JOBSTAMP", "JOB_SENT_PARAM", "LRT_FINISHED_ITERATION"}
         /\ q \in LRT => m.subType # "JOB_ADD"
         /\ m.subType = "LRT_END_ITERATION" => m.index = nJobPerPE[q] - 1
<1>1. PICK m : m = notifQueue[q][k]
  OBVIOUS
<1>2. m \in Messages /\ Sound(m, q)
  <2>1. notifQueue[q] \in Seq(Messages)
    BY QueueDomains
  <2>2. m \in Messages
    BY <1>1, <2>1, ElementOfSeq, LenProperties
  <2> QED BY <1>1, <2>2 DEF OInv, MessagesAreSound
<1>3. m.subType # "JOB_UPDATE_JOBSTAMP"
  <2>1. q # nLrt => q \in LRT
    BY PlatformAssumption DEF Queues, LRT
  <2> QED BY <1>1, <1>2, <2>1 DEF StampIsLeft, Sound
<1>4. m.subType # "JOB_SENT_PARAM"
  <2> SUFFICES ASSUME m.subType = "JOB_SENT_PARAM" PROVE FALSE
    OBVIOUS
  <2>1. m.index \in Config
    BY <1>2 DEF Messages, JobKinds
  <2>2. q \in Messengers(m.index)
    BY <1>1 DEF Messengers, Carried, Carries
  <2>3. Sent \ resolved = {}
    BY NoneIsAwaited DEF PInv, Rounds
  <2> QED BY <2>1, <2>2, <2>3 DEF PInv, InOnePlace
<1>5. m.subType # "LRT_FINISHED_ITERATION"
  <2> SUFFICES ASSUME m.subType = "LRT_FINISHED_ITERATION" PROVE FALSE
    OBVIOUS
  <2>1. q = nLrt /\ m.lrtID \in LRT
    BY <1>2, OthersAreFinite DEF Sound
  <2>2. FinishedFrom(m.lrtID, notifQueue[nLrt])
    BY <1>1, <2>1 DEF FinishedFrom, IsFinishedOf
  <2> QED BY <2>1, <2>2 DEF OInv, FinishedAreCounted, Outside
<1>6. q \in LRT => m.subType # "JOB_ADD"
  <2> SUFFICES ASSUME q \in LRT, m.subType = "JOB_ADD" PROVE FALSE
    OBVIOUS
  <2>1. m.index \in Jobs
    BY <1>2 DEF Messages, JobKinds
  <2>2. HasRun(m.index)
    BY <2>1, ConstantTypes DEF OInv, GrtPhases, Outside, Rested, JobsOf
  <2> QED BY <1>1, <2>2 DEF OInv, AddsAreOrdered, AddsInOrder
<1> QED BY <1>1, <1>2, <1>3, <1>4, <1>5, <1>6 DEF Sound

LEMMA IterateInOrder ==
  ASSUME TInv, TInv', PInv, OInv, ~StampIsLeft, Iterate
  PROVE  OInv'
<1>1. /\ pc[grt] = "idle" /\ iteration' = iteration + 1 /\ pc' = [pc EXCEPT ![grt] = "plan"]
      /\ nSentJobs' = 0 /\ planned' = 0 /\ resolved' = {}
      /\ UNCHANGED <<notifQueue, unposted, jobQueue, jobQueueIndex, jobIx, lastJobID, jobStamps,
                     sentTo, nFinishedPE, ran>>
  BY DEF Iterate, At, Static!At, queueVars, lrtVars
<1>2. pc'[grt] = "plan" /\ \A l \in LRT : l # grt => pc'[l] = pc[l]
  BY <1>1, ConstantTypes DEF TInv, LrtTypes
<1>3. iteration \in Nat /\ \A j \in Jobs : ran[j] = iteration
  <2>1. \A j \in Jobs : HasRun(j)
    BY <1>1, ConstantTypes DEF OInv, GrtPhases, Outside, Rested, JobsOf
  <2> QED BY <2>1 DEF HasRun, TInv, GrtTypes
<1>4. \A j \in Jobs : ~HasRun(j)'
  BY <1>1, <1>3 DEF HasRun
<1>5. \A l \in LRT : Blank(l) /\ pc[l] \notin InJob
  <2> TAKE l \in LRT
  <2>1. Blank(l)
    BY <1>1 DEF OInv, GrtPhases, Outside, Rested
  <2> QED BY <2>1 DEF OInv, JobQueueInOrder, Blank
<1>6. Counted'
  BY <1>1, <1>3 DEF Counted
<1>7. Progress'
  <2> SUFFICES ASSUME NEW l \in LRT, NEW j \in JobsOf(l) PROVE ~HasRun(j)' /\ ~(jobID[j] <= jobIx'[l])
    BY DEF Progress, JobsOf
  <2>1. jobIx'[l] = -1 /\ jobID[j] \in Nat /\ j \in Jobs
    BY <1>1, <1>5, ScheduleFacts DEF Blank
  <2> QED BY <1>4, <2>1
<1>8. JobQueueInOrder'
  <2> SUFFICES ASSUME NEW l \in LRT
               PROVE  /\ jobQueue'[l] = <<>> /\ jobQueueIndex'[l] = 0 /\ jobIx'[l] = -1
                      /\ pc'[l] \notin InJob /\ pc'[l] # "exec"
    BY DEF JobQueueInOrder
  <2> QED BY <1>1, <1>2, <1>5 DEF Blank, InJob
<1>9. AddsAreOrdered'
  <2> SUFFICES ASSUME NEW l \in LRT
               PROVE  /\ \A k \in DOMAIN notifQueue'[l] : notifQueue'[l][k].subType # "JOB_ADD"
                      /\ \A j \in JobsOf(l) : ~(j <= nSentJobs')
    BY DEF AddsAreOrdered, AddsInOrder, JobsOf
  <2>1. \A j \in JobsOf(l) : ~(j <= 0)
    BY DEF JobsOf, Jobs
  <2>2. l \in Queues
    BY ConstantTypes
  <2> QED BY <1>1, <2>1, <2>2, IdleQueues
<1>10. HeldAreTrue'
  <2> SUFFICES ASSUME NEW l \in LRT, NEW i \in LRT, NEW j \in JobsOf(i)
               PROVE  ~(jobID[j] <= jobStamps'[l][i])
    BY DEF HeldAreTrue, StampIsTrue, JobsOf
  <2>1. jobStamps'[l][i] = -1
    BY <1>1 DEF StampIsLeft
  <2>2. jobID[j] \in Nat
    BY ScheduleFacts
  <2> QED BY <2>1, <2>2
<1>11. MessagesAreSound'
  <2> SUFFICES ASSUME NEW q \in Queues, NEW k \in DOMAIN notifQueue'[q]
               PROVE  Sound(notifQueue[q][k], q)'
    BY DEF MessagesAreSound
  <2>1. PICK m : m = notifQueue[q][k]
    OBVIOUS
  <2>2. /\ m.subType \notin {"JOB_UPDATE_JOBSTAMP", "JOB_SENT_PARAM", "LRT_FINISHED_ITERATION"}
        /\ m.subType = "LRT_END_ITERATION" => m.index = nJobPerPE[q] - 1
    BY <1>1, <2>1, IdleQueues
  <2>3. m = notifQueue'[q][k]
    BY <1>1, <2>1
  <2>4. Sound(m, q)'
    BY <2>2 DEF Sound
  <2> QED BY <2>3, <2>4 DEF Sound
<1>12. ConfigsHaveRun'
  <2> SUFFICES ASSUME NEW c \in Config PROVE ~(round[c] < 0)
    BY <1>1 DEF ConfigsHaveRun
  <2> QED BY ConstantTypes, RoundAssumption
<1>13. LastIDs'
  BY <1>1 DEF OInv, LastIDs
<1>14. GrtPhases'
  <2>1. sentTo' = 0
    BY <1>1 DEF OInv, GrtPhases
  <2> QED BY <1>2, <1>4, <2>1 DEF GrtPhases, Outside, InJob
<1>15. PICK q : q = notifQueue[nLrt]
  OBVIOUS
<1>16. FinishedAreCounted(q)'
  <2>1. (\A l \in LRT : FinishedOnce(l, q)) /\ nFinishedPE' = 0
    BY <1>1, <1>15 DEF OInv, FinishedAreCounted
  <2>2. PICK F : F = {}
    OBVIOUS
  <2>3. F \in SUBSET (Activated \ {grt}) /\ Cardinality(F) = nFinishedPE' /\ \A i : i \notin F
    BY <2>1, <2>2, FS_EmptySet
  <2> QED BY <1>2, <2>1, <2>3 DEF FinishedAreCounted, FinishedOnce, FinishedFrom, Outside
<1>17. FinishedAreCounted(notifQueue[nLrt])'
  BY <1>1, <1>15, <1>16 DEF FinishedAreCounted
<1> QED BY <1>6, <1>7, <1>8, <1>9, <1>10, <1>11, <1>12, <1>13, <1>14, <1>17 DEF OInv

LEMMA StutterInOrder ==
  ASSUME TInv, TInv', PInv, OInv, UNCHANGED vars
  PROVE  OInv'
<1>1. UNCHANGED <<notifQueue, unposted, jobQueue, jobQueueIndex, jobIx, lastJobID, jobStamps,
                  nSentJobs, sentTo, nFinishedPE, iteration, pc, ran, planned, resolved>>
  BY DEF vars, queueVars, lrtVars, grtVars, jitVars
<1>2. SameJobs
  BY <1>1, MoveIsQuiet, ConstantTypes DEF OInv
<1>3. (\A j : HasRun(j)' <=> HasRun(j)) /\ (\A k : Rested(k)' <=> Rested(k))
  BY <1>2, SameJobsLast
<1>4. HasEnd(grt)' <=> HasEnd(grt)
  BY <1>1 DEF HasEnd
<1>5. GrtPhases'
  BY <1>1, <1>3, <1>4 DEF OInv, GrtPhases, InJob
<1> QED BY <1>1, <1>2, <1>5, SilentStep

LEMMA InitInOrder == ASSUME Init PROVE OInv
<1> USE DEF Init, Static!Init
<1>1. TInv
  BY InitTypes
<1>2. /\ \A q \in Queues : notifQueue[q] = <<>>
      /\ \A l \in LRT : /\ jobQueue[l] = <<>> /\ jobQueueIndex[l] = 0 /\ jobIx[l] = -1
                        /\ lastJobID[l] = -1 /\ pc[l] \in {"idle", "drain"}
                        /\ \A i \in LRT : jobStamps[l][i] = -1
      /\ \A j \in Jobs : ran[j] = 0
      /\ pc[grt] = "idle" /\ nSentJobs = 0 /\ sentTo = 0 /\ nFinishedPE = 0 /\ iteration = 0
      /\ planned = 0 /\ resolved = {}
  BY StaticNames, ConstantTypes DEF Queues
<1> HIDE DEF Init, Static!Init
<1>3. (\A j \in Jobs : HasRun(j)) /\ \A l \in LRT : Rested(l)
  BY <1>2 DEF HasRun, Rested, Blank, JobsOf
<1>4. DOMAIN <<>> = {} /\ Len(<<>>) = 0
  OBVIOUS
<1>5. /\ \A q \in Queues : DOMAIN notifQueue[q] = {}
      /\ \A l \in LRT : DOMAIN jobQueue[l] = {} /\ Len(jobQueue[l]) = 0
  BY <1>2, <1>4
<1>6. Counted /\ Progress
  BY <1>2, <1>3 DEF Counted, Progress
<1>7. JobQueueInOrder
  BY <1>2, <1>5 DEF JobQueueInOrder, InJob
<1>8. AddsAreOrdered
  <2> SUFFICES ASSUME NEW l \in LRT PROVE AddsInOrder(l, notifQueue[l])
    BY DEF AddsAreOrdered
  <2>1. DOMAIN notifQueue[l] = {}
    BY <1>5, ConstantTypes
  <2>2. \A j \in JobsOf(l) : HasRun(j)
    BY <1>3 DEF JobsOf
  <2> QED BY <2>1, <2>2 DEF AddsInOrder
<1>9. HeldAreTrue /\ MessagesAreSound
  BY <1>3, <1>5 DEF HeldAreTrue, StampIsTrue, JobsOf, MessagesAreSound
<1>10. ConfigsHaveRun
  BY <1>2, <1>3, ConstantTypes DEF ConfigsHaveRun
<1>11. LastIDs
  BY <1>2 DEF LastIDs
<1>12. GrtPhases
  BY <1>2, <1>3 DEF GrtPhases, Outside, InJob
<1>13. FinishedAreCounted(notifQueue[nLrt])
  <2>1. PICK F, q : F = {} /\ q = notifQueue[nLrt]
    OBVIOUS
  <2>2. DOMAIN q = {}
    BY <1>5, <2>1, ConstantTypes
  <2>3. F \in SUBSET (Activated \ {grt}) /\ Cardinality(F) = nFinishedPE /\ \A i : i \notin F
    BY <1>2, <2>1, FS_EmptySet
  <2>4. FinishedAreCounted(q)
    BY <1>2, <2>2, <2>3 DEF FinishedAreCounted, FinishedOnce, FinishedFrom
  <2> QED BY <2>1, <2>4
<1> QED BY <1>6, <1>7, <1>8, <1>9, <1>10, <1>11, <1>12, <1>13 DEF OInv

(* Every step; only a call of iterate needs to know of the stamps.         *)
LEMMA StepInOrder ==
  ASSUME TInv, TInv', PInv, OInv, [Next]_vars, ~GrtMisses, Iterate => ~StampIsLeft
  PROVE  OInv'
<1>1. ASSUME NEW l \in LRT, Run(l) \/ Post(l) PROVE OInv'
  BY <1>1, RunInOrder
<1>2. CASE Iterate
  BY <1>2, IterateInOrder
<1>3. CASE GrtIterates
  <2>1. CASE Plan \/ Announce \/ SendJob \/ ResolveParams
    BY <2>1, PlanInOrder, AnnounceInOrder, SendJobInOrder, ResolveParamsInOrder
  <2>2. CASE RunConfigJobs \/ Resolved
    BY <2>2, GrtMovingInOrder
  <2>3. CASE FinishSchedule
    BY <2>3, SendEndInOrder, GrtMovingInOrder DEF FinishSchedule
  <2>4. CASE EndIteration
    BY <2>4, ReceiveInOrder, PushBackInOrder, ReturnInOrder DEF EndIteration
  <2> QED BY <1>3, <2>1, <2>2, <2>3, <2>4 DEF GrtIterates
<1>4. CASE Stop
  BY <1>4, GrtMovingInOrder, SendStopInOrder DEF Stop, Static!GrtStops
<1>5. CASE Terminated \/ UNCHANGED vars
  BY <1>5, StutterInOrder DEF Terminated
<1> QED BY <1>1, <1>2, <1>3, <1>4, <1>5 DEF Next

-----------------------------------------------------------------------------
(* The refinement: an execution of a dynamic graph is an execution of the  *)
(* iterated dataflow graph, with the configuration among the inputs.       *)

(* Jobs begin and end only where an LRT enters and leaves "exec".          *)
LEMMA JobStarts ==
  /\ \A j : Static!Executing(j) <=> \E l \in LRT : pc[l] = "exec" /\ Static!CurrentJob(l) = j
  /\ Static!started = [j \in Jobs |-> ran[j] + IF Static!Executing(j) THEN 1 ELSE 0]
  BY StaticNames DEF Static!Executing, Static!started

LEMMA StartedKept ==
  ASSUME ran' = ran, \A l \in LRT : pc'[l] = "exec" <=> pc[l] = "exec",
         \A l \in LRT : pc[l] = "exec" =>
           jobQueue'[l] = jobQueue[l] /\ jobQueueIndex'[l] = jobQueueIndex[l]
  PROVE  Static!started' = Static!started
<1>1. \A j : Static!Executing(j)' <=> Static!Executing(j)
  BY StaticNames DEF Static!Executing, Static!CurrentJob
<1> QED BY <1>1, StaticNames DEF Static!started

(* A step of LRT l outside of runJob, or inside of its loop of notifies.   *)
LEMMA MoveStutters ==
  ASSUME TInv, NEW l \in LRT, NEW p, p # "exec", pc[l] # "exec", pc' = [pc EXCEPT ![l] = p],
         UNCHANGED <<ran, iteration>>,
         \A k \in LRT : k # l => jobQueue'[k] = jobQueue[k] /\ jobQueueIndex'[k] = jobQueueIndex[k]
  PROVE  UNCHANGED Dataflow!vars
<1>1. pc'[l] # "exec" /\ \A k \in LRT : k # l => pc'[k] = pc[k]
  BY ElsewhereStays
<1>2. Static!started' = Static!started
  BY <1>1, StartedKept
<1> QED BY <1>2 DEF Dataflow!vars

LEMMA SilentStutters ==
  ASSUME UNCHANGED <<ran, iteration, pc, jobQueue, jobQueueIndex>>
  PROVE  UNCHANGED Dataflow!vars
<1>1. Static!started' = Static!started
  BY StartedKept
<1> QED BY <1>1 DEF Dataflow!vars

LEMMA PassStutters ==
  ASSUME TInv, NEW l \in LRT, NEW resume \in {"wait", "drain"}, pc[l] # "exec",
         EndPass(l, resume)
  PROVE  UNCHANGED Dataflow!vars
<1>1. /\ UNCHANGED <<iteration, ran>>
      /\ \/ Static!ResetLrt(l)
         \/ UNCHANGED lrtVars
      /\ \E p \in {"wait", "drain", "broadcast", "resolve", "recv"} : pc' = [pc EXCEPT ![l] = p]
  BY EndPassDoes DEF grtVars
<1>2. \A k \in LRT : k # l => jobQueue'[k] = jobQueue[k] /\ jobQueueIndex'[k] = jobQueueIndex[k]
  BY <1>1 DEF Static!ResetLrt, Static!ClearJobQueue, lrtVars, TInv, LrtTypes
<1> QED BY <1>1, <1>2, MoveStutters

(* What a job reads is there when it starts: stamps that are true say so   *)
(* of the jobs it reads, the rounds of the configuration.                  *)
LEMMA InputsAreThere ==
  ASSUME TInv, PInv, OInv, NEW l \in LRT, NEW j \in JobsOf(l), j <= nSentJobs,
         Static!CompareLRTJobStamps(l, j), NEW p \in Inputs[j]
  PROVE  HasRun(p)
<1>1. j \in Jobs /\ mappedPE[j] = l
  BY ScheduleFacts
<1>2. CASE p \in preds[j]
  <2>1. p \in Jobs /\ jobID[p] \in Nat /\ jobID[p] <= jobs2Wait[j][mappedPE[p]]
    BY <1>1, <1>2, ScheduleTypes, ScheduleAssumption DEF WaitsCoverPreds
  <2>2. PICK i \in LRT : i = mappedPE[p]
    BY <2>1, ConstantTypes
  <2>3. jobs2Wait[j][i] \in Int /\ jobStamps[l][i] \in Int
    <3>1. jobs2Wait[j] \in [LRT -> Nat \cup {-1}]
      BY <1>1, ScheduleTypes
    <3>2. jobStamps[l] \in [LRT -> Nat \cup {-1}]
      BY DEF TInv, LrtTypes, Stamp
    <3>3. jobs2Wait[j][i] \in Nat \cup {-1} /\ jobStamps[l][i] \in Nat \cup {-1}
      BY <2>2, <3>1, <3>2
    <3> QED BY <3>3
  <2>4. jobs2Wait[j][i] >= 0 => jobs2Wait[j][i] <= jobStamps[l][i]
    BY <2>2, StaticNames DEF Static!CompareLRTJobStamps
  <2>5. jobID[p] <= jobStamps[l][i]
    BY <2>1, <2>2, <2>3, <2>4
  <2>6. StampIsTrue(i, jobStamps[l][i])
    BY DEF OInv, HeldAreTrue
  <2> QED BY <2>1, <2>2, <2>5, <2>6 DEF StampIsTrue, JobsOf
<1>3. CASE p \in Config /\ round[p] < round[j]
  <2>1. round[p] < planned
    <3>1. round[j] <= planned
      BY <1>1 DEF PInv, Rounds
    <3>2. round[p] \in Int /\ round[j] \in Int /\ planned \in Int
      BY <1>1, <1>3, ConstantTypes, RoundAssumption DEF TInv, GrtTypes
    <3> QED BY <1>3, <3>1, <3>2
  <2> QED BY <1>3, <2>1 DEF OInv, ConfigsHaveRun
<1> QED BY <1>1, <1>2, <1>3 DEF Inputs

LEMMA StartJobStarts ==
  ASSUME TInv, PInv, OInv, NEW l \in LRT, Static!StartJob(l)
  PROVE  \E j \in Jobs : Dataflow!Start(j)
<1>1. /\ pc \in [LRT -> InRun \cup InGrt] /\ jobQueueIndex \in [LRT -> Nat]
      /\ ran \in [Jobs -> Nat] /\ iteration \in Nat /\ Counted
  BY DEF TInv, LrtTypes, GrtTypes, OInv
<1>2. /\ pc[l] = "drain" /\ Static!GotJobToDo(l)
      /\ Static!CompareLRTJobStamps(l, Static!NextJob(l))
      /\ jobQueueIndex' = [jobQueueIndex EXCEPT ![l] = @ + 1]
      /\ pc' = [pc EXCEPT ![l] = "exec"]
      /\ UNCHANGED <<jobQueue, ran, iteration>>
  BY DEF Static!StartJob, Static!Drained, Static!At, Static!grtVars
<1>3. PICK j \in Jobs : /\ j = Static!NextJob(l) /\ j \in JobsOf(l) /\ ~HasRun(j)
                        /\ j = jobQueue[l][jobQueueIndex[l] + 1] /\ j <= nSentJobs
  BY <1>2, NextJobIsNext, ScheduleFacts
<1>4. /\ pc'[l] = "exec" /\ Static!CurrentJob(l)' = j
      /\ \A k \in LRT : k # l => pc'[k] = pc[k] /\ Static!CurrentJob(k)' = Static!CurrentJob(k)
  BY <1>1, <1>2, <1>3 DEF Static!CurrentJob
<1>5. ~Static!Executing(j)
  <2> SUFFICES ASSUME NEW k \in LRT, pc[k] = "exec", Static!CurrentJob(k) = j PROVE FALSE
    BY JobStarts
  <2>1. mappedPE[j] = k
    BY CurrentJobIsNext, ScheduleFacts
  <2> QED BY <1>2, <1>3, <2>1 DEF JobsOf
<1>6. Static!Executing(j)' /\ \A i \in Jobs : i # j => (Static!Executing(i)' <=> Static!Executing(i))
  BY <1>2, <1>4, StaticNames DEF Static!Executing
<1>7. Static!started' = [Static!started EXCEPT ![j] = @ + 1]
  <2>1. /\ Static!started \in [Jobs -> Nat] /\ Static!started' \in [Jobs -> Nat]
        /\ Static!started[j] = ran[j] /\ Static!started'[j] = ran[j] + 1
    BY <1>1, <1>2, <1>5, <1>6, StaticNames DEF Static!started
  <2>2. \A i \in Jobs : i # j => Static!started'[i] = Static!started[i]
    BY <1>2, <1>6, StaticNames DEF Static!started
  <2> QED BY <2>1, <2>2
<1>8. Static!started[j] < iteration
  <2>1. Static!started[j] = ran[j] /\ ran[j] \in Nat
    BY <1>1, <1>5, JobStarts
  <2>2. ran[j] + 1 = iteration
    BY <1>3 DEF OInv, Counted, HasRun
  <2> QED BY <1>1, <2>1, <2>2
<1>9. \A p \in Inputs[j] : ran[p] = iteration
  BY <1>2, <1>3, InputsAreThere DEF HasRun
<1>10. Dataflow!Start(j)
  BY <1>2, <1>7, <1>8, <1>9 DEF Dataflow!Start
<1> QED BY <1>10

LEMMA FinishJobEnds ==
  ASSUME TInv, OInv, NEW l \in LRT, Static!FinishJob(l)
  PROVE  \E j \in Jobs : Dataflow!End(j)
<1>1. /\ pc \in [LRT -> InRun \cup InGrt] /\ ran \in [Jobs -> Nat]
  BY DEF TInv, LrtTypes
<1>2. PICK j \in Jobs : j = Static!CurrentJob(l) /\ mappedPE[j] = l
  BY CurrentJobIsNext, ScheduleFacts DEF Static!FinishJob, Static!At
<1>3. /\ pc[l] = "exec" /\ pc' = [pc EXCEPT ![l] = "notify"]
      /\ ran' = [ran EXCEPT ![j] = @ + 1]
      /\ UNCHANGED <<jobQueue, jobQueueIndex, iteration>>
  BY <1>2 DEF Static!FinishJob, Static!At, Static!grtVars
<1>4. /\ pc'[l] # "exec" /\ \A k \in LRT : k # l => pc'[k] = pc[k]
      /\ \A k \in LRT : Static!CurrentJob(k)' = Static!CurrentJob(k)
  BY <1>1, <1>3 DEF Static!CurrentJob
<1>5. Static!Executing(j) /\ ~Static!Executing(j)'
  <2>1. \A k \in LRT : pc[k] = "exec" /\ Static!CurrentJob(k) = j => k = l
    BY <1>2, CurrentJobIsNext, ScheduleFacts
  <2> QED BY <1>2, <1>3, <1>4, <2>1, StaticNames DEF Static!Executing
<1>6. \A i \in Jobs : i # j => (Static!Executing(i)' <=> Static!Executing(i))
  BY <1>2, <1>4, StaticNames DEF Static!Executing
<1>7. Static!started' = Static!started /\ ran[j] < Static!started[j]
  <2>1. Static!started'[j] = ran[j] + 1 /\ Static!started[j] = ran[j] + 1
    BY <1>1, <1>3, <1>5, StaticNames DEF Static!started
  <2>2. \A i \in Jobs : Static!started'[i] = Static!started[i]
    BY <1>1, <1>3, <1>6, <2>1, StaticNames DEF Static!started
  <2>3. Static!started' = Static!started
    BY <2>2, StaticNames DEF Static!started
  <2>4. ran[j] \in Nat
    BY <1>1
  <2> QED BY <2>1, <2>3, <2>4
<1>8. Dataflow!End(j)
  BY <1>3, <1>7 DEF Dataflow!End
<1> QED BY <1>8

LEMMA RunRefines ==
  ASSUME TInv, PInv, OInv, NEW l \in LRT, Run(l) \/ Post(l)
  PROVE  [Dataflow!Next]_(Dataflow!vars)
<1>1. CASE Static!HandleNotification(l) \/ HandleDelayBroadcast(l)
  <2>1. PICK s : Static!Pop(l, s)
    BY <1>1 DEF Static!HandleNotification, Static!HandleJobAdd, Static!HandleUpdateJobStamp,
       Static!HandleEndIteration, Static!HandleStop, HandleDelayBroadcast
  <2>2. pc' = [pc EXCEPT ![l] = "drain"] /\ pc[l] # "exec" /\ UNCHANGED <<ran, iteration>>
    BY <2>1, PopMoves
  <2>3. \A k \in LRT : k # l => jobQueue'[k] = jobQueue[k] /\ jobQueueIndex'[k] = jobQueueIndex[k]
    BY <1>1 DEF Static!HandleNotification, Static!HandleJobAdd, Static!HandleUpdateJobStamp,
       Static!HandleEndIteration, Static!HandleStop, HandleDelayBroadcast,
       Static!lrtVars, lrtVars, TInv, LrtTypes
  <2> QED BY <2>2, <2>3, MoveStutters
<1>2. CASE Static!ExitRun(l)
  BY <1>2, MoveStutters DEF Static!ExitRun, Static!Drained, Static!At, Static!lrtVars, Static!grtVars
<1>3. CASE PassWithoutJob(l) \/ PassWithJob(l)
  <2>1. pc[l] # "exec" /\ \E resume \in {"wait", "drain"} : EndPass(l, resume)
    BY <1>3 DEF PassWithoutJob, PassWithJob, Static!Drained, At, Static!At
  <2> QED BY <2>1, PassStutters
<1>4. CASE Static!StartJob(l)
  BY <1>4, StartJobStarts DEF Dataflow!Next
<1>5. CASE Static!FinishJob(l)
  BY <1>5, FinishJobEnds DEF Dataflow!Next
<1>6. CASE NotifyLRTJobStamp(l)
  BY <1>6, SilentStutters DEF NotifyLRTJobStamp, lrtVars, grtVars
<1>7. CASE SendParam(l)
  <2>1. /\ pc[l] # "exec" /\ pc' = [pc EXCEPT ![l] = "endpass"]
        /\ UNCHANGED <<ran, iteration, jobQueue, jobQueueIndex>>
    BY <1>7 DEF SendParam, At, Static!At, lrtVars, grtVars
  <2> QED BY <2>1, MoveStutters
<1>8. CASE Broadcasted(l)
  <2>1. /\ pc[l] # "exec" /\ \E p \in {"wait", "resolve", "recv"} : pc' = [pc EXCEPT ![l] = p]
        /\ UNCHANGED <<ran, iteration, jobQueue, jobQueueIndex>>
    BY <1>8 DEF Broadcasted, NoMoreJobs, At, Static!At, lrtVars, grtVars
  <2> QED BY <2>1, MoveStutters
<1>9. CASE Post(l)
  BY <1>9, SilentStutters DEF Post, Static!Post, Static!lrtVars, Static!grtVars
<1> QED BY <1>1, <1>2, <1>3, <1>4, <1>5, <1>6, <1>7, <1>8, <1>9 DEF Run

LEMMA GrtRefines ==
  ASSUME TInv, OInv, Iterate \/ GrtIterates \/ Stop
  PROVE  [Dataflow!Next]_(Dataflow!vars)
<1>1. grt \in LRT
  BY ConstantTypes
<1>2. CASE Iterate
  <2>1. /\ pc[grt] = "idle" /\ pc' = [pc EXCEPT ![grt] = "plan"] /\ iteration' = iteration + 1
        /\ UNCHANGED <<ran, jobQueue, jobQueueIndex>>
    BY <1>2 DEF Iterate, At, Static!At, lrtVars
  <2>2. \A j \in Jobs : ran[j] = iteration
    BY <2>1, ConstantTypes DEF OInv, GrtPhases, Outside, Rested, JobsOf, HasRun
  <2>3. Static!started' = Static!started
    <3>1. pc'[grt] = "plan" /\ \A k \in LRT : k # grt => pc'[k] = pc[k]
      BY <1>1, <2>1 DEF TInv, LrtTypes
    <3> QED BY <2>1, <3>1, StartedKept
  <2>4. Dataflow!Begin
    BY <2>1, <2>2, <2>3 DEF Dataflow!Begin
  <2> QED BY <2>4 DEF Dataflow!Next
<1>3. CASE SendJob \/ ResolveParams \/ Static!SendEndNotification \/ Static!ReceiveFinished
             \/ Static!PushBackTrace \/ Static!SendStop
  <2>1. UNCHANGED <<ran, iteration, pc, jobQueue, jobQueueIndex>>
    BY <1>3 DEF SendJob, Static!SendJob, ResolveParams, Static!SendEndNotification,
       Static!ReceiveFinished, Static!PushBackTrace, Static!SendStop,
       Static!lrtVars, Static!grtVars, lrtVars, grtVars
  <2> QED BY <2>1, SilentStutters
<1>4. CASE Plan \/ RunConfigJobs \/ Resolved \/ Static!RunUntilNoMoreJobs
             \/ Static!IterateReturns \/ Static!Destroy \/ Static!Barrier
  <2>1. /\ \E p \in InGrt \cup {"drain"} : pc' = [pc EXCEPT ![grt] = p]
        /\ pc[grt] # "exec" /\ UNCHANGED <<ran, iteration, jobQueue, jobQueueIndex>>
    BY <1>4 DEF Plan, RunConfigJobs, Resolved, Static!RunUntilNoMoreJobs, Static!IterateReturns,
       Static!Destroy, Static!Barrier, At, Static!At, Static!lrtVars, Static!grtVars, lrtVars,
       grtVars, InGrt
  <2> QED BY <1>1, <2>1, MoveStutters DEF InGrt
<1>5. CASE Announce
  <2>1. /\ pc' = pc \/ pc' = [pc EXCEPT ![grt] = "send"]
        /\ pc[grt] # "exec" /\ UNCHANGED <<ran, iteration, jobQueue, jobQueueIndex>>
    BY <1>5 DEF Announce, At, Static!At, lrtVars
  <2> QED BY <1>1, <2>1, MoveStutters, SilentStutters
<1> QED BY <1>2, <1>3, <1>4, <1>5
        DEF GrtIterates, FinishSchedule, EndIteration, Stop, Static!GrtStops

LEMMA StepRefines ==
  ASSUME TInv, PInv, OInv, [Next]_vars
  PROVE  [Dataflow!Next]_(Dataflow!vars)
<1>1. CASE Terminated \/ UNCHANGED vars
  BY <1>1, SilentStutters DEF Terminated, vars, lrtVars, grtVars
<1> QED BY <1>1, RunRefines, GrtRefines DEF Next

LEMMA InitRefines == ASSUME Init PROVE Dataflow!Init
<1>1. pc \in [LRT -> {"idle", "drain"}] /\ ran = [j \in Jobs |-> 0] /\ iteration = 0
  BY StaticNames DEF Init, Static!Init
<1>2. \A j : ~Static!Executing(j)
  BY <1>1, JobStarts
<1>3. Static!started = [j \in Jobs |-> 0]
  BY <1>1, <1>2, JobStarts
<1> QED BY <1>1, <1>3 DEF Dataflow!Init

-----------------------------------------------------------------------------
(* The first iteration needs no hypothesis: before it there are no stamps. *)

NoStamps ==
  \A l \in LRT :
    /\ \A i \in LRT : jobStamps[l][i] = -1
    /\ \A k \in DOMAIN notifQueue[l] : notifQueue[l][k].subType # "JOB_UPDATE_JOBSTAMP"
Fresh == iteration = 0 => pc[grt] \in Outside /\ NoStamps

LEMMA NoStampsKept ==
  ASSUME NoStamps,
         \A l \in LRT : \A i \in LRT : jobStamps'[l][i] \in {jobStamps[l][i], -1},
         \A l \in LRT : SameMessages(notifQueue[l], notifQueue'[l], "JOB_UPDATE_JOBSTAMP")
  PROVE  NoStamps'
<1> SUFFICES ASSUME NEW l \in LRT
             PROVE  /\ \A i \in LRT : jobStamps'[l][i] = -1
                    /\ \A k \in DOMAIN notifQueue'[l] :
                         notifQueue'[l][k].subType # "JOB_UPDATE_JOBSTAMP"
  BY DEF NoStamps
<1>1. \A i \in LRT : jobStamps'[l][i] = -1
  BY DEF NoStamps
<1>2. PICK d \in {0, 1} : Shifted(notifQueue[l], notifQueue'[l], "JOB_UPDATE_JOBSTAMP", d)
  BY DEF SameMessages
<1> QED BY <1>1, <1>2 DEF Shifted, NoStamps

LEMMA IdleMeansNoJob ==
  ASSUME OInv, pc[grt] \in Outside, NEW l \in LRT
  PROVE  pc[l] \notin InJob
<1>1. Blank(l)
  BY DEF OInv, GrtPhases, Rested
<1> QED BY <1>1 DEF OInv, JobQueueInOrder, Blank

LEMMA RunLeavesNone ==
  ASSUME TInv, OInv, NoStamps, pc[grt] \in Outside, NEW l \in LRT, Run(l) \/ Post(l)
  PROVE  NoStamps'
<1>1. pc[l] \notin InJob
  BY IdleMeansNoJob
<1>2. l \in Queues /\ nLrt \in Queues /\ LRT \subseteq Queues
  BY ConstantTypes
<1>3. CASE Static!HandleNotification(l) \/ HandleDelayBroadcast(l)
  <2>1. PICK s : Static!Pop(l, s) /\ (s # "JOB_UPDATE_JOBSTAMP" => jobStamps' = jobStamps)
    BY <1>3 DEF Static!HandleNotification, Static!HandleJobAdd, Static!HandleUpdateJobStamp,
       Static!HandleEndIteration, Static!HandleStop, HandleDelayBroadcast,
       Static!lrtVars, lrtVars
  <2>2. /\ notifQueue[l] \in Seq(Messages) /\ notifQueue[l] # <<>>
        /\ Head(notifQueue[l]).subType = s
        /\ \A r \in Queues : \A t : r # l \/ t # s => SameMessages(notifQueue[r], notifQueue'[r], t)
    BY <2>1, PopMoves
  <2>3. s # "JOB_UPDATE_JOBSTAMP"
    BY <2>2, TailElements DEF NoStamps
  <2> QED BY <1>2, <2>1, <2>2, <2>3, NoStampsKept
<1>4. CASE PassWithoutJob(l)
  <2>1. PICK m : m = Static!Message("LRT_FINISHED_ITERATION", l, -1)
    OBVIOUS
  <2>2. /\ UNCHANGED queueVars \/ Static!Push(l, nLrt, m)
        /\ UNCHANGED lrtVars \/ Static!ResetLrt(l)
    BY <1>4, <2>1, EndPassDoes DEF PassWithoutJob
  <2>3. m \in Messages /\ m.subType = "LRT_FINISHED_ITERATION"
    BY <2>1, MessageTypes, ConstantTypes DEF Static!Message
  <2>4. \A k, i \in LRT : jobStamps'[k][i] \in {jobStamps[k][i], -1}
    <3>1. CASE UNCHANGED lrtVars
      BY <3>1 DEF lrtVars
    <3>2. CASE jobStamps' = [jobStamps EXCEPT ![l] = [i \in LRT |-> -1]]
      <4>1. DOMAIN jobStamps = LRT
        BY DEF TInv, LrtTypes
      <4>2. /\ jobStamps'[l] = [i \in LRT |-> -1]
            /\ \A k \in LRT : k # l => jobStamps'[k] = jobStamps[k]
        BY <3>2, <4>1
      <4> QED BY <4>2
    <3> QED BY <2>2, <3>1, <3>2, StaticNames DEF Static!ResetLrt
  <2>5. \A k \in LRT : SameMessages(notifQueue[k], notifQueue'[k], "JOB_UPDATE_JOBSTAMP")
    BY <1>2, <2>2, <2>3, PushMoves, SilentMoves DEF queueVars
  <2> QED BY <2>4, <2>5, NoStampsKept
<1>5. CASE Static!ExitRun(l) \/ Static!StartJob(l) \/ Post(l)
  <2>1. UNCHANGED <<notifQueue, jobStamps>>
    BY <1>5 DEF Static!ExitRun, Static!StartJob, Post, Static!Post, Static!lrtVars, Static!queueVars
  <2> QED BY <2>1 DEF NoStamps
<1>6. ~(PassWithJob(l) \/ NotifyLRTJobStamp(l) \/ SendParam(l) \/ Broadcasted(l) \/ Static!FinishJob(l))
  BY <1>1 DEF PassWithJob, NotifyLRTJobStamp, SendParam, Broadcasted, Static!FinishJob, At,
     Static!At, InJob
<1> QED BY <1>3, <1>4, <1>5, <1>6 DEF Run

LEMMA StopLeavesNone ==
  ASSUME TInv, NoStamps, pc[grt] \in Outside, Stop
  PROVE  NoStamps' /\ pc'[grt] \in Outside
<1>1. CASE Static!SendStop
  <2>1. PICK m, q : m = Static!Message("LRT_STOP", grt, -1) /\ q = sentTo
    OBVIOUS
  <2>2. /\ pc' = pc /\ jobStamps' = jobStamps
        /\ q < nLrt /\ (Static!Push(grt, q, m) \/ notifQueue' = notifQueue)
    BY <1>1, <2>1 DEF Static!SendStop, Static!lrtVars, Static!queueVars
  <2>3. q \in Queues /\ LRT \subseteq Queues /\ grt \in LRT /\ -1 \in Stamp
    BY <2>1, <2>2, ConstantTypes DEF TInv, GrtTypes, Queues
  <2>4. m \in Messages /\ m.subType = "LRT_STOP"
    BY <2>1, <2>3, MessageTypes DEF Static!Message
  <2>5. \A k \in LRT : SameMessages(notifQueue[k], notifQueue'[k], "JOB_UPDATE_JOBSTAMP")
    BY <2>2, <2>3, <2>4, PushMoves, SilentMoves
  <2> QED BY <2>2, <2>5, NoStampsKept
<1>2. CASE Static!Destroy \/ Static!Barrier
  <2>1. /\ UNCHANGED <<notifQueue, jobStamps>>
        /\ pc' = [pc EXCEPT ![grt] = "stop"] \/ pc' = [pc EXCEPT ![grt] = "done"]
    BY <1>2 DEF Static!Destroy, Static!Barrier, Static!lrtVars, Static!queueVars
  <2>2. pc'[grt] \in {"stop", "done"}
    BY <2>1, ConstantTypes DEF TInv, LrtTypes
  <2> QED BY <2>1, <2>2 DEF NoStamps, Outside
<1> QED BY <1>1, <1>2 DEF Stop, Static!GrtStops

LEMMA StepFresh ==
  ASSUME TInv, OInv, Fresh, [Next]_vars
  PROVE  Fresh'
<1> SUFFICES ASSUME iteration' = 0 PROVE pc'[grt] \in Outside /\ NoStamps'
  BY DEF Fresh
<1>1. iteration \in Nat /\ grt \in LRT /\ pc \in [LRT -> InRun \cup InGrt]
  BY ConstantTypes DEF TInv, GrtTypes, LrtTypes
<1>2. ASSUME NEW l \in LRT, Run(l) \/ Post(l) PROVE pc'[grt] \in Outside /\ NoStamps'
  <2>1. /\ iteration' = iteration
        /\ \/ pc' = pc
           \/ pc[l] \in InRun /\ \E p : pc' = [pc EXCEPT ![l] = p]
    BY <1>2, RunMoves
  <2>2. pc[grt] \in Outside /\ NoStamps
    BY <2>1 DEF Fresh
  <2>3. pc[grt] \notin InRun
    BY <2>2 DEF Outside, InRun
  <2>4. pc'[grt] = pc[grt]
    BY <1>1, <2>1, <2>3
  <2> QED BY <1>2, <2>2, <2>4, RunLeavesNone
<1>3. CASE Iterate
  BY <1>1, <1>3 DEF Iterate
<1>4. CASE GrtIterates
  <2>1. iteration' = iteration /\ pc[grt] \notin Outside
    BY <1>4 DEF GrtIterates, Plan, Announce, SendJob, Static!SendJob, RunConfigJobs, FinishSchedule,
       Static!SendEndNotification, Static!RunUntilNoMoreJobs, ResolveParams, Resolved, EndIteration,
       Static!ReceiveFinished, Static!PushBackTrace, Static!IterateReturns, At, Static!At, grtVars,
       Static!grtVars, Outside
  <2> QED BY <2>1 DEF Fresh
<1>5. CASE Stop
  <2>1. iteration' = iteration
    BY <1>5 DEF Stop, Static!GrtStops, Static!SendStop, Static!Barrier, Static!Destroy, Static!grtVars
  <2> QED BY <1>5, <2>1, StopLeavesNone DEF Fresh
<1>6. CASE Terminated \/ UNCHANGED vars
  BY <1>6 DEF Terminated, vars, queueVars, lrtVars, grtVars, Fresh, NoStamps
<1> QED BY <1>2, <1>3, <1>4, <1>5, <1>6 DEF Next

LEMMA InitFresh == ASSUME Init PROVE Fresh
<1>1. /\ \A q \in Queues : notifQueue[q] = <<>>
      /\ \A l, i \in LRT : jobStamps[l][i] = -1
      /\ pc[grt] = "idle"
  BY StaticNames, ConstantTypes DEF Init, Static!Init, Queues
<1>2. DOMAIN <<>> = {}
  OBVIOUS
<1>3. \A l \in LRT : DOMAIN notifQueue[l] = {}
  BY <1>1, <1>2, ConstantTypes
<1> QED BY <1>1, <1>3 DEF Fresh, NoStamps, Outside

-----------------------------------------------------------------------------
(* The theorems: what holds for every schedule in rounds, every            *)
(* interleaving and every choice of LazyPosters, until the GRT misses work *)
(* or an iteration after the first begins with a stamp left over.          *)

LeftOver == missed \/ (stale /\ iteration > 1)
IInv == TInv /\ PInv /\ (LeftOver \/ (OInv /\ Fresh))

LEMMA IterationGrows ==
  ASSUME TInv, [Next]_vars
  PROVE  /\ iteration \in Nat
         /\ iteration' = iteration \/ (Iterate /\ iteration' = iteration + 1)
<1> SUFFICES iteration' = iteration \/ (Iterate /\ iteration' = iteration + 1)
  BY DEF TInv, GrtTypes
<1>1. ASSUME NEW l \in LRT, Run(l) \/ Post(l) PROVE iteration' = iteration
  BY <1>1, RunMoves
<1>2. CASE Iterate
  BY <1>2 DEF Iterate
<1>3. CASE GrtIterates \/ Stop \/ Terminated \/ UNCHANGED vars
  BY <1>3 DEF GrtIterates, Plan, Announce, SendJob, Static!SendJob, RunConfigJobs, FinishSchedule,
     Static!SendEndNotification, Static!RunUntilNoMoreJobs, ResolveParams, Resolved, EndIteration,
     Static!ReceiveFinished, Static!PushBackTrace, Static!IterateReturns, Stop, Static!Destroy,
     Static!GrtStops, Static!SendStop, Static!Barrier, Terminated, vars, grtVars, Static!grtVars
<1> QED BY <1>1, <1>2, <1>3 DEF Next

(* A step of HistorySpec is one of Next; if nothing is missed or left over *)
(* after it, nothing was before, and it does neither.                      *)
LEMMA HistorySteps ==
  ASSUME TInv, [HistoryNext]_historyVars
  PROVE  /\ [Next]_vars
         /\ ~LeftOver' => /\ ~LeftOver /\ ~GrtMisses
                          /\ Iterate => iteration = 0 \/ ~StampIsLeft
<1>1. CASE UNCHANGED historyVars
  <2>1. vars' = vars /\ missed' = missed /\ stale' = stale
    BY <1>1 DEF historyVars
  <2>2. pc' = pc /\ iteration' = iteration /\ iteration \in Nat
    BY <2>1 DEF vars, grtVars, TInv, GrtTypes
  <2> QED BY <2>1, <2>2 DEF GrtMisses, GrtEndsRounds, LeftOver, Iterate
<1>2. CASE HistoryNext
  <2>1. /\ [Next]_vars
        /\ missed' = (missed \/ GrtMisses)
        /\ stale' = (stale \/ (IterationBegins /\ StampIsLeft))
    BY <1>2 DEF HistoryNext
  <2>2. /\ iteration \in Nat
        /\ iteration' = iteration \/ (Iterate /\ iteration' = iteration + 1)
    BY <2>1, IterationGrows
  <2>3. iteration > 1 => iteration' > 1
    BY <2>2
  <2>4. ASSUME ~LeftOver', Iterate, StampIsLeft PROVE iteration = 0
    <3>1. iteration' = iteration + 1
      BY <2>4 DEF Iterate
    <3>2. stale'
      <4>1. IterationBegins
        BY <2>2, <3>1 DEF IterationBegins
      <4>2. (stale \/ (IterationBegins /\ StampIsLeft)) = TRUE
        BY <2>4, <4>1
      <4>3. stale' = TRUE
        BY <2>1, <4>2, Zenon
      <4> QED BY <4>3
    <3>3. ~(iteration' > 1)
      BY <2>4, <3>2 DEF LeftOver
    <3> QED BY <2>2, <3>1, <3>3
  <2> QED BY <2>1, <2>3, <2>4 DEF LeftOver
<1> QED BY <1>1, <1>2

LEMMA InitHolds == ASSUME HistoryInit PROVE IInv
  BY InitTypes, InitPlaces, InitInOrder, InitFresh DEF HistoryInit, IInv

LEMMA StepHolds ==
  ASSUME IInv, [HistoryNext]_historyVars
  PROVE  IInv'
<1>1. TInv /\ PInv /\ [Next]_vars
  BY HistorySteps DEF IInv
<1>2. TInv' /\ PInv'
  BY <1>1, StepTypes, StepPlaces DEF PInv
<1>3. ASSUME ~LeftOver' PROVE OInv' /\ Fresh'
  <2>1. ~LeftOver /\ ~GrtMisses /\ (Iterate => iteration = 0 \/ ~StampIsLeft)
    BY <1>1, <1>3, HistorySteps
  <2>2. OInv /\ Fresh
    BY <2>1 DEF IInv
  <2>3. iteration = 0 => ~StampIsLeft
    BY <2>2 DEF Fresh, NoStamps, StampIsLeft
  <2> QED BY <1>1, <1>2, <2>1, <2>2, <2>3, StepInOrder, StepFresh
<1> QED BY <1>2, <1>3 DEF IInv

(* The invariant of the order of the jobs holds until work is missed or a  *)
(* stamp is left over to an iteration after the first.                     *)
THEOREM OrderIsKept == HistorySpec => []IInv
<1>1. HistoryInit => IInv
  BY InitHolds
<1>2. IInv /\ [HistoryNext]_historyVars => IInv'
  BY StepHolds
<1> QED BY <1>1, <1>2, PTL DEF HistorySpec

(* Until then no LRT holds, or is sent, a stamp that is not yet true.      *)
THEOREM StampsHold == HistorySpec => []StampsTrueUntilLeftover
<1>1. IInv => StampsTrueUntilLeftover
  <2> SUFFICES ASSUME OInv PROVE Static!StampsAreTrue
    BY DEF IInv, LeftOver, StampsTrueUntilLeftover
  <2>1. ASSUME NEW i, NEW stamp, StampIsTrue(i, stamp) PROVE Static!StampIsTrue(i, stamp)
    BY <2>1, StaticNames DEF StampIsTrue, Static!StampIsTrue, JobsOf, HasRun
  <2>2. ASSUME NEW l \in LRT, NEW i \in LRT PROVE Static!StampIsTrue(i, jobStamps[l][i])
    BY <2>1 DEF OInv, HeldAreTrue
  <2>3. ASSUME NEW l \in LRT, NEW k \in DOMAIN notifQueue[l],
               notifQueue[l][k].subType = "JOB_UPDATE_JOBSTAMP"
        PROVE  Static!StampIsTrue(notifQueue[l][k].lrtID, notifQueue[l][k].index)
    <3>1. Sound(notifQueue[l][k], l)
      BY ConstantTypes DEF OInv, MessagesAreSound
    <3> QED BY <2>1, <2>3, <3>1 DEF Sound
  <2> QED BY <2>2, <2>3, StaticNames DEF Static!StampsAreTrue
<1> QED BY <1>1, OrderIsKept, PTL

(* Until then every step of the rounds is one of the dataflow graph: a job *)
(* starts after the jobs it reads from and after the configuration jobs of *)
(* the rounds before, and runs once in each iteration.                     *)
THEOREM JitImplementsDataflow == HistorySpec => DataflowUntilLeftover
<1> DEFINE Refines == \/ missed' \/ (stale' /\ iteration' > 1)
                      \/ [Dataflow!Next]_(Dataflow!vars)
<1>1. HistoryInit => Dataflow!Init
  BY InitRefines DEF HistoryInit
<1>2. IInv /\ [HistoryNext]_historyVars => [Refines]_historyVars
  <2> SUFFICES ASSUME IInv, [HistoryNext]_historyVars, ~LeftOver'
               PROVE  [Dataflow!Next]_(Dataflow!vars)
    BY DEF LeftOver
  <2>1. [Next]_vars /\ ~LeftOver
    BY HistorySteps DEF IInv
  <2> QED BY <2>1, StepRefines DEF IInv
<1>3. HistorySpec => [][Refines]_historyVars
  BY <1>2, OrderIsKept, PTL DEF HistorySpec
<1>4. [][Refines]_historyVars /\ Dataflow!Init => DataflowUntilLeftover
  BY DEF DataflowUntilLeftover
<1> QED BY <1>1, <1>3, <1>4, PTL DEF HistorySpec

-----------------------------------------------------------------------------
(* When the GRT misses work.                                               *)

AfterDrain == {"exec", "notify", "endpass"}
Work == {"JOB_ADD", "LRT_END_ITERATION"}

(* The GRT has read its queue to the end if no post to it was late.        *)
SeesItsWork == ~hidden /\ pc[grt] \in AfterDrain => ~UnreadWork(grt)

LEMMA EmptyWhenPosted ==
  ASSUME TInv, Static!Drained(grt), ~PostIsLate
  PROVE  ~UnreadWork(grt)
<1>1. /\ grt \in LRT /\ grt \in Queues /\ -1 # grt /\ unposted[grt] = -1 /\ credits[grt] = 0
      /\ notifQueue[grt] \in Seq(Messages)
  BY QueueDomains, ConstantTypes DEF Static!Drained, Static!At
<1>2. Owing(grt) = {}
  BY <1>1 DEF Owing, PostIsLate, Others
<1>3. Len(notifQueue[grt]) = 0
  <2>1. Len(notifQueue[grt]) = credits[grt] + Cardinality(Owing(grt))
    BY <1>1 DEF TInv, CreditsMatch
  <2> QED BY <1>1, <1>2, <2>1, FS_EmptySet
<1>4. DOMAIN notifQueue[grt] = {}
  BY <1>1, <1>3, LenProperties
<1> QED BY <1>4 DEF UnreadWork

(* Where the GRT is before it executes a job or ends the last round.       *)
LEMMA GrtPasses ==
  ASSUME TInv, [Next]_vars
  PROVE  /\ pc'[grt] \in AfterDrain => pc[grt] \in AfterDrain \/ Static!Drained(grt)
         /\ GrtEndsRounds => pc[grt] \in AfterDrain \/ Static!Drained(grt)
<1>1. pc \in [LRT -> InRun \cup InGrt] /\ grt \in LRT
  BY ConstantTypes DEF TInv, LrtTypes
<1>2. ASSUME NEW l \in LRT, Run(l) \/ Post(l)
      PROVE  \/ pc' = pc
             \/ \E p \in {"drain", "ended"} : pc' = [pc EXCEPT ![l] = p]
             \/ /\ pc[l] \in AfterDrain \/ Static!Drained(l)
                /\ \E p : pc' = [pc EXCEPT ![l] = p]
             \/ /\ pc[l] = "broadcast"
                /\ \E p \in {"wait", "resolve", "recv"} : pc' = [pc EXCEPT ![l] = p]
  <2>1. CASE HandleDelayBroadcast(l) \/ Static!HandleNotification(l) \/ Static!ExitRun(l)
    BY <2>1 DEF HandleDelayBroadcast, Static!HandleNotification, Static!HandleJobAdd,
       Static!HandleUpdateJobStamp, Static!HandleEndIteration, Static!HandleStop, Static!Pop,
       Static!ExitRun
  <2>2. CASE PassWithoutJob(l)
    <3>1. Static!Drained(l) /\ \E p : pc' = [pc EXCEPT ![l] = p]
      BY <2>2, EndPassDoes DEF PassWithoutJob
    <3> QED BY <3>1
  <2>3. CASE PassWithJob(l)
    <3>1. pc[l] \in {"notify", "endpass"} /\ \E p : pc' = [pc EXCEPT ![l] = p]
      BY <2>3, EndPassDoes DEF PassWithJob, At, Static!At
    <3> QED BY <3>1 DEF AfterDrain
  <2>4. CASE Static!StartJob(l) \/ Static!FinishJob(l) \/ SendParam(l)
    <3>1. PICK p : p \in AfterDrain /\ pc' = [pc EXCEPT ![l] = p]
      BY <2>4 DEF Static!StartJob, Static!FinishJob, SendParam, AfterDrain
    <3>2. pc[l] \in AfterDrain \/ Static!Drained(l)
      BY <2>4 DEF Static!StartJob, Static!FinishJob, SendParam, AfterDrain, At, Static!At
    <3> QED BY <3>1, <3>2
  <2>5. CASE Broadcasted(l)
    <3>1. pc[l] = "broadcast" /\ \E p \in {"wait", "resolve", "recv"} : pc' = [pc EXCEPT ![l] = p]
      BY <2>5 DEF Broadcasted, NoMoreJobs, At, Static!At
    <3> QED BY <3>1
  <2>6. CASE NotifyLRTJobStamp(l) \/ Post(l)
    BY <2>6 DEF NotifyLRTJobStamp, Post, Static!Post
  <2> QED BY <1>2, <2>1, <2>2, <2>3, <2>4, <2>5, <2>6 DEF Run
<1>3. ASSUME pc'[grt] = pc[grt] \/ pc'[grt] \in (InGrt \ {"recv"}) \cup {"wait", "drain", "ended"}
      PROVE  /\ pc'[grt] \in AfterDrain => pc[grt] \in AfterDrain \/ Static!Drained(grt)
             /\ GrtEndsRounds => pc[grt] \in AfterDrain \/ Static!Drained(grt)
  BY <1>3 DEF GrtEndsRounds, AfterDrain, InGrt
<1>4. ASSUME NEW l \in LRT, Run(l) \/ Post(l)
      PROVE  /\ pc'[grt] \in AfterDrain => pc[grt] \in AfterDrain \/ Static!Drained(grt)
             /\ GrtEndsRounds => pc[grt] \in AfterDrain \/ Static!Drained(grt)
  <2>1. pc[l] = "broadcast" => pc[l] # "recv"
    OBVIOUS
  <2>2. CASE l # grt
    <3>1. pc'[grt] = pc[grt]
      BY <1>1, <1>2, <1>4, <2>2
    <3> QED BY <1>3, <3>1
  <2>3. CASE l = grt /\ pc[grt] = "broadcast"
    <3>1. ~GrtEndsRounds
      BY <2>3 DEF GrtEndsRounds
    <3>2. pc'[grt] \notin AfterDrain
      <4>1. ~Static!Drained(grt)
        BY <2>3 DEF Static!Drained, Static!At
      <4>2. \E p \in {"drain", "ended", "broadcast", "wait", "resolve", "recv"} : pc'[grt] = p
        BY <1>1, <1>2, <1>4, <2>3, <4>1 DEF AfterDrain
      <4> QED BY <4>2 DEF AfterDrain
    <3> QED BY <3>1, <3>2
  <2>4. CASE l = grt /\ pc[grt] # "broadcast" /\ ~(pc[grt] \in AfterDrain \/ Static!Drained(grt))
    <3>1. pc'[grt] = pc[grt] \/ pc'[grt] \in {"drain", "ended"}
      BY <1>1, <1>2, <1>4, <2>4
    <3> QED BY <1>3, <3>1
  <2> QED BY <2>2, <2>3, <2>4
<1>5. CASE Iterate \/ GrtIterates \/ Stop \/ Terminated \/ UNCHANGED vars
  <2>1. pc' = pc \/ \E p \in {"plan", "announce", "send", "drain", "idle", "stop", "done"} :
                      pc' = [pc EXCEPT ![grt] = p]
    BY <1>5 DEF Iterate, GrtIterates, Plan, Announce, SendJob, Static!SendJob, RunConfigJobs,
     FinishSchedule, Static!SendEndNotification, Static!RunUntilNoMoreJobs, ResolveParams, Resolved,
     EndIteration, Static!ReceiveFinished, Static!PushBackTrace, Static!IterateReturns, Stop,
     Static!Destroy, Static!GrtStops, Static!SendStop, Static!Barrier, Terminated, vars
  <2>2. pc'[grt] = pc[grt] \/ pc'[grt] \in (InGrt \ {"recv"}) \cup {"drain"}
    BY <1>1, <2>1 DEF InGrt
  <2> QED BY <1>3, <2>2
<1> QED BY <1>4, <1>5 DEF Next

(* Only the GRT pushes work to its queue, and not while it is in run.      *)
LEMMA WorkIsSent ==
  ASSUME TInv, [Next]_vars, pc[grt] \in InRun, ~UnreadWork(grt)
  PROVE  ~UnreadWork(grt)'
<1>1. /\ grt \in LRT /\ grt \in Queues /\ nLrt # grt /\ nLrt \in Queues /\ LRT \subseteq Queues
      /\ -1 \in Stamp
  BY ConstantTypes DEF Stamp
<1>2. \A k \in DOMAIN notifQueue[grt] : notifQueue[grt][k].subType \notin Work
  BY DEF UnreadWork, Work
<1>3. ASSUME \A s \in Work : SameMessages(notifQueue[grt], notifQueue'[grt], s)
      PROVE  ~UnreadWork(grt)'
  <2> SUFFICES ASSUME NEW k \in DOMAIN notifQueue'[grt], notifQueue'[grt][k].subType \in Work
               PROVE  FALSE
    BY DEF UnreadWork, Work
  <2>1. PICK s \in Work : s = notifQueue'[grt][k].subType
    OBVIOUS
  <2>2. PICK d \in {0, 1} : Shifted(notifQueue[grt], notifQueue'[grt], s, d)
    BY <1>3 DEF SameMessages
  <2> QED BY <1>2, <2>1, <2>2 DEF Shifted
<1>4. CASE notifQueue'[grt] = notifQueue[grt]
  BY <1>2, <1>4 DEF UnreadWork, Work
<1>5. ASSUME NEW l \in LRT, Run(l) \/ Post(l) PROVE ~UnreadWork(grt)'
  <2>1. CASE Static!HandleNotification(l) \/ HandleDelayBroadcast(l)
    <3>1. PICK s : Static!Pop(l, s)
      BY <2>1 DEF Static!HandleNotification, Static!HandleJobAdd, Static!HandleUpdateJobStamp,
         Static!HandleEndIteration, Static!HandleStop, HandleDelayBroadcast
    <3>2. /\ notifQueue[l] \in Seq(Messages) /\ notifQueue[l] # <<>>
          /\ Head(notifQueue[l]).subType = s
          /\ \A r \in Queues : \A t : r # l \/ t # s => SameMessages(notifQueue[r], notifQueue'[r], t)
      BY <3>1, PopMoves
    <3>3. l = grt => s \notin Work
      BY <1>2, <3>2, TailElements
    <3> QED BY <1>1, <1>3, <3>2, <3>3
  <2>2. CASE NotifyLRTJobStamp(l)
    <3>1. PICK i \in LRT, m \in Messages :
            m.subType = "JOB_UPDATE_JOBSTAMP" /\ Static!Push(l, i, m)
      <4>1. PICK i \in toNotify[l] : Static!Push(l, i, Static!Message("JOB_UPDATE_JOBSTAMP", l, jobIx[l]))
        BY <2>2 DEF NotifyLRTJobStamp
      <4>2. i \in LRT /\ jobIx[l] \in Stamp
        BY <4>1 DEF TInv, LrtTypes
      <4>3. Static!Message("JOB_UPDATE_JOBSTAMP", l, jobIx[l]) \in Messages
        BY <4>2, MessageTypes
      <4> QED BY <4>1, <4>2, <4>3 DEF Static!Message
    <3>2. \A r \in Queues : \A s : s # m.subType => SameMessages(notifQueue[r], notifQueue'[r], s)
      BY <1>1, <3>1, PushMoves
    <3> QED BY <1>1, <1>3, <3>1, <3>2 DEF Work
  <2>3. CASE \/ SendParam(l) \/ PassWithoutJob(l) \/ PassWithJob(l) \/ Broadcasted(l)
             \/ Static!ExitRun(l) \/ Static!StartJob(l) \/ Static!FinishJob(l) \/ Post(l)
    <3>1. \/ notifQueue' = notifQueue
          \/ \E m : notifQueue' = [notifQueue EXCEPT ![nLrt] = Append(@, m)]
      BY <2>3 DEF SendParam, PassWithoutJob, PassWithJob, EndPass, Broadcasted, Static!ExitRun,
         Static!StartJob, Static!FinishJob, Post, Static!Post, Static!Push, queueVars, Static!queueVars
    <3>2. notifQueue \in [Queues -> Seq(Messages)]
      BY DEF TInv, QueueTypes
    <3>3. notifQueue'[grt] = notifQueue[grt]
      BY <1>1, <3>1, <3>2
    <3> QED BY <1>4, <3>3
  <2> QED BY <1>5, <2>1, <2>2, <2>3 DEF Run
<1>6. CASE Iterate \/ GrtIterates \/ Stop
  BY <1>6 DEF Iterate, GrtIterates, Plan, Announce, SendJob, Static!SendJob, RunConfigJobs,
     FinishSchedule, Static!SendEndNotification, Static!RunUntilNoMoreJobs, ResolveParams, Resolved,
     EndIteration, Static!ReceiveFinished, Static!PushBackTrace, Static!IterateReturns, Stop,
     Static!Destroy, Static!GrtStops, Static!SendStop, Static!Barrier, At, Static!At, InRun
<1>7. CASE Terminated \/ UNCHANGED vars
  BY <1>4, <1>7 DEF Terminated, vars, queueVars
<1> QED BY <1>5, <1>6, <1>7 DEF Next

LEMMA SeesItsWorkKept ==
  ASSUME TInv, SeesItsWork, [HistoryNext]_historyVars
  PROVE  /\ SeesItsWork'
         /\ ~missed /\ missed' => hidden'
<1>1. CASE UNCHANGED historyVars
  <2>1. vars' = vars /\ hidden' = hidden /\ missed' = missed
    BY <1>1 DEF historyVars
  <2>2. pc' = pc /\ notifQueue' = notifQueue
    BY <2>1 DEF vars, queueVars
  <2> QED BY <2>1, <2>2 DEF SeesItsWork, UnreadWork
<1>2. CASE HistoryNext
  <2>0. [Next]_vars
    BY <1>2 DEF HistoryNext
  <2>1. ASSUME pc'[grt] # "drain", ~hidden', pc[grt] \in AfterDrain \/ Static!Drained(grt)
        PROVE  pc[grt] \in InRun /\ ~UnreadWork(grt)
    <3>1. CASE Static!Drained(grt)
      <4>1. GrtFindsNothing
        BY <2>1, <3>1 DEF GrtFindsNothing, Static!Drained, Static!At
      <4>2. ~PostIsLate
        BY <1>2, <2>1, <4>1 DEF HistoryNext
      <4> QED BY <3>1, <4>2, EmptyWhenPosted DEF Static!Drained, Static!At, InRun
    <3>2. CASE pc[grt] \in AfterDrain
      <4>1. ~hidden
        BY <1>2, <2>1, <3>2 DEF HistoryNext, GrtFindsNothing, AfterDrain
      <4> QED BY <3>2, <4>1 DEF SeesItsWork, InRun, AfterDrain
    <3> QED BY <2>1, <3>1, <3>2
  <2>2. SeesItsWork'
    <3> SUFFICES ASSUME ~hidden', pc'[grt] \in AfterDrain PROVE ~UnreadWork(grt)'
      BY DEF SeesItsWork, UnreadWork
    <3>1. pc[grt] \in AfterDrain \/ Static!Drained(grt)
      BY <2>0, GrtPasses
    <3>2. pc'[grt] # "drain"
      BY DEF AfterDrain
    <3> QED BY <2>0, <2>1, <3>1, <3>2, WorkIsSent
  <2>3. ASSUME ~missed, missed', ~hidden' PROVE FALSE
    <3>1. GrtEndsRounds /\ UnreadWork(grt) /\ pc'[grt] # "drain"
      BY <1>2, <2>3 DEF HistoryNext, GrtMisses, GrtEndsRounds
    <3>2. pc[grt] \in AfterDrain \/ Static!Drained(grt)
      BY <2>0, <3>1, GrtPasses
    <3> QED BY <2>1, <2>3, <3>1, <3>2
  <2> QED BY <2>2, <2>3
<1> QED BY <1>1, <1>2

(* The GRT misses work only when its last try-pop was made while another   *)
(* LRT was between the push to its queue and the post.                     *)
THEOREM MissedHolds == HistorySpec => MissedForALatePost
<1> DEFINE Late == ~missed /\ missed' => hidden'
<1>1. HistoryInit => IInv /\ SeesItsWork
  <2>1. HistoryInit => pc[grt] = "idle"
    BY StaticNames, ConstantTypes DEF HistoryInit, Init, Static!Init
  <2> QED BY <2>1, InitHolds DEF SeesItsWork, AfterDrain
<1>2. (IInv /\ SeesItsWork) /\ [HistoryNext]_historyVars => (IInv /\ SeesItsWork)'
  BY StepHolds, SeesItsWorkKept DEF IInv
<1>3. (IInv /\ SeesItsWork) /\ [HistoryNext]_historyVars => [Late]_historyVars
  BY SeesItsWorkKept DEF IInv
<1>4. HistorySpec => [][Late]_historyVars
  BY <1>1, <1>2, <1>3, PTL DEF HistorySpec
<1>5. [][Late]_historyVars <=> MissedForALatePost
  BY DEF MissedForALatePost
<1> QED BY <1>4, <1>5
=============================================================================

-------------------------- MODULE JitRuntime_proofs --------------------------
(***************************************************************************)
(* Proofs about JitRuntime, for any number of LRTs, any rounds, any        *)
(* schedule, and any set of lazy posters: types, that the parameters a     *)
(* round is planned with are those of all configuration jobs sent so far,  *)
(* and that no trace gets lost.                                            *)
(*                                                                         *)
(* resolveParams counts messages.  What makes the count right is that a    *)
(* configuration job is in one place at a time on its way from the GRT to  *)
(* its LRT and back (InOnePlace), whatever order the messages arrive in.   *)
(***************************************************************************)
EXTENDS JitRuntime, SequenceTheorems, FiniteSetTheorems, TLAPS

Stamp == Nat \cup {-1}
Queues == 0..nLrt
Owing(q) == {l \in LRT : unposted[l] = q}

(* Messages with their index: a job, a configuration job, or a stamp.      *)
JobKinds == {"JOB_ADD", "TRACE_LRT"}
Messages ==
  [subType : JobKinds, lrtID : LRT, index : Jobs]
    \cup [subType : {"JOB_SENT_PARAM"}, lrtID : LRT, index : Config]
    \cup [subType : SubTypes \ (JobKinds \cup {"JOB_SENT_PARAM"}), lrtID : LRT, index : Stamp]

QueueTypes ==
  /\ notifQueue \in [Queues -> Seq(Messages)]
  /\ credits \in [Queues -> Nat]
  /\ unposted \in [LRT -> Queues \cup {-1}]
CreditsMatch ==
  \A q \in Queues : Len(notifQueue[q]) = credits[q] + Cardinality(Owing(q))

InRun == {"wait", "drain", "exec", "notify", "endpass", "broadcast", "ended"}
InGrt == {"idle", "plan", "announce", "send", "resolve", "recv", "stop", "done"}

LrtTypes ==
  /\ pc \in [LRT -> InRun \cup InGrt]
  /\ run \in [LRT -> BOOLEAN] /\ shouldBroadcast \in [LRT -> BOOLEAN]
  /\ jobQueue \in [LRT -> Seq(Jobs)] /\ jobQueueIndex \in [LRT -> Nat]
  /\ jobIx \in [LRT -> Stamp] /\ lastJobID \in [LRT -> Stamp]
  /\ jobStamps \in [LRT -> [LRT -> Stamp]]
  /\ toNotify \in [LRT -> SUBSET LRT] /\ ran \in [Jobs -> Nat]
GrtTypes ==
  /\ nSentJobs \in 0..NJobs /\ sentTo \in 0..nLrt
  /\ nFinishedPE \in Nat /\ iteration \in Nat
  /\ planned \in 0..NRounds /\ curNParam \in Nat

(* The job of an LRT that executes it, or announces its end, was taken out *)
(* of its job queue.                                                       *)
CurrentIsQueued ==
  \A l \in LRT : pc[l] \in {"exec", "notify"} => jobQueueIndex[l] \in DOMAIN jobQueue[l]

TInv == QueueTypes /\ CreditsMatch /\ LrtTypes /\ GrtTypes /\ CurrentIsQueued

Sent == {j \in Config : j <= nSentJobs}

(* Where configuration job j is on the way from the GRT to its LRT and     *)
(* back: in a message, or in a job queue until its parameters are sent.    *)
Carries(m, j) == m.subType \in {"JOB_ADD", "JOB_SENT_PARAM"} /\ m.index = j
Carried(q, j) == \E k \in DOMAIN q : Carries(q[k], j)
CarriedOnce(q, j) == \A k, i \in DOMAIN q : Carries(q[k], j) /\ Carries(q[i], j) => k = i

IsPending(l, j, k) ==
  /\ k \in DOMAIN jobQueue[l] /\ jobQueue[l][k] = j
  /\ k > jobQueueIndex[l] \/ (k = jobQueueIndex[l] /\ pc[l] \in {"exec", "notify"})
Pending(l, j) == \E k \in Nat : IsPending(l, j, k)
PendingOnce(l, j) == \A k, i \in Nat : IsPending(l, j, k) /\ IsPending(l, j, i) => k = i

Messengers(j) == {q \in Queues : Carried(notifQueue[q], j)}
Executors(j) == {l \in LRT : Pending(l, j)}

InOnePlace(j) ==
  /\ \A q \in Queues : CarriedOnce(notifQueue[q], j)
  /\ \A l \in LRT : PendingOnce(l, j)
  /\ \A q, r \in Messengers(j) : q = r
  /\ \A l, i \in Executors(j) : l = i
  /\ Messengers(j) = {} \/ Executors(j) = {}
  /\ j \notin Sent \ resolved => Messengers(j) = {} /\ Executors(j) = {}

ParametersCounted ==
  /\ resolved \subseteq Sent
  /\ curNParam = Cardinality(Sent \ resolved)

(* The rounds: all jobs of the rounds before are sent, and the parameters  *)
(* of a round are there before the next is planned.                        *)
SentUpTo(r) == \A j \in Jobs : round[j] <= r => j <= nSentJobs
Rounds ==
  /\ \A j \in Jobs : j <= nSentJobs => round[j] <= planned
  /\ pc[grt] \in {"plan", "announce", "resolve"} => planned < NRounds
  /\ pc[grt] \in {"announce", "send"} => SentUpTo(planned - 1)
  /\ pc[grt] \in InRun \cup {"plan", "resolve"} => SentUpTo(planned)
  /\ pc[grt] \in {"idle", "plan", "announce", "recv", "stop", "done"} => curNParam = 0
  /\ planned = NRounds => curNParam = 0

PInv == (\A j \in Config : InOnePlace(j)) /\ ParametersCounted /\ Rounds

(* A step after which no message and no job queue has a job that it did    *)
(* not have before.                                                        *)
NoNewMessage(j) ==
  \A q \in Queues : /\ Carried(notifQueue'[q], j) => Carried(notifQueue[q], j)
                    /\ CarriedOnce(notifQueue[q], j) => CarriedOnce(notifQueue'[q], j)
NoNewPending(j) == \A l \in LRT : \A k \in Nat : IsPending(l, j, k)' => IsPending(l, j, k)

-----------------------------------------------------------------------------
LEMMA ConstantTypes ==
  /\ grt \in LRT /\ LRT \subseteq Queues /\ nLrt \in Queues /\ nLrt \in Nat
  /\ -1 \notin Queues /\ nLrt \notin LRT
  /\ \A j \in Jobs : mappedPE[j] \in LRT /\ mappedPE[j] \in Queues
  /\ \A l \in LRT : nJobPerPE[l] - 1 \in Stamp
  /\ Stamp \subseteq Int /\ -1 \in Stamp /\ 0 \in Stamp /\ \A x \in Stamp : x + 1 \in Stamp
  /\ Config \subseteq Jobs /\ NRounds \in Nat \ {0} /\ NJobs \in Nat
<1>1. /\ grt \in LRT /\ LRT \subseteq Queues /\ nLrt \in Queues /\ nLrt \in Nat
      /\ -1 \notin Queues /\ nLrt \notin LRT
  BY PlatformAssumption DEF Queues, LRT
<1>2. \A j \in Jobs : mappedPE[j] \in LRT
  BY PlatformAssumption, ScheduleTypes
<1>3. \A l \in LRT : nJobPerPE[l] - 1 \in Stamp
  <2> TAKE l \in LRT
  <2>1. nJobPerPE[l] \in Nat
    BY ScheduleTypes
  <2> QED BY <2>1 DEF Stamp
<1>4. Stamp \subseteq Int /\ -1 \in Stamp /\ 0 \in Stamp /\ \A x \in Stamp : x + 1 \in Stamp
  BY DEF Stamp
<1>5. Config \subseteq Jobs /\ NRounds \in Nat \ {0} /\ NJobs \in Nat
  BY RoundAssumption, ScheduleTypes
<1> QED BY <1>1, <1>2, <1>3, <1>4, <1>5

(* The sets of module StaticRuntime are those of this module.              *)
LEMMA StaticNames == Static!LRT = LRT /\ Static!Jobs = Jobs
  BY DEF Static!LRT, Static!Jobs, LRT, Jobs

LEMMA OwingIsFinite ==
  \A q \in Queues : IsFiniteSet(Owing(q)) /\ Cardinality(Owing(q)) \in Nat
<1> TAKE q \in Queues
<1>1. IsFiniteSet(LRT)
  BY PlatformAssumption, FS_Interval DEF LRT
<1>2. Owing(q) \subseteq LRT
  BY DEF Owing
<1> QED BY <1>1, <1>2, FS_Subset, FS_CardinalityType

-----------------------------------------------------------------------------
(* The queues. *)

(* A queue that can be popped has a head.                                  *)
LEMMA CreditMeansItem ==
  ASSUME QueueTypes, CreditsMatch, NEW q \in Queues, credits[q] > 0
  PROVE  /\ notifQueue[q] # <<>> /\ notifQueue[q] \in Seq(Messages)
         /\ Head(notifQueue[q]) \in Messages
         /\ Tail(notifQueue[q]) \in Seq(Messages)
         /\ Len(Tail(notifQueue[q])) = Len(notifQueue[q]) - 1
         /\ Len(notifQueue[q]) \in Nat
<1>1. notifQueue[q] \in Seq(Messages) /\ credits[q] \in Nat /\ Len(notifQueue[q]) \in Nat
  BY LenProperties DEF QueueTypes
<1>2. Cardinality(Owing(q)) \in Nat
  BY OwingIsFinite
<1>3. Len(notifQueue[q]) > 0
  BY <1>1, <1>2 DEF CreditsMatch
<1>4. notifQueue[q] # <<>>
  BY <1>1, <1>3, EmptySeq
<1> QED BY <1>1, <1>4, HeadTailProperties

(* A step on queue q by thread l: what the queue gains, its semaphore      *)
(* gains or the thread owes, and what the thread posts it owes no more.    *)
LEMMA CreditsStep ==
  ASSUME QueueTypes, CreditsMatch, QueueTypes', NEW q \in Queues, NEW l \in LRT,
         \A r \in Queues : r # q =>
           Len(notifQueue'[r]) = Len(notifQueue[r]) /\ credits'[r] = credits[r],
         \A k \in LRT : k # l => unposted'[k] = unposted[k],
         \/ /\ unposted'[l] = unposted[l]
            /\ Len(notifQueue'[q]) - credits'[q] = Len(notifQueue[q]) - credits[q]
         \/ /\ unposted[l] = -1 /\ unposted'[l] = q
            /\ Len(notifQueue'[q]) - credits'[q] = Len(notifQueue[q]) - credits[q] + 1
         \/ /\ unposted[l] = q /\ unposted'[l] = -1
            /\ Len(notifQueue'[q]) - credits'[q] = Len(notifQueue[q]) - credits[q] - 1
  PROVE  CreditsMatch'
<1>1. \A r \in Queues : /\ credits[r] \in Nat /\ credits'[r] \in Nat
                        /\ Len(notifQueue[r]) \in Nat /\ Len(notifQueue'[r]) \in Nat
                        /\ Cardinality(Owing(r)) \in Nat /\ IsFiniteSet(Owing(r))
                        /\ Len(notifQueue[r]) = credits[r] + Cardinality(Owing(r))
  BY OwingIsFinite, LenProperties DEF QueueTypes, CreditsMatch
<1>2. -1 \notin Queues
  BY ConstantTypes
<1>3. \A r \in Queues : Len(notifQueue'[r]) = credits'[r] + Cardinality({k \in LRT : unposted'[k] = r})
  <2> SUFFICES ASSUME NEW r \in Queues
               PROVE  Len(notifQueue'[r]) = credits'[r] + Cardinality({k \in LRT : unposted'[k] = r})
    OBVIOUS
  <2>1. PICK now : now = {k \in LRT : unposted'[k] = r}
    OBVIOUS
  <2> SUFFICES Len(notifQueue'[r]) = credits'[r] + Cardinality(now)
    BY <2>1
  <2>0. /\ credits[r] \in Nat /\ credits'[r] \in Nat
        /\ Len(notifQueue[r]) \in Nat /\ Len(notifQueue'[r]) \in Nat
        /\ Cardinality(Owing(r)) \in Nat /\ IsFiniteSet(Owing(r))
        /\ Len(notifQueue[r]) = credits[r] + Cardinality(Owing(r))
    BY <1>1
  <2>2. CASE unposted'[l] = unposted[l] \/ r # q
    <3>1. now = Owing(r)
      BY <1>2, <2>1, <2>2 DEF Owing
    <3>2. Len(notifQueue'[r]) - credits'[r] = Len(notifQueue[r]) - credits[r]
      BY <1>1, <1>2, <2>2
    <3> QED BY <2>0, <3>1, <3>2, SMTT(30)
  <2>3. CASE unposted[l] = -1 /\ unposted'[l] = q /\ r = q
    <3>1. now = Owing(r) \cup {l} /\ l \notin Owing(r)
      BY <1>2, <2>1, <2>3 DEF Owing
    <3>2. Cardinality(now) = Cardinality(Owing(r)) + 1
      BY <2>0, <3>1, FS_AddElement
    <3>3. Len(notifQueue'[r]) - credits'[r] = Len(notifQueue[r]) - credits[r] + 1
      BY <1>2, <2>3
    <3> QED BY <2>0, <3>2, <3>3, SMTT(30)
  <2>4. CASE unposted[l] = q /\ unposted'[l] = -1 /\ r = q
    <3>1. now = Owing(r) \ {l} /\ l \in Owing(r)
      BY <1>2, <2>1, <2>4 DEF Owing
    <3>2. Cardinality(now) = Cardinality(Owing(r)) - 1
      BY <2>0, <3>1, FS_RemoveElement
    <3>3. Len(notifQueue'[r]) - credits'[r] = Len(notifQueue[r]) - credits[r] - 1
      BY <1>2, <2>4
    <3> QED BY <2>0, <3>2, <3>3, SMTT(30)
  <2> QED BY <2>2, <2>3, <2>4
<1> QED BY <1>3 DEF CreditsMatch, Owing

LEMMA PushKeepsQueues ==
  ASSUME QueueTypes, CreditsMatch, NEW l \in LRT, NEW q \in Queues,
         NEW m \in Messages, unposted[l] = -1, Static!Push(l, q, m)
  PROVE  QueueTypes' /\ CreditsMatch'
<1>1. /\ Append(notifQueue[q], m) \in Seq(Messages) /\ Len(notifQueue[q]) \in Nat
      /\ Len(Append(notifQueue[q], m)) = Len(notifQueue[q]) + 1 /\ credits[q] \in Nat
  BY AppendProperties, LenProperties DEF QueueTypes
<1>2. /\ notifQueue' = [notifQueue EXCEPT ![q] = Append(@, m)]
      /\ \/ credits' = [credits EXCEPT ![q] = @ + 1] /\ unposted' = unposted
         \/ unposted' = [unposted EXCEPT ![l] = q] /\ credits' = credits
  BY DEF Static!Push
<1>3. QueueTypes'
  <2>1. notifQueue' \in [Queues -> Seq(Messages)]
    BY <1>1, <1>2 DEF QueueTypes
  <2>2. credits' \in [Queues -> Nat] /\ unposted' \in [LRT -> Queues \cup {-1}]
    <3>1. credits[q] + 1 \in Nat
      BY <1>1
    <3> QED BY <1>2, <3>1 DEF QueueTypes
  <2> QED BY <2>1, <2>2 DEF QueueTypes
<1>4. /\ \A r \in Queues : r # q => notifQueue'[r] = notifQueue[r] /\ credits'[r] = credits[r]
      /\ \A k \in LRT : k # l => unposted'[k] = unposted[k]
      /\ Len(notifQueue'[q]) = Len(notifQueue[q]) + 1
  BY <1>1, <1>2 DEF QueueTypes
<1>5. \/ unposted'[l] = unposted[l] /\ credits'[q] = credits[q] + 1
      \/ unposted'[l] = q /\ credits'[q] = credits[q]
  BY <1>2 DEF QueueTypes
<1>6. CreditsMatch'
  <2>0. /\ Len(notifQueue'[q]) = Len(notifQueue[q]) + 1
        /\ Len(notifQueue[q]) \in Nat /\ credits[q] \in Nat
    BY <1>1, <1>4
  <2>1. CASE unposted'[l] = unposted[l] /\ credits'[q] = credits[q] + 1
    <3>1. Len(notifQueue'[q]) - credits'[q] = Len(notifQueue[q]) - credits[q]
      BY <2>0, <2>1, SMTT(30)
    <3> QED BY <1>3, <1>4, <2>1, <3>1, CreditsStep, SMTT(30)
  <2>2. CASE unposted'[l] = q /\ credits'[q] = credits[q]
    <3>1. Len(notifQueue'[q]) - credits'[q] = Len(notifQueue[q]) - credits[q] + 1
      BY <2>0, <2>2, SMTT(30)
    <3> QED BY <1>3, <1>4, <2>2, <3>1, CreditsStep, SMTT(30)
  <2> QED BY <1>5, <2>1, <2>2
<1> QED BY <1>3, <1>6

LEMMA PostKeepsQueues ==
  ASSUME QueueTypes, CreditsMatch, NEW l \in LRT, Static!Post(l)
  PROVE  QueueTypes' /\ CreditsMatch'
<1>1. PICK q \in Queues :
        /\ q = unposted[l] /\ notifQueue' = notifQueue /\ credits[q] \in Nat
        /\ credits' = [credits EXCEPT ![q] = @ + 1]
        /\ unposted' = [unposted EXCEPT ![l] = -1]
  BY DEF Static!Post, QueueTypes
<1>2. QueueTypes'
  BY <1>1 DEF QueueTypes
<1>3. /\ \A r \in Queues : r # q => credits'[r] = credits[r]
      /\ \A k \in LRT : k # l => unposted'[k] = unposted[k]
      /\ credits'[q] = credits[q] + 1 /\ unposted'[l] = -1 /\ Len(notifQueue[q]) \in Nat
  BY <1>1, LenProperties DEF QueueTypes
<1>4. CreditsMatch'
  BY <1>1, <1>2, <1>3, CreditsStep, SMTT(30)
<1> QED BY <1>2, <1>4

(* Taking the head of queue q with one of its credits.                     *)
LEMMA TakeKeepsQueues ==
  ASSUME QueueTypes, CreditsMatch, NEW q \in Queues, credits[q] > 0,
         notifQueue' = [notifQueue EXCEPT ![q] = Tail(@)],
         credits' = [credits EXCEPT ![q] = @ - 1], unposted' = unposted
  PROVE  QueueTypes' /\ CreditsMatch'
<1>1. /\ Tail(notifQueue[q]) \in Seq(Messages) /\ Len(notifQueue[q]) \in Nat
      /\ Len(Tail(notifQueue[q])) = Len(notifQueue[q]) - 1 /\ credits[q] \in Nat
  BY CreditMeansItem DEF QueueTypes
<1>2. QueueTypes'
  <2>1. notifQueue' \in [Queues -> Seq(Messages)]
    BY <1>1 DEF QueueTypes
  <2>2. credits' \in [Queues -> Nat]
    <3>1. credits[q] - 1 \in Nat
      BY <1>1
    <3> QED BY <3>1 DEF QueueTypes
  <2> QED BY <2>1, <2>2 DEF QueueTypes
<1>3. /\ \A r \in Queues : r # q => notifQueue'[r] = notifQueue[r] /\ credits'[r] = credits[r]
      /\ Len(notifQueue'[q]) = Len(notifQueue[q]) - 1 /\ credits'[q] = credits[q] - 1
  BY <1>1 DEF QueueTypes
<1>4. CreditsMatch'
  <2>1. /\ Len(notifQueue'[q]) - credits'[q] = Len(notifQueue[q]) - credits[q]
        /\ grt \in LRT /\ unposted'[grt] = unposted[grt]
    <3>1. /\ Len(notifQueue'[q]) = Len(notifQueue[q]) - 1 /\ credits'[q] = credits[q] - 1
          /\ Len(notifQueue[q]) \in Nat /\ credits[q] \in Nat
      BY <1>1, <1>3
    <3>2. Len(notifQueue'[q]) - credits'[q] = Len(notifQueue[q]) - credits[q]
      BY <3>1, SMTT(30)
    <3> QED BY <3>2, ConstantTypes, Zenon
  <2>2. /\ \A r \in Queues : r # q => Len(notifQueue'[r]) = Len(notifQueue[r]) /\ credits'[r] = credits[r]
        /\ \A k \in LRT : unposted'[k] = unposted[k]
    BY <1>3
  <2> QED BY <1>2, <2>1, <2>2, CreditsStep, ZenonT(30)
<1> QED BY <1>2, <1>4

(* The head of the GRT's queue goes back to its end.                       *)
LEMMA RotateKeepsQueues ==
  ASSUME QueueTypes, CreditsMatch, credits[nLrt] > 0, unposted[grt] = -1,
         notifQueue' = [notifQueue EXCEPT ![nLrt] = Append(Tail(@), Head(@))],
         \/ UNCHANGED <<credits, unposted>>
         \/ /\ credits' = [credits EXCEPT ![nLrt] = @ - 1]
            /\ unposted' = [unposted EXCEPT ![grt] = nLrt]
  PROVE  QueueTypes' /\ CreditsMatch'
<1>0. nLrt \in Queues /\ grt \in LRT
  BY ConstantTypes
<1>1. PICK q : q = notifQueue[nLrt]
  OBVIOUS
<1>2. /\ Tail(q) \in Seq(Messages) /\ Head(q) \in Messages /\ credits[nLrt] \in Nat
      /\ Len(Tail(q)) = Len(q) - 1 /\ Len(q) \in Nat
  BY <1>0, <1>1, CreditMeansItem DEF QueueTypes
<1>3. Append(Tail(q), Head(q)) \in Seq(Messages) /\ Len(Append(Tail(q), Head(q))) = Len(q)
  <2>1. /\ Append(Tail(q), Head(q)) \in Seq(Messages)
        /\ Len(Append(Tail(q), Head(q))) = Len(Tail(q)) + 1
    BY <1>2, AppendProperties
  <2> QED BY <1>2, <2>1
<1>4. QueueTypes'
  <2>1. notifQueue' \in [Queues -> Seq(Messages)]
    BY <1>0, <1>1, <1>3 DEF QueueTypes
  <2>2. credits' \in [Queues -> Nat] /\ unposted' \in [LRT -> Queues \cup {-1}]
    <3>1. credits[nLrt] - 1 \in Nat
      BY <1>2
    <3> QED BY <1>0, <3>1 DEF QueueTypes
  <2> QED BY <2>1, <2>2 DEF QueueTypes
<1>5. /\ \A r \in Queues : r # nLrt => notifQueue'[r] = notifQueue[r] /\ credits'[r] = credits[r]
      /\ \A k \in LRT : k # grt => unposted'[k] = unposted[k]
      /\ Len(notifQueue'[nLrt]) = Len(notifQueue[nLrt])
      /\ \/ unposted'[grt] = unposted[grt] /\ credits'[nLrt] = credits[nLrt]
         \/ unposted'[grt] = nLrt /\ credits'[nLrt] = credits[nLrt] - 1
  BY <1>0, <1>1, <1>3 DEF QueueTypes
<1>6. CreditsMatch'
  <2>1. CASE unposted'[grt] = unposted[grt] /\ credits'[nLrt] = credits[nLrt]
    <3>1. Len(notifQueue'[nLrt]) - credits'[nLrt] = Len(notifQueue[nLrt]) - credits[nLrt]
      BY <1>5, <2>1
    <3> QED BY <1>0, <1>4, <1>5, <2>1, <3>1, CreditsStep, SMTT(30)
  <2>2. CASE unposted'[grt] = nLrt /\ credits'[nLrt] = credits[nLrt] - 1
    <3>1. Len(notifQueue'[nLrt]) - credits'[nLrt] = Len(notifQueue[nLrt]) - credits[nLrt] + 1
      BY <1>1, <1>2, <1>5, <2>2
    <3> QED BY <1>0, <1>4, <1>5, <2>2, <3>1, CreditsStep, SMTT(30)
  <2> QED BY <1>5, <2>1, <2>2
<1> QED BY <1>4, <1>6

LEMMA SameKeepsQueues ==
  ASSUME QueueTypes, CreditsMatch, UNCHANGED queueVars
  PROVE  QueueTypes' /\ CreditsMatch'
  BY DEF QueueTypes, CreditsMatch, Owing, queueVars

-----------------------------------------------------------------------------
(* Types are kept, action by action.                                       *)

LEMMA MessageTypes ==
  ASSUME NEW l \in LRT
  PROVE  /\ \A j \in Jobs : /\ Static!Message("JOB_ADD", l, j) \in Messages
                            /\ Static!Message("TRACE_LRT", l, j) \in Messages
         /\ \A j \in Config : Static!Message("JOB_SENT_PARAM", l, j) \in Messages
         /\ \A x \in Stamp : /\ Static!Message("JOB_UPDATE_JOBSTAMP", l, x) \in Messages
                             /\ Static!Message("LRT_END_ITERATION", l, x) \in Messages
                             /\ Static!Message("LRT_STOP", l, x) \in Messages
                             /\ Static!Message("LRT_FINISHED_ITERATION", l, x) \in Messages
                             /\ Static!Message("JOB_DELAY_BROADCAST_JOBSTAMP", l, x) \in Messages
  BY DEF Messages, JobKinds, Static!Message, SubTypes, Static!SubTypes

LEMMA InitTypes == ASSUME Init PROVE TInv
<1> USE DEF Init, Static!Init
<1>1. QueueTypes
  <2>1. <<>> \in Seq(Messages)
    BY EmptySeq
  <2> QED BY <2>1, StaticNames DEF QueueTypes, Queues
<1>2. CreditsMatch
  <2> SUFFICES ASSUME NEW q \in Queues
               PROVE  Len(notifQueue[q]) = credits[q] + Cardinality(Owing(q))
    BY DEF CreditsMatch
  <2>1. Owing(q) = {}
    BY ConstantTypes, StaticNames DEF Owing
  <2>2. notifQueue[q] = <<>> /\ credits[q] = 0
    BY DEF Queues
  <2> QED BY <2>1, <2>2, EmptySeq, FS_EmptySet
<1>3. LrtTypes
  <2>1. <<>> \in Seq(Jobs)
    BY EmptySeq
  <2>2. -1 \in Stamp
    BY ConstantTypes
  <2> QED BY <2>1, <2>2, StaticNames DEF LrtTypes, InRun, InGrt
<1>4. GrtTypes
  BY ConstantTypes DEF GrtTypes
<1>5. CurrentIsQueued
  BY StaticNames DEF CurrentIsQueued
<1> QED BY <1>1, <1>2, <1>3, <1>4, <1>5 DEF TInv

(* A popped message and what a pop leaves alone.                           *)
LEMMA PopTypes ==
  ASSUME TInv, NEW l \in LRT, NEW s, Static!Pop(l, s)
  PROVE  /\ QueueTypes' /\ CreditsMatch' /\ l \in Queues /\ credits[l] > 0
         /\ notifQueue' = [notifQueue EXCEPT ![l] = Tail(@)]
         /\ Head(notifQueue[l]) \in Messages /\ Head(notifQueue[l]).subType = s
         /\ Head(notifQueue[l]).lrtID \in LRT
         /\ s \in JobKinds => Head(notifQueue[l]).index \in Jobs
         /\ s \in Static!SubTypes \ JobKinds => Head(notifQueue[l]).index \in Stamp
         /\ pc' = [pc EXCEPT ![l] = "drain"] /\ pc[l] \in {"wait", "drain"}
         /\ UNCHANGED <<toNotify, ran, grtVars>>
<1>1. l \in Queues
  BY ConstantTypes
<1>2. /\ credits[l] > 0 /\ Head(notifQueue[l]).subType = s
      /\ notifQueue' = [notifQueue EXCEPT ![l] = Tail(@)]
      /\ credits' = [credits EXCEPT ![l] = @ - 1] /\ unposted' = unposted
      /\ pc' = [pc EXCEPT ![l] = "drain"] /\ pc[l] \in {"wait", "drain"}
      /\ UNCHANGED <<toNotify, ran, grtVars>>
  BY DEF Static!Pop, Static!At, Static!grtVars, grtVars
<1>3. Head(notifQueue[l]) \in Messages
  BY <1>1, <1>2, CreditMeansItem DEF TInv
<1>4. QueueTypes' /\ CreditsMatch'
  BY <1>1, <1>2, TakeKeepsQueues DEF TInv
<1>5. PICK m : m = Head(notifQueue[l])
  OBVIOUS
<1>6. /\ m.lrtID \in LRT
      /\ s \in JobKinds => m.index \in Jobs
      /\ s \in Static!SubTypes \ JobKinds => m.index \in Stamp
  <2>1. m \in Messages /\ m.subType = s
    BY <1>2, <1>3, <1>5
  <2> QED BY <2>1 DEF Messages, JobKinds, Static!SubTypes
<1>7. /\ Head(notifQueue[l]).lrtID \in LRT
      /\ s \in JobKinds => Head(notifQueue[l]).index \in Jobs
      /\ s \in Static!SubTypes \ JobKinds => Head(notifQueue[l]).index \in Stamp
  BY <1>5, <1>6
<1> QED BY <1>1, <1>2, <1>3, <1>4, <1>7, Zenon

LEMMA HandlingTypes ==
  ASSUME TInv, NEW l \in LRT, UNCHANGED jitVars, Static!HandleNotification(l)
  PROVE  TInv'
<1>1. ASSUME NEW s, Static!Pop(l, s),
             \A k \in LRT \ {l} : jobQueueIndex'[k] = jobQueueIndex[k] /\ jobQueue'[k] = jobQueue[k]
      PROVE  CurrentIsQueued'
  <2>1. pc' = [pc EXCEPT ![l] = "drain"]
    BY <1>1, PopTypes
  <2>2. \A k \in LRT : pc'[k] \in {"exec", "notify"} => k # l /\ pc[k] = pc'[k]
    BY <2>1 DEF TInv, LrtTypes
  <2> QED BY <1>1, <2>2 DEF TInv, CurrentIsQueued
<1>2. GrtTypes'
  <2>1. PICK s : Static!Pop(l, s)
    BY DEF Static!HandleNotification, Static!HandleJobAdd, Static!HandleUpdateJobStamp,
           Static!HandleEndIteration, Static!HandleStop
  <2> QED BY <2>1, PopTypes DEF TInv, GrtTypes, grtVars, jitVars
<1>3. CASE Static!HandleJobAdd(l)
  <2>1. /\ Static!Pop(l, "JOB_ADD")
        /\ jobQueue' = [jobQueue EXCEPT ![l] = Append(@, Head(notifQueue[l]).index)]
        /\ UNCHANGED <<jobQueueIndex, jobIx, lastJobID, jobStamps, run>>
    BY <1>3 DEF Static!HandleJobAdd
  <2>2. Append(jobQueue[l], Head(notifQueue[l]).index) \in Seq(Jobs)
    <3>1. Head(notifQueue[l]).index \in Jobs /\ jobQueue[l] \in Seq(Jobs)
      BY <2>1, PopTypes DEF TInv, LrtTypes, JobKinds
    <3> QED BY <3>1, AppendProperties
  <2>3. LrtTypes'
    BY <2>1, <2>2, PopTypes DEF TInv, LrtTypes, jitVars, InRun
  <2>4. CurrentIsQueued'
    BY <2>1, <1>1 DEF TInv, LrtTypes
  <2> QED BY <2>1, <2>3, <2>4, <1>2, PopTypes DEF TInv
<1>4. CASE Static!HandleUpdateJobStamp(l)
  <2>1. PICK m : m = Head(notifQueue[l])
    OBVIOUS
  <2>2. /\ Static!Pop(l, "JOB_UPDATE_JOBSTAMP")
        /\ jobStamps' = [jobStamps EXCEPT ![l][m.lrtID] = m.index]
        /\ UNCHANGED <<jobQueue, jobQueueIndex, jobIx, lastJobID, run>>
    BY <1>4, <2>1 DEF Static!HandleUpdateJobStamp
  <2>3. m.lrtID \in LRT /\ m.index \in Stamp
    BY <2>1, <2>2, PopTypes DEF JobKinds, Static!SubTypes
  <2>4. LrtTypes'
    BY <2>2, <2>3, PopTypes DEF TInv, LrtTypes, jitVars, InRun
  <2>5. CurrentIsQueued'
    BY <2>2, <1>1
  <2> QED BY <2>2, <2>4, <2>5, <1>2, PopTypes DEF TInv
<1>5. CASE Static!HandleEndIteration(l)
  <2>1. PICK m : m = Head(notifQueue[l])
    OBVIOUS
  <2>2. /\ Static!Pop(l, "LRT_END_ITERATION")
        /\ lastJobID' = [lastJobID EXCEPT ![l] = m.index]
        /\ UNCHANGED <<jobQueue, jobQueueIndex, jobIx, jobStamps, run>>
    BY <1>5, <2>1 DEF Static!HandleEndIteration
  <2>3. m.index \in Stamp
    BY <2>1, <2>2, PopTypes DEF JobKinds, Static!SubTypes
  <2>4. LrtTypes'
    BY <2>2, <2>3, PopTypes DEF TInv, LrtTypes, jitVars, InRun
  <2>5. CurrentIsQueued'
    BY <2>2, <1>1
  <2> QED BY <2>2, <2>4, <2>5, <1>2, PopTypes DEF TInv
<1>6. CASE Static!HandleStop(l)
  <2>1. /\ Static!Pop(l, "LRT_STOP")
        /\ run' = [run EXCEPT ![l] = FALSE] /\ UNCHANGED lrtVars
    BY <1>6 DEF Static!HandleStop, Static!lrtVars, lrtVars
  <2>2. LrtTypes'
    BY <2>1, PopTypes DEF TInv, LrtTypes, jitVars, lrtVars, InRun
  <2>3. CurrentIsQueued'
    BY <2>1, <1>1 DEF lrtVars
  <2> QED BY <2>1, <2>2, <2>3, <1>2, PopTypes DEF TInv
<1> QED BY <1>3, <1>4, <1>5, <1>6 DEF Static!HandleNotification

LEMMA BroadcastRequestTypes ==
  ASSUME TInv, NEW l \in LRT, HandleDelayBroadcast(l) PROVE TInv'
<1>1. /\ Static!Pop(l, "JOB_DELAY_BROADCAST_JOBSTAMP")
      /\ shouldBroadcast' = [shouldBroadcast EXCEPT ![l] = TRUE]
      /\ UNCHANGED <<lrtVars, run, planned, curNParam, resolved>>
  BY DEF HandleDelayBroadcast
<1>2. QueueTypes' /\ CreditsMatch' /\ pc' = [pc EXCEPT ![l] = "drain"]
      /\ UNCHANGED <<toNotify, ran, grtVars>>
  BY <1>1, PopTypes
<1>3. LrtTypes' /\ GrtTypes'
  BY <1>1, <1>2 DEF TInv, LrtTypes, GrtTypes, lrtVars, grtVars, InRun
<1>4. CurrentIsQueued'
  BY <1>1, <1>2 DEF TInv, LrtTypes, CurrentIsQueued, lrtVars
<1> QED BY <1>2, <1>3, <1>4 DEF TInv

LEMMA NotifyTypes ==
  ASSUME TInv, NEW l \in LRT, NotifyLRTJobStamp(l) PROVE TInv'
<1>1. PICK i \in LRT :
        /\ Static!Push(l, i, Static!Message("JOB_UPDATE_JOBSTAMP", l, jobIx[l]))
        /\ toNotify' = [toNotify EXCEPT ![l] = @ \ {i}]
        /\ UNCHANGED <<lrtVars, grtVars, pc, run, ran, jitVars>> /\ unposted[l] = -1
  BY DEF NotifyLRTJobStamp, At, Static!At, TInv, LrtTypes
<1>2. i \in Queues /\ Static!Message("JOB_UPDATE_JOBSTAMP", l, jobIx[l]) \in Messages
  BY ConstantTypes, MessageTypes DEF TInv, LrtTypes
<1>3. QueueTypes' /\ CreditsMatch'
  BY <1>1, <1>2, PushKeepsQueues DEF TInv
<1>4. LrtTypes' /\ GrtTypes' /\ CurrentIsQueued'
  BY <1>1 DEF TInv, LrtTypes, GrtTypes, CurrentIsQueued, lrtVars, grtVars, jitVars
<1> QED BY <1>3, <1>4 DEF TInv

(* The job that an LRT is busy with.                                       *)
LEMMA CurrentJobType ==
  ASSUME TInv, NEW l \in LRT, pc[l] \in {"exec", "notify"}
  PROVE  /\ Static!CurrentJob(l) = jobQueue[l][jobQueueIndex[l]]
         /\ Static!CurrentJob(l) \in Jobs
<1>1. jobQueueIndex[l] \in DOMAIN jobQueue[l] /\ jobQueue[l] \in Seq(Jobs)
  BY DEF TInv, CurrentIsQueued, LrtTypes
<1>2. jobQueue[l][jobQueueIndex[l]] \in Jobs
  BY <1>1, ElementOfSeq, LenProperties
<1> QED BY <1>2 DEF Static!CurrentJob

LEMMA SendParamTypes ==
  ASSUME TInv, NEW l \in LRT, SendParam(l) PROVE TInv'
<1>1. /\ pc[l] = "notify" /\ unposted[l] = -1 /\ Static!CurrentJob(l) \in Config
      /\ Static!Push(l, nLrt, Static!Message("JOB_SENT_PARAM", l, Static!CurrentJob(l)))
      /\ pc' = [pc EXCEPT ![l] = "endpass"]
      /\ UNCHANGED <<lrtVars, grtVars, run, toNotify, ran, jitVars>>
  BY DEF SendParam, At, Static!At
<1>2. QueueTypes' /\ CreditsMatch'
  BY <1>1, ConstantTypes, MessageTypes, PushKeepsQueues DEF TInv
<1>3. LrtTypes' /\ GrtTypes' /\ CurrentIsQueued'
  BY <1>1 DEF TInv, LrtTypes, GrtTypes, CurrentIsQueued, lrtVars, grtVars, jitVars, InRun
<1> QED BY <1>2, <1>3 DEF TInv

(* What the end of a pass does, whether or not the LRT has ended its       *)
(* iteration.                                                              *)
LEMMA EndPassDoes ==
  ASSUME TInv, NEW l \in LRT, NEW resume \in {"wait", "drain"}, EndPass(l, resume)
  PROVE  /\ \/ UNCHANGED queueVars
            \/ Static!Push(l, nLrt, Static!Message("LRT_FINISHED_ITERATION", l, -1))
         /\ \/ UNCHANGED lrtVars
            \/ Static!ResetLrt(l)
         /\ \E p \in {"wait", "drain", "broadcast", "resolve", "recv"} :
              /\ pc' = [pc EXCEPT ![l] = p]
              /\ p = "resolve" => l = grt /\ planned < NRounds
              /\ p = "recv" => l = grt /\ ~(planned < NRounds)
              /\ l = grt /\ p \notin {"resolve", "recv"} => p \in {"wait", "drain", "broadcast"}
         /\ toNotify' = toNotify \/ toNotify' = [toNotify EXCEPT ![l] = LRT \ {l}]
         /\ shouldBroadcast' = shouldBroadcast \/ shouldBroadcast' = [shouldBroadcast EXCEPT ![l] = FALSE]
         /\ UNCHANGED <<grtVars, run, ran, planned, curNParam, resolved>>
  BY DEF EndPass, DoneWithCurrentJobs, NoMoreJobs

LEMMA EndPassTypes ==
  ASSUME TInv, NEW l \in LRT, NEW resume \in {"wait", "drain"}, unposted[l] = -1,
         EndPass(l, resume)
  PROVE  TInv'
<1>1. QueueTypes' /\ CreditsMatch'
  <2>1. nLrt \in Queues /\ Static!Message("LRT_FINISHED_ITERATION", l, -1) \in Messages
    BY ConstantTypes, MessageTypes
  <2> QED BY <2>1, EndPassDoes, PushKeepsQueues, SameKeepsQueues DEF TInv
<1>2. PICK p \in {"wait", "drain", "broadcast", "resolve", "recv"} : pc' = [pc EXCEPT ![l] = p]
  BY EndPassDoes
<1>3. /\ jobQueue' \in [LRT -> Seq(Jobs)] /\ jobQueueIndex' \in [LRT -> Nat]
      /\ jobIx' \in [LRT -> Stamp] /\ lastJobID' \in [LRT -> Stamp]
      /\ jobStamps' \in [LRT -> [LRT -> Stamp]]
      /\ \A k \in LRT \ {l} : jobQueue'[k] = jobQueue[k] /\ jobQueueIndex'[k] = jobQueueIndex[k]
  <2>1. CASE UNCHANGED lrtVars
    BY <2>1 DEF TInv, LrtTypes, lrtVars
  <2>2. CASE Static!ResetLrt(l)
    <3>1. <<>> \in Seq(Jobs) /\ -1 \in Stamp
      BY EmptySeq, ConstantTypes
    <3>2. /\ jobStamps' = [jobStamps EXCEPT ![l] = [i \in LRT |-> -1]]
          /\ jobQueue' = [jobQueue EXCEPT ![l] = <<>>]
          /\ jobQueueIndex' = [jobQueueIndex EXCEPT ![l] = 0]
          /\ lastJobID' = [lastJobID EXCEPT ![l] = -1]
          /\ jobIx' = [jobIx EXCEPT ![l] = -1]
      BY <2>2, StaticNames DEF Static!ResetLrt, Static!ClearJobQueue
    <3> QED BY <3>1, <3>2 DEF TInv, LrtTypes
  <2> QED BY <2>1, <2>2, EndPassDoes
<1>4. /\ toNotify' = toNotify \/ toNotify' = [toNotify EXCEPT ![l] = LRT \ {l}]
      /\ \/ shouldBroadcast' = shouldBroadcast
         \/ shouldBroadcast' = [shouldBroadcast EXCEPT ![l] = FALSE]
      /\ UNCHANGED <<grtVars, run, ran, planned, curNParam, resolved>>
  BY EndPassDoes
<1>5. LrtTypes' /\ GrtTypes'
  <2>1. toNotify' \in [LRT -> SUBSET LRT]
    <3>1. LRT \ {l} \in SUBSET LRT
      OBVIOUS
    <3> QED BY <1>4, <3>1 DEF TInv, LrtTypes
  <2>3. shouldBroadcast' \in [LRT -> BOOLEAN]
    BY <1>4 DEF TInv, LrtTypes
  <2>2. pc' \in [LRT -> InRun \cup InGrt]
    BY <1>2 DEF TInv, LrtTypes, InRun, InGrt
  <2> QED BY <1>3, <1>4, <2>1, <2>2, <2>3 DEF TInv, LrtTypes, GrtTypes, grtVars
<1>6. CurrentIsQueued'
  BY <1>2, <1>3 DEF TInv, LrtTypes, CurrentIsQueued
<1> QED BY <1>1, <1>5, <1>6 DEF TInv

LEMMA PassTypes ==
  ASSUME TInv, NEW l \in LRT, PassWithoutJob(l) \/ PassWithJob(l) PROVE TInv'
<1>1. PICK resume \in {"wait", "drain"} : unposted[l] = -1 /\ EndPass(l, resume)
  BY DEF PassWithoutJob, PassWithJob, At, Static!Drained, Static!At
<1> QED BY <1>1, EndPassTypes

LEMMA BroadcastedTypes ==
  ASSUME TInv, NEW l \in LRT, Broadcasted(l) PROVE TInv'
<1>1. /\ \E p \in {"wait", "resolve", "recv"} : pc' = [pc EXCEPT ![l] = p]
      /\ UNCHANGED <<queueVars, lrtVars, grtVars, run, toNotify, ran, jitVars>>
  BY DEF Broadcasted, NoMoreJobs
<1>2. LrtTypes' /\ GrtTypes' /\ CurrentIsQueued'
  BY <1>1 DEF TInv, LrtTypes, GrtTypes, CurrentIsQueued, lrtVars, grtVars, jitVars, InRun, InGrt
<1> QED BY <1>1, <1>2, SameKeepsQueues DEF TInv

LEMMA ExitTypes ==
  ASSUME TInv, NEW l \in LRT, Static!ExitRun(l), UNCHANGED jitVars PROVE TInv'
<1>1. /\ pc' = [pc EXCEPT ![l] = "ended"]
      /\ UNCHANGED <<queueVars, lrtVars, grtVars, run, toNotify, ran>>
  BY DEF Static!ExitRun, Static!queueVars, Static!lrtVars, Static!grtVars,
         queueVars, lrtVars, grtVars
<1>2. LrtTypes' /\ GrtTypes' /\ CurrentIsQueued'
  BY <1>1 DEF TInv, LrtTypes, GrtTypes, CurrentIsQueued, lrtVars, grtVars, jitVars, InRun
<1> QED BY <1>1, <1>2, SameKeepsQueues DEF TInv

LEMMA StartTypes ==
  ASSUME TInv, NEW l \in LRT, Static!StartJob(l), UNCHANGED jitVars PROVE TInv'
<1>1. /\ jobQueueIndex[l] < Len(jobQueue[l])
      /\ jobQueueIndex' = [jobQueueIndex EXCEPT ![l] = @ + 1]
      /\ pc' = [pc EXCEPT ![l] = "exec"]
      /\ UNCHANGED <<queueVars, jobQueue, jobIx, lastJobID, jobStamps, grtVars, run, toNotify, ran>>
  BY DEF Static!StartJob, Static!GotJobToDo, Static!queueVars, Static!grtVars, queueVars, grtVars
<1>2. jobQueueIndex[l] + 1 \in Nat /\ jobQueueIndex[l] + 1 \in DOMAIN jobQueue[l]
  <2>1. jobQueueIndex[l] \in Nat /\ jobQueue[l] \in Seq(Jobs)
    BY DEF TInv, LrtTypes
  <2>2. Len(jobQueue[l]) \in Nat /\ DOMAIN jobQueue[l] = 1..Len(jobQueue[l])
    BY <2>1, LenProperties
  <2> QED BY <1>1, <2>1, <2>2
<1>3. LrtTypes' /\ GrtTypes'
  BY <1>1, <1>2 DEF TInv, LrtTypes, GrtTypes, grtVars, jitVars, InRun
<1>4. CurrentIsQueued'
  BY <1>1, <1>2 DEF TInv, LrtTypes, CurrentIsQueued
<1> QED BY <1>1, <1>3, <1>4, SameKeepsQueues DEF TInv

LEMMA FinishTypes ==
  ASSUME TInv, NEW l \in LRT, Static!FinishJob(l), UNCHANGED jitVars PROVE TInv'
<1>1. PICK j : j = Static!CurrentJob(l)
  OBVIOUS
<1>2. /\ pc[l] = "exec" /\ unposted[l] = -1
      /\ ran' = [ran EXCEPT ![j] = @ + 1]
      /\ \/ Static!Push(l, nLrt, Static!Message("TRACE_LRT", l, j))
         \/ UNCHANGED queueVars
      /\ jobIx' = [jobIx EXCEPT ![l] = @ + 1]
      /\ jobStamps' = [jobStamps EXCEPT ![l][l] = jobIx[l] + 1]
      /\ toNotify' = [toNotify EXCEPT ![l] = Static!LrtsToNotify(l)]
      /\ pc' = [pc EXCEPT ![l] = "notify"]
      /\ UNCHANGED <<jobQueue, jobQueueIndex, lastJobID, grtVars, run>>
  BY <1>1 DEF Static!FinishJob, Static!At, Static!grtVars, grtVars, Static!queueVars, queueVars
<1>3. j \in Jobs
  BY <1>1, <1>2, CurrentJobType
<1>4. QueueTypes' /\ CreditsMatch'
  BY <1>2, <1>3, ConstantTypes, MessageTypes, PushKeepsQueues, SameKeepsQueues DEF TInv
<1>5. Static!LrtsToNotify(l) \in SUBSET LRT
  BY StaticNames DEF Static!LrtsToNotify
<1>6. LrtTypes'
  <2>1. ran[j] + 1 \in Nat /\ jobIx[l] + 1 \in Stamp
    <3>1. ran[j] \in Nat /\ jobIx[l] \in Stamp
      BY <1>3 DEF TInv, LrtTypes
    <3> QED BY <3>1 DEF Stamp
  <2>2. ran' \in [Jobs -> Nat] /\ jobIx' \in [LRT -> Stamp]
    BY <1>2, <1>3, <2>1 DEF TInv, LrtTypes
  <2>3. jobStamps' \in [LRT -> [LRT -> Stamp]]
    BY <1>2, <2>1 DEF TInv, LrtTypes
  <2>4. toNotify' \in [LRT -> SUBSET LRT] /\ pc' \in [LRT -> InRun \cup InGrt]
    BY <1>2, <1>5 DEF TInv, LrtTypes, InRun
  <2> QED BY <1>2, <2>2, <2>3, <2>4 DEF TInv, LrtTypes, jitVars
<1>7. GrtTypes' /\ CurrentIsQueued'
  BY <1>2 DEF TInv, LrtTypes, GrtTypes, CurrentIsQueued, grtVars, jitVars
<1> QED BY <1>4, <1>6, <1>7 DEF TInv

LEMMA PostTypes ==
  ASSUME TInv, NEW l \in LRT, Post(l) PROVE TInv'
<1>1. Static!Post(l) /\ UNCHANGED <<lrtVars, grtVars, jitVars, pc, run, toNotify, ran>>
  BY DEF Post, Static!Post, Static!lrtVars, Static!grtVars, lrtVars, grtVars
<1>2. LrtTypes' /\ GrtTypes' /\ CurrentIsQueued'
  BY <1>1 DEF TInv, LrtTypes, GrtTypes, CurrentIsQueued, lrtVars, grtVars, jitVars
<1> QED BY <1>1, <1>2, PostKeepsQueues DEF TInv

(* Steps of the GRT.                                                       *)

(* A step that only moves the GRT on.                                      *)
LEMMA GrtMovesTypes ==
  ASSUME TInv, NEW p \in InGrt \cup {"drain"}, pc' = [pc EXCEPT ![grt] = p], run' \in [LRT -> BOOLEAN],
         UNCHANGED <<queueVars, lrtVars, toNotify, ran, shouldBroadcast>>, GrtTypes'
  PROVE  TInv'
<1>1. LrtTypes' /\ CurrentIsQueued'
  BY DEF TInv, LrtTypes, CurrentIsQueued, lrtVars, InRun, InGrt
<1> QED BY <1>1, SameKeepsQueues DEF TInv

LEMMA GrtMoves ==
  ASSUME TInv, Rounds,
         \/ Iterate \/ Plan \/ RunConfigJobs \/ Resolved
         \/ /\ UNCHANGED jitVars
            /\ \/ Static!RunUntilNoMoreJobs \/ Static!IterateReturns
               \/ Static!Destroy \/ Static!Barrier
  PROVE  TInv'
<1>1. run \in [LRT -> BOOLEAN] /\ [run EXCEPT ![grt] = TRUE] \in [LRT -> BOOLEAN]
  BY DEF TInv, LrtTypes
<1> USE DEF Static!queueVars, Static!lrtVars, Static!grtVars, queueVars, lrtVars, grtVars, jitVars, InGrt
<1>2. CASE Iterate
  <2>1. GrtTypes'
    BY <1>2, ConstantTypes DEF Iterate, TInv, GrtTypes
  <2> QED BY <1>1, <1>2, <2>1, GrtMovesTypes DEF Iterate
<1>3. CASE Plan
  <2>1. planned < NRounds
    BY <1>3 DEF Plan, At, Static!At, Rounds
  <2>2. GrtTypes'
    BY <1>3, <2>1, ConstantTypes DEF Plan, TInv, GrtTypes
  <2>3. PICK p \in {"announce", "send"} : pc' = [pc EXCEPT ![grt] = p]
    BY <1>3 DEF Plan
  <2> QED BY <1>1, <1>3, <2>2, <2>3, GrtMovesTypes DEF Plan
<1>4. CASE RunConfigJobs
  <2>1. GrtTypes'
    BY <1>4 DEF RunConfigJobs, TInv, GrtTypes
  <2> QED BY <1>1, <1>4, <2>1, GrtMovesTypes DEF RunConfigJobs
<1>5. CASE Resolved
  <2>1. GrtTypes'
    BY <1>5 DEF Resolved, TInv, GrtTypes
  <2> QED BY <1>1, <1>5, <2>1, GrtMovesTypes DEF Resolved
<1>6. CASE Static!RunUntilNoMoreJobs /\ UNCHANGED jitVars
  <2>1. GrtTypes'
    BY <1>6, ConstantTypes DEF Static!RunUntilNoMoreJobs, TInv, GrtTypes
  <2> QED BY <1>1, <1>6, <2>1, GrtMovesTypes DEF Static!RunUntilNoMoreJobs
<1>7. CASE Static!IterateReturns /\ UNCHANGED jitVars
  <2>1. GrtTypes'
    BY <1>7 DEF Static!IterateReturns, TInv, GrtTypes
  <2> QED BY <1>1, <1>7, <2>1, GrtMovesTypes DEF Static!IterateReturns
<1>8. CASE (Static!Destroy \/ Static!Barrier) /\ UNCHANGED jitVars
  <2>1. GrtTypes'
    BY <1>8 DEF Static!Destroy, Static!Barrier, TInv, GrtTypes
  <2>2. PICK p \in {"stop", "done"} : pc' = [pc EXCEPT ![grt] = p]
    BY <1>8 DEF Static!Destroy, Static!Barrier
  <2> QED BY <1>1, <1>8, <2>1, <2>2, GrtMovesTypes DEF Static!Destroy, Static!Barrier
<1> QED BY <1>2, <1>3, <1>4, <1>5, <1>6, <1>7, <1>8

(* A step in which the GRT pushes a message, or none where it would be the *)
(* receiver.                                                               *)
LEMMA GrtPushes ==
  ASSUME TInv, unposted[grt] = -1,
         \/ UNCHANGED queueVars
         \/ \E q \in Queues : \E m \in Messages : Static!Push(grt, q, m),
         pc' = pc \/ pc' = [pc EXCEPT ![grt] = "send"],
         UNCHANGED <<lrtVars, run, toNotify, ran, shouldBroadcast>>, GrtTypes'
  PROVE  TInv'
<1>1. QueueTypes' /\ CreditsMatch'
  BY ConstantTypes, PushKeepsQueues, SameKeepsQueues DEF TInv
<1>2. LrtTypes' /\ CurrentIsQueued'
  BY DEF TInv, LrtTypes, CurrentIsQueued, lrtVars, InGrt
<1> QED BY <1>1, <1>2 DEF TInv

LEMMA ActivatedAreLrts == Cardinality(Activated) \in Nat /\ Cardinality(Activated) <= nLrt
<1>1. IsFiniteSet(LRT) /\ Cardinality(LRT) = nLrt
  BY PlatformAssumption, FS_Interval DEF LRT
<1>2. Activated \subseteq LRT
  BY PlatformAssumption
<1> QED BY <1>1, <1>2, FS_Subset, FS_CardinalityType

LEMMA SendingTypes ==
  ASSUME TInv,
         \/ Announce \/ SendJob
         \/ UNCHANGED jitVars /\ (Static!SendEndNotification \/ Static!SendStop)
  PROVE  TInv'
<1> USE DEF Static!queueVars, Static!lrtVars, Static!grtVars, queueVars, lrtVars, grtVars, jitVars
<1>1. sentTo \in 0..nLrt /\ nLrt \in Nat
  BY ConstantTypes DEF TInv, GrtTypes
<1>2. CASE Announce
  <2>1. unposted[grt] = -1 /\ UNCHANGED <<lrtVars, run, toNotify, ran, shouldBroadcast>>
    BY <1>2 DEF Announce, At, Static!At
  <2>2. pc' = pc \/ pc' = [pc EXCEPT ![grt] = "send"]
    BY <1>2 DEF Announce
  <2>3. GrtTypes'
    BY <1>1, <1>2, ActivatedAreLrts DEF Announce, TInv, GrtTypes
  <2>4. \/ UNCHANGED queueVars
        \/ \E q \in Queues : \E m \in Messages : Static!Push(grt, q, m)
    <3>1. \/ UNCHANGED queueVars
          \/ Static!Push(grt, sentTo, Static!Message("JOB_DELAY_BROADCAST_JOBSTAMP", grt, -1))
      BY <1>2 DEF Announce
    <3> QED BY <1>1, <3>1, ConstantTypes, MessageTypes DEF Queues
  <2> QED BY <2>1, <2>2, <2>3, <2>4, GrtPushes
<1>3. CASE SendJob
  <2>1. /\ unposted[grt] = -1 /\ nSentJobs < NJobs
        /\ Static!Push(grt, mappedPE[nSentJobs + 1], Static!Message("JOB_ADD", grt, nSentJobs + 1))
        /\ nSentJobs' = nSentJobs + 1
        /\ UNCHANGED <<lrtVars, sentTo, nFinishedPE, iteration, pc, run, toNotify, ran>>
        /\ UNCHANGED <<shouldBroadcast, planned, resolved>>
        /\ curNParam' = curNParam \/ curNParam' = curNParam + 1
    <3>1. curNParam \in Nat
      BY DEF TInv, GrtTypes
    <3> QED BY <1>3, <3>1 DEF SendJob, Static!SendJob, Static!At
  <2>2. nSentJobs \in 0..NJobs /\ NJobs \in Nat
    BY ConstantTypes DEF TInv, GrtTypes
  <2>3. nSentJobs + 1 \in Jobs
    BY <2>1, <2>2 DEF Jobs
  <2>4. GrtTypes'
    BY <2>1, <2>2 DEF TInv, GrtTypes
  <2>5. \E q \in Queues : \E m \in Messages : Static!Push(grt, q, m)
    <3>1. mappedPE[nSentJobs + 1] \in Queues
      BY <2>3, ConstantTypes
    <3>2. Static!Message("JOB_ADD", grt, nSentJobs + 1) \in Messages
      BY <2>3, ConstantTypes, MessageTypes
    <3> QED BY <2>1, <3>1, <3>2
  <2> QED BY <2>1, <2>4, <2>5, GrtPushes
<1>4. CASE UNCHANGED jitVars /\ Static!SendEndNotification
  <2>1. /\ unposted[grt] = -1 /\ sentTo < nLrt
        /\ Static!Push(grt, sentTo, Static!Message("LRT_END_ITERATION", grt, nJobPerPE[sentTo] - 1))
        /\ sentTo' = sentTo + 1
        /\ UNCHANGED <<lrtVars, nSentJobs, nFinishedPE, iteration, pc, run, toNotify, ran>>
    BY <1>4 DEF Static!SendEndNotification, Static!At
  <2>2. GrtTypes'
    BY <1>1, <1>4, <2>1 DEF TInv, GrtTypes
  <2>3. \E q \in Queues : \E m \in Messages : Static!Push(grt, q, m)
    <3>1. sentTo \in Queues /\ sentTo \in LRT
      BY <1>1, <2>1 DEF Queues, LRT
    <3>2. Static!Message("LRT_END_ITERATION", grt, nJobPerPE[sentTo] - 1) \in Messages
      BY <3>1, ConstantTypes, MessageTypes
    <3> QED BY <2>1, <3>1, <3>2
  <2> QED BY <1>4, <2>1, <2>2, <2>3, GrtPushes
<1>5. CASE UNCHANGED jitVars /\ Static!SendStop
  <2>1. /\ unposted[grt] = -1 /\ sentTo < nLrt
        /\ \/ UNCHANGED queueVars
           \/ Static!Push(grt, sentTo, Static!Message("LRT_STOP", grt, -1))
        /\ sentTo' = sentTo + 1
        /\ UNCHANGED <<lrtVars, nSentJobs, nFinishedPE, iteration, pc, run, toNotify, ran>>
    BY <1>5 DEF Static!SendStop, Static!At
  <2>2. GrtTypes'
    BY <1>1, <1>5, <2>1 DEF TInv, GrtTypes
  <2>3. \/ UNCHANGED queueVars
        \/ \E q \in Queues : \E m \in Messages : Static!Push(grt, q, m)
    <3>1. sentTo \in Queues
      BY <1>1, <2>1 DEF Queues
    <3>2. Static!Message("LRT_STOP", grt, -1) \in Messages
      BY ConstantTypes, MessageTypes
    <3> QED BY <2>1, <3>1, <3>2
  <2> QED BY <1>5, <2>1, <2>2, <2>3, GrtPushes
<1> QED BY <1>2, <1>3, <1>4, <1>5

(* The GRT reads its queue: a message is taken, or goes back to the end.   *)
LEMMA GrtReads ==
  ASSUME TInv, unposted[grt] = -1, credits[nLrt] > 0,
         \/ /\ notifQueue' = [notifQueue EXCEPT ![nLrt] = Tail(@)]
            /\ credits' = [credits EXCEPT ![nLrt] = @ - 1] /\ UNCHANGED unposted
         \/ /\ notifQueue' = [notifQueue EXCEPT ![nLrt] = Append(Tail(@), Head(@))]
            /\ \/ UNCHANGED <<credits, unposted>>
               \/ /\ credits' = [credits EXCEPT ![nLrt] = @ - 1]
                  /\ unposted' = [unposted EXCEPT ![grt] = nLrt],
         UNCHANGED <<lrtVars, pc, run, toNotify, ran, shouldBroadcast>>, GrtTypes'
  PROVE  TInv'
<1>1. QueueTypes' /\ CreditsMatch'
  BY ConstantTypes, TakeKeepsQueues, RotateKeepsQueues DEF TInv
<1>2. LrtTypes' /\ CurrentIsQueued'
  BY DEF TInv, LrtTypes, CurrentIsQueued, lrtVars
<1> QED BY <1>1, <1>2 DEF TInv

LEMMA ReadingTypes ==
  ASSUME TInv,
         \/ ResolveParams
         \/ UNCHANGED jitVars /\ (Static!ReceiveFinished \/ Static!PushBackTrace)
  PROVE  TInv'
<1> USE DEF Static!queueVars, Static!lrtVars, Static!grtVars, queueVars, lrtVars, grtVars, jitVars
<1>1. CASE ResolveParams
  <2>1. /\ unposted[grt] = -1 /\ credits[nLrt] > 0 /\ curNParam > 0
        /\ \/ /\ notifQueue' = [notifQueue EXCEPT ![nLrt] = Tail(@)]
              /\ credits' = [credits EXCEPT ![nLrt] = @ - 1] /\ UNCHANGED unposted
           \/ /\ notifQueue' = [notifQueue EXCEPT ![nLrt] = Append(Tail(@), Head(@))]
              /\ \/ UNCHANGED <<credits, unposted>>
                 \/ /\ credits' = [credits EXCEPT ![nLrt] = @ - 1]
                    /\ unposted' = [unposted EXCEPT ![grt] = nLrt]
        /\ curNParam' = curNParam \/ curNParam' = curNParam - 1
        /\ UNCHANGED <<lrtVars, grtVars, pc, run, toNotify, ran, shouldBroadcast, planned>>
    BY <1>1 DEF ResolveParams, At, Static!At
  <2>2. GrtTypes'
    BY <2>1 DEF TInv, GrtTypes
  <2> QED BY <2>1, <2>2, GrtReads
<1>2. CASE UNCHANGED jitVars /\ Static!ReceiveFinished
  <2>1. GrtTypes'
    BY <1>2 DEF Static!ReceiveFinished, TInv, GrtTypes
  <2> QED BY <1>2, <2>1, GrtReads DEF Static!ReceiveFinished, Static!At
<1>3. CASE UNCHANGED jitVars /\ Static!PushBackTrace
  <2>1. GrtTypes'
    BY <1>3 DEF Static!PushBackTrace, TInv, GrtTypes
  <2> QED BY <1>3, <2>1, GrtReads DEF Static!PushBackTrace, Static!At
<1> QED BY <1>1, <1>2, <1>3

LEMMA StepTypes == TInv /\ Rounds /\ [Next]_vars => TInv'
<1> SUFFICES ASSUME TInv, Rounds, [Next]_vars PROVE TInv'
  OBVIOUS
<1>1. ASSUME NEW l \in LRT, Run(l) PROVE TInv'
  BY <1>1, HandlingTypes, BroadcastRequestTypes, NotifyTypes, SendParamTypes, PassTypes,
     BroadcastedTypes, ExitTypes, StartTypes, FinishTypes DEF Run
<1>2. ASSUME NEW l \in LRT, Post(l) PROVE TInv'
  BY <1>2, PostTypes
<1>3. CASE Iterate \/ GrtIterates \/ Stop
  BY <1>3, GrtMoves, SendingTypes, ReadingTypes
  DEF GrtIterates, FinishSchedule, EndIteration, Stop, Static!GrtStops
<1>4. CASE Terminated \/ UNCHANGED vars
  <2>1. UNCHANGED <<queueVars, lrtVars, grtVars, pc, run, toNotify, ran, jitVars>>
    BY <1>4 DEF Terminated, vars
  <2>2. LrtTypes' /\ GrtTypes' /\ CurrentIsQueued'
    BY <2>1 DEF TInv, LrtTypes, GrtTypes, CurrentIsQueued, lrtVars, grtVars, jitVars
  <2> QED BY <2>1, <2>2, SameKeepsQueues DEF TInv
<1> QED BY <1>1, <1>2, <1>3, <1>4 DEF Next

-----------------------------------------------------------------------------
(* Queues and the messages that carry a configuration job.                 *)

LEMMA AppendCarries ==
  ASSUME NEW q \in Seq(Messages), NEW m \in Messages, NEW j
  PROVE  /\ Carried(Append(q, m), j) <=> Carried(q, j) \/ Carries(m, j)
         /\ CarriedOnce(q, j) /\ ~(Carried(q, j) /\ Carries(m, j)) => CarriedOnce(Append(q, m), j)
<1>1. PICK n \in Nat : n = Len(q) /\ DOMAIN q = 1..n
  BY LenProperties
<1>2. PICK a : a = Append(q, m)
  OBVIOUS
<1>3. /\ DOMAIN a = 1..(n + 1) /\ a[n + 1] = m
      /\ \A k \in 1..n : a[k] = q[k]
  BY <1>1, <1>2, AppendProperties, LenProperties
<1>4. \A k \in 1..(n + 1) : k \in 1..n \/ k = n + 1
  BY <1>1
<1>5. \A k \in 1..n : k \in 1..(n + 1)
  BY <1>1
<1>6. n + 1 \in 1..(n + 1)
  BY <1>1
<1>7. Carried(a, j) <=> Carried(q, j) \/ Carries(m, j)
  BY <1>1, <1>3, <1>4, <1>5, <1>6 DEF Carried
<1>8. ASSUME CarriedOnce(q, j), ~(Carried(q, j) /\ Carries(m, j)) PROVE CarriedOnce(a, j)
  <2> SUFFICES ASSUME NEW k \in 1..(n + 1), NEW i \in 1..(n + 1), Carries(a[k], j), Carries(a[i], j)
               PROVE  k = i
    BY <1>3 DEF CarriedOnce
  <2>1. CASE k \in 1..n /\ i \in 1..n
    BY <1>1, <1>3, <1>8, <2>1 DEF CarriedOnce
  <2>2. CASE k \in 1..n /\ i = n + 1
    BY <1>1, <1>3, <1>8, <2>2 DEF Carried
  <2>3. CASE k = n + 1 /\ i \in 1..n
    BY <1>1, <1>3, <1>8, <2>3 DEF Carried
  <2>4. CASE k = n + 1 /\ i = n + 1
    BY <2>4
  <2> QED BY <1>4, <2>1, <2>2, <2>3, <2>4
<1> QED BY <1>2, <1>7, <1>8

LEMMA TailCarries ==
  ASSUME NEW q \in Seq(Messages), q # <<>>, NEW j
  PROVE  /\ Carried(Tail(q), j) => Carried(q, j)
         /\ Carries(Head(q), j) => Carried(q, j)
         /\ CarriedOnce(q, j) => CarriedOnce(Tail(q), j)
         /\ CarriedOnce(q, j) => ~(Carried(Tail(q), j) /\ Carries(Head(q), j))
<1>1. PICK n \in Nat : n = Len(q) /\ DOMAIN q = 1..n /\ n # 0
  BY LenProperties, EmptySeq
<1>2. PICK t : t = Tail(q)
  OBVIOUS
<1>3. /\ DOMAIN t = 1..(n - 1)
      /\ \A k \in 1..(n - 1) : t[k] = q[k + 1]
  BY <1>1, <1>2, HeadTailProperties, LenProperties
<1>4. Head(q) = q[1] /\ 1 \in DOMAIN q
  BY <1>1
<1>5. \A k \in 1..(n - 1) : k + 1 \in 1..n /\ k + 1 # 1
  BY <1>1
<1>6. Carried(t, j) => Carried(q, j)
  BY <1>1, <1>3, <1>5 DEF Carried
<1>7. CarriedOnce(q, j) => CarriedOnce(t, j)
  <2> SUFFICES ASSUME CarriedOnce(q, j), NEW k \in 1..(n - 1), NEW i \in 1..(n - 1),
                      Carries(t[k], j), Carries(t[i], j)
               PROVE  k = i
    BY <1>3 DEF CarriedOnce
  <2>1. k + 1 = i + 1
    BY <1>1, <1>3, <1>5 DEF CarriedOnce
  <2> QED BY <1>1, <2>1
<1>8. CarriedOnce(q, j) => ~(Carried(t, j) /\ Carries(Head(q), j))
  <2> SUFFICES ASSUME CarriedOnce(q, j), Carries(q[1], j), NEW k \in 1..(n - 1), Carries(t[k], j)
               PROVE  FALSE
    BY <1>3, <1>4 DEF Carried
  <2>1. k + 1 = 1
    BY <1>1, <1>3, <1>4, <1>5 DEF CarriedOnce
  <2> QED BY <1>1, <2>1
<1> QED BY <1>2, <1>4, <1>6, <1>7, <1>8 DEF Carried

LEMMA RotateCarries ==
  ASSUME NEW q \in Seq(Messages), q # <<>>, NEW j
  PROVE  /\ Carried(Append(Tail(q), Head(q)), j) => Carried(q, j)
         /\ CarriedOnce(q, j) => CarriedOnce(Append(Tail(q), Head(q)), j)
<1>1. Tail(q) \in Seq(Messages) /\ Head(q) \in Messages
  BY HeadTailProperties
<1> QED BY <1>1, AppendCarries, TailCarries

(* What a job that is in one place may become: nothing new carries it, and *)
(* no new LRT has it in its queue.                                         *)
LEMMA KeptInOnePlace ==
  ASSUME NEW j, InOnePlace(j), NoNewMessage(j), NoNewPending(j),
         j \in Sent \ resolved => j \in Sent' \ resolved'
  PROVE  InOnePlace(j)'
<1>1. \A q \in Queues : CarriedOnce(notifQueue'[q], j)
  BY DEF InOnePlace, NoNewMessage
<1>2. \A l \in LRT : PendingOnce(l, j)' /\ (Pending(l, j)' => Pending(l, j))
  BY DEF InOnePlace, PendingOnce, Pending, NoNewPending
<1>3. Messengers(j)' \subseteq Messengers(j) /\ Executors(j)' \subseteq Executors(j)
  BY <1>2 DEF Messengers, Executors, NoNewMessage
<1> QED BY <1>1, <1>2, <1>3 DEF InOnePlace

LEMMA PushAddsNone ==
  ASSUME QueueTypes, NEW l \in LRT, NEW q \in Queues, NEW m \in Messages, NEW j,
         Static!Push(l, q, m), ~Carries(m, j)
  PROVE  NoNewMessage(j)
<1>1. notifQueue' = [notifQueue EXCEPT ![q] = Append(@, m)]
  BY DEF Static!Push
<1>2. notifQueue'[q] = Append(notifQueue[q], m) /\ notifQueue[q] \in Seq(Messages)
      /\ \A r \in Queues : r # q => notifQueue'[r] = notifQueue[r]
  BY <1>1 DEF QueueTypes
<1>3. /\ Carried(notifQueue'[q], j) => Carried(notifQueue[q], j)
      /\ CarriedOnce(notifQueue[q], j) => CarriedOnce(notifQueue'[q], j)
  BY <1>2, AppendCarries
<1> QED BY <1>2, <1>3 DEF NoNewMessage

LEMMA TakeAddsNone ==
  ASSUME QueueTypes, CreditsMatch, NEW q \in Queues, credits[q] > 0, NEW j,
         \/ notifQueue' = [notifQueue EXCEPT ![q] = Tail(@)]
         \/ notifQueue' = [notifQueue EXCEPT ![q] = Append(Tail(@), Head(@))]
  PROVE  NoNewMessage(j)
<1>1. notifQueue[q] \in Seq(Messages) /\ notifQueue[q] # <<>>
  BY CreditMeansItem
<1>2. /\ notifQueue'[q] = Tail(notifQueue[q]) \/ notifQueue'[q] = Append(Tail(notifQueue[q]), Head(notifQueue[q]))
      /\ \A r \in Queues : r # q => notifQueue'[r] = notifQueue[r]
  BY DEF QueueTypes
<1>3. /\ Carried(notifQueue'[q], j) => Carried(notifQueue[q], j)
      /\ CarriedOnce(notifQueue[q], j) => CarriedOnce(notifQueue'[q], j)
  BY <1>1, <1>2, TailCarries, RotateCarries
<1> QED BY <1>2, <1>3 DEF NoNewMessage

LEMMA SameAddsNone ==
  ASSUME NEW j, notifQueue' = notifQueue PROVE NoNewMessage(j)
  BY DEF NoNewMessage

(* A thread that goes on elsewhere than into a job makes none pending.     *)
LEMMA MovingAddsNone ==
  ASSUME LrtTypes, NEW j, NEW l \in LRT, NEW p,
         pc' = [pc EXCEPT ![l] = p],
         p \notin {"exec", "notify"} \/ pc[l] \in {"exec", "notify"},
         \/ UNCHANGED <<jobQueue, jobQueueIndex>>
         \/ jobQueue' = [jobQueue EXCEPT ![l] = <<>>] /\ jobQueueIndex' = [jobQueueIndex EXCEPT ![l] = 0]
  PROVE  NoNewPending(j)
<1> SUFFICES ASSUME NEW k \in LRT, NEW i \in Nat, IsPending(k, j, i)'
             PROVE  IsPending(k, j, i)
  BY DEF NoNewPending
<1>1. pc'[k] \in {"exec", "notify"} => pc[k] \in {"exec", "notify"}
  BY DEF LrtTypes
<1>2. CASE UNCHANGED <<jobQueue, jobQueueIndex>>
  BY <1>1, <1>2 DEF IsPending
<1>3. CASE /\ jobQueue' = [jobQueue EXCEPT ![l] = <<>>]
           /\ jobQueueIndex' = [jobQueueIndex EXCEPT ![l] = 0]
  <2>1. k # l
    BY <1>3 DEF IsPending, LrtTypes
  <2> QED BY <1>1, <1>3, <2>1 DEF IsPending, LrtTypes
<1> QED BY <1>2, <1>3

-----------------------------------------------------------------------------
(* Each configuration job stays in one place: the steps of an LRT.         *)

Places == \A j \in Config : InOnePlace(j)

LEMMA KeptPlaces ==
  ASSUME Places, \A j \in Config : NoNewMessage(j) /\ NoNewPending(j),
         Sent' \ resolved' = Sent \ resolved
  PROVE  Places'
  BY KeptInOnePlace DEF Places

LEMMA SameSent == UNCHANGED <<nSentJobs, resolved>> => Sent' \ resolved' = Sent \ resolved
  BY DEF Sent

(* A message of these kinds carries no configuration job.                  *)
LEMMA CarriesNone ==
  \A s, l, x, j : s \notin {"JOB_ADD", "JOB_SENT_PARAM"} => ~Carries(Static!Message(s, l, x), j)
  BY DEF Carries, Static!Message

LEMMA PopPlaces ==
  ASSUME TInv, Places, NEW l \in LRT, NEW s, Static!Pop(l, s),
         UNCHANGED <<jobQueue, jobQueueIndex, nSentJobs, resolved>>
  PROVE  Places'
<1>1. /\ l \in Queues /\ credits[l] > 0 /\ notifQueue' = [notifQueue EXCEPT ![l] = Tail(@)]
      /\ pc' = [pc EXCEPT ![l] = "drain"]
  BY PopTypes
<1>2. ASSUME NEW j PROVE NoNewMessage(j) /\ NoNewPending(j)
  BY <1>1, TakeAddsNone, MovingAddsNone DEF TInv
<1> QED BY <1>2, KeptPlaces, SameSent

LEMMA JobAddPlaces ==
  ASSUME TInv, Places, NEW l \in LRT, Static!HandleJobAdd(l), UNCHANGED jitVars
  PROVE  Places'
<1>1. PICK i : i = Head(notifQueue[l]).index
  OBVIOUS
<1>2. PICK q : q = notifQueue[l]
  OBVIOUS
<1>3. /\ Static!Pop(l, "JOB_ADD") /\ jobQueue' = [jobQueue EXCEPT ![l] = Append(@, i)]
      /\ jobQueueIndex' = jobQueueIndex
  BY <1>1 DEF Static!HandleJobAdd
<1>4. /\ l \in Queues /\ credits[l] > 0 /\ notifQueue' = [notifQueue EXCEPT ![l] = Tail(@)]
      /\ pc' = [pc EXCEPT ![l] = "drain"] /\ pc[l] \in {"wait", "drain"}
      /\ Head(q).subType = "JOB_ADD" /\ i \in Jobs /\ UNCHANGED grtVars
  BY <1>1, <1>2, <1>3, PopTypes DEF JobKinds
<1>5. q \in Seq(Messages) /\ q # <<>> /\ Carries(Head(q), i)
  BY <1>1, <1>2, <1>4, CreditMeansItem DEF TInv, Carries
<1>6. Sent' \ resolved' = Sent \ resolved
  BY <1>4, SameSent DEF jitVars, grtVars
<1>7. PICK n \in Nat : /\ n = Len(jobQueue[l]) /\ DOMAIN jobQueue[l] = 1..n
                       /\ DOMAIN jobQueue'[l] = 1..(n + 1) /\ jobQueue'[l][n + 1] = i
                       /\ \A k \in 1..n : jobQueue'[l][k] = jobQueue[l][k]
  <2>1. jobQueue[l] \in Seq(Jobs) /\ jobQueue'[l] = Append(jobQueue[l], i)
    BY <1>3 DEF TInv, LrtTypes
  <2> QED BY <1>4, <2>1, AppendProperties, LenProperties
<1>8. \A k \in 1..(n + 1) : k \in 1..n \/ k = n + 1
  BY <1>7
<1>9. \A j : \A k \in LRT : \A x \in Nat :
        IsPending(k, j, x)' => IsPending(k, j, x) \/ (k = l /\ j = i /\ x = n + 1)
  <2> SUFFICES ASSUME NEW j, NEW k \in LRT, NEW x \in Nat, IsPending(k, j, x)'
               PROVE  IsPending(k, j, x) \/ (k = l /\ j = i /\ x = n + 1)
    OBVIOUS
  <2>1. CASE k # l
    BY <1>3, <1>4, <2>1 DEF IsPending, TInv, LrtTypes
  <2>2. CASE k = l
    <3>1. /\ x \in 1..(n + 1) /\ jobQueue'[l][x] = j /\ x > jobQueueIndex[l]
      BY <1>3, <1>4, <1>7, <2>2 DEF IsPending, TInv, LrtTypes
    <3>2. CASE x \in 1..n
      BY <1>7, <2>2, <3>1, <3>2 DEF IsPending
    <3>3. CASE x = n + 1
      BY <1>7, <2>2, <3>1, <3>3
    <3> QED BY <1>8, <3>1, <3>2, <3>3
  <2> QED BY <2>1, <2>2
<1>10. ASSUME NEW j \in Config PROVE InOnePlace(j)'
  <2>1. NoNewMessage(j)
    BY <1>4, TakeAddsNone DEF TInv
  <2>2. InOnePlace(j)
    BY DEF Places
  <2>3. CASE j # i
    <3>1. NoNewPending(j)
      BY <1>9, <2>3 DEF NoNewPending
    <3> QED BY <1>6, <2>1, <2>2, <3>1, KeptInOnePlace
  <2>4. CASE j = i
    <3>1. CarriedOnce(q, j)
      BY <1>2, <1>4, <2>2 DEF InOnePlace
    <3>2. Carried(q, j) /\ ~Carried(Tail(q), j)
      BY <1>5, <2>4, <3>1, TailCarries
    <3>3. l \in Messengers(j)
      BY <1>2, <1>4, <3>2 DEF Messengers
    <3>4. Messengers(j) = {l} /\ Executors(j) = {} /\ j \in Sent \ resolved
      BY <2>2, <3>3 DEF InOnePlace
    <3>5. \A r \in Queues : ~Carried(notifQueue'[r], j)
      <4>1. notifQueue'[l] = Tail(q)
        BY <1>2, <1>4 DEF TInv, QueueTypes
      <4>2. \A r \in Queues : r # l => ~Carried(notifQueue[r], j)
        BY <3>4 DEF Messengers
      <4> QED BY <2>1, <3>2, <4>1, <4>2 DEF NoNewMessage
    <3>6. Messengers(j)' = {}
      BY <3>5 DEF Messengers
    <3>7. \A k \in LRT : \A x \in Nat : IsPending(k, j, x)' => k = l /\ x = n + 1
      <4>1. \A k \in LRT : \A x \in Nat : ~IsPending(k, j, x)
        BY <3>4 DEF Executors, Pending
      <4> QED BY <1>9, <4>1
    <3>8. \A k \in LRT : PendingOnce(k, j)' /\ (Pending(k, j)' => k = l)
      BY <3>7 DEF PendingOnce, Pending
    <3>9. \A r \in Queues : CarriedOnce(notifQueue'[r], j)
      BY <2>1, <2>2 DEF NoNewMessage, InOnePlace
    <3>10. Executors(j)' \subseteq {l}
      BY <3>8 DEF Executors
    <3> QED BY <1>6, <3>4, <3>6, <3>8, <3>9, <3>10 DEF InOnePlace
  <2> QED BY <2>3, <2>4
<1> QED BY <1>10 DEF Places

LEMMA SendParamPlaces ==
  ASSUME TInv, Places, NEW l \in LRT, SendParam(l)
  PROVE  Places'
<1>1. PICK i : i = Static!CurrentJob(l)
  OBVIOUS
<1>2. PICK m : m = Static!Message("JOB_SENT_PARAM", l, i)
  OBVIOUS
<1>3. /\ pc[l] = "notify" /\ i \in Config /\ Static!Push(l, nLrt, m)
      /\ pc' = [pc EXCEPT ![l] = "endpass"]
      /\ UNCHANGED <<jobQueue, jobQueueIndex, nSentJobs, resolved>>
  BY <1>1, <1>2 DEF SendParam, At, Static!At, lrtVars, grtVars, jitVars
<1>4. m \in Messages /\ nLrt \in Queues /\ notifQueue[nLrt] \in Seq(Messages)
  BY <1>2, <1>3, MessageTypes, ConstantTypes DEF TInv, QueueTypes
<1>5. Sent' \ resolved' = Sent \ resolved
  BY <1>3, SameSent
<1>6. \A j : NoNewPending(j)
  BY <1>3, MovingAddsNone DEF TInv
<1>7. ASSUME NEW j \in Config PROVE InOnePlace(j)'
  <2>1. InOnePlace(j)
    BY DEF Places
  <2>2. CASE j # i
    <3>1. ~Carries(m, j)
      BY <1>2, <2>2 DEF Carries, Static!Message
    <3>2. NoNewMessage(j)
      BY <1>3, <1>4, <3>1, PushAddsNone DEF TInv
    <3> QED BY <1>5, <1>6, <2>1, <3>2, KeptInOnePlace
  <2>3. CASE j = i
    <3>1. PICK k \in Nat : k = jobQueueIndex[l] /\ k \in DOMAIN jobQueue[l] /\ jobQueue[l][k] = j
      BY <1>1, <1>3, <2>3, CurrentJobType DEF TInv, LrtTypes, CurrentIsQueued
    <3>2. IsPending(l, j, k)
      BY <1>3, <3>1 DEF IsPending
    <3>3. l \in Executors(j)
      BY <3>2 DEF Executors, Pending
    <3>4. Executors(j) = {l} /\ Messengers(j) = {} /\ j \in Sent \ resolved
      BY <2>1, <3>3 DEF InOnePlace
    <3>5. \A x \in Nat : ~IsPending(l, j, x)'
      <4> SUFFICES ASSUME NEW x \in Nat, IsPending(l, j, x)' PROVE FALSE
        OBVIOUS
      <4>1. IsPending(l, j, x)
        BY <1>6 DEF NoNewPending
      <4>2. x = k
        BY <2>1, <3>2, <4>1 DEF InOnePlace, PendingOnce
      <4>3. pc'[l] = "endpass" /\ jobQueueIndex'[l] = k
        BY <1>3, <3>1 DEF TInv, LrtTypes
      <4> QED BY <4>2, <4>3 DEF IsPending
    <3>6. \A r \in LRT : ~Pending(r, j)'
      <4>1. \A r \in LRT : r # l => ~Pending(r, j)
        BY <3>4 DEF Executors
      <4> QED BY <1>6, <3>5, <4>1 DEF Pending, NoNewPending
    <3>7. Executors(j)' = {}
      BY <3>6 DEF Executors
    <3>8. \A r \in LRT : PendingOnce(r, j)'
      BY <1>6, <2>1 DEF InOnePlace, PendingOnce, NoNewPending
    <3>9. notifQueue'[nLrt] = Append(notifQueue[nLrt], m)
          /\ \A r \in Queues : r # nLrt => notifQueue'[r] = notifQueue[r]
      BY <1>3, <1>4 DEF Static!Push, TInv, QueueTypes
    <3>10. \A r \in Queues : ~Carried(notifQueue[r], j) /\ CarriedOnce(notifQueue[r], j)
      BY <2>1, <3>4 DEF Messengers, InOnePlace
    <3>11. CarriedOnce(notifQueue'[nLrt], j)
      BY <1>4, <3>9, <3>10, AppendCarries
    <3>12. Messengers(j)' \subseteq {nLrt} /\ \A r \in Queues : CarriedOnce(notifQueue'[r], j)
      BY <3>9, <3>10, <3>11 DEF Messengers
    <3> QED BY <1>5, <3>4, <3>7, <3>8, <3>12 DEF InOnePlace
  <2> QED BY <2>2, <2>3
<1> QED BY <1>7 DEF Places

LEMMA FinishPlaces ==
  ASSUME TInv, Places, NEW l \in LRT, Static!FinishJob(l), UNCHANGED jitVars
  PROVE  Places'
<1>1. PICK i : i = Static!CurrentJob(l)
  OBVIOUS
<1>2. /\ pc[l] = "exec" /\ pc' = [pc EXCEPT ![l] = "notify"]
      /\ \/ Static!Push(l, nLrt, Static!Message("TRACE_LRT", l, i))
         \/ notifQueue' = notifQueue
      /\ UNCHANGED <<jobQueue, jobQueueIndex, nSentJobs, resolved>>
  BY <1>1 DEF Static!FinishJob, Static!At, Static!grtVars, Static!queueVars, jitVars
<1>3. Static!Message("TRACE_LRT", l, i) \in Messages /\ nLrt \in Queues
  BY <1>1, <1>2, CurrentJobType, MessageTypes, ConstantTypes
<1>4. ASSUME NEW j PROVE NoNewMessage(j) /\ NoNewPending(j)
  <2>1. ~Carries(Static!Message("TRACE_LRT", l, i), j)
    BY CarriesNone
  <2> QED BY <1>2, <1>3, <2>1, PushAddsNone, SameAddsNone, MovingAddsNone DEF TInv
<1> QED BY <1>2, <1>4, KeptPlaces, SameSent

LEMMA StartPlaces ==
  ASSUME TInv, Places, NEW l \in LRT, Static!StartJob(l), UNCHANGED jitVars
  PROVE  Places'
<1>1. /\ jobQueueIndex' = [jobQueueIndex EXCEPT ![l] = @ + 1]
      /\ pc' = [pc EXCEPT ![l] = "exec"]
      /\ UNCHANGED <<jobQueue, notifQueue, nSentJobs, resolved>>
  BY DEF Static!StartJob, Static!queueVars, Static!grtVars, jitVars
<1>2. ASSUME NEW j PROVE NoNewPending(j)
  <2> SUFFICES ASSUME NEW k \in LRT, NEW x \in Nat, IsPending(k, j, x)'
               PROVE  IsPending(k, j, x)
    BY DEF NoNewPending
  <2>1. CASE k # l
    BY <1>1, <2>1 DEF IsPending, TInv, LrtTypes
  <2>2. CASE k = l
    <3>1. jobQueueIndex[l] \in Nat /\ jobQueueIndex'[l] = jobQueueIndex[l] + 1
      BY <1>1 DEF TInv, LrtTypes
    <3>2. x >= jobQueueIndex[l] + 1 /\ x \in DOMAIN jobQueue[l] /\ jobQueue[l][x] = j
      BY <1>1, <2>2, <3>1 DEF IsPending
    <3> QED BY <2>2, <3>1, <3>2 DEF IsPending
  <2> QED BY <2>1, <2>2
<1> QED BY <1>1, <1>2, SameAddsNone, KeptPlaces, SameSent

LEMMA NotifyPlaces ==
  ASSUME TInv, Places, NEW l \in LRT, NotifyLRTJobStamp(l)
  PROVE  Places'
<1>1. PICK i \in LRT :
        /\ Static!Push(l, i, Static!Message("JOB_UPDATE_JOBSTAMP", l, jobIx[l]))
        /\ UNCHANGED <<jobQueue, jobQueueIndex, pc, nSentJobs, resolved>>
  BY DEF NotifyLRTJobStamp, TInv, LrtTypes, lrtVars, grtVars, jitVars
<1>2. i \in Queues /\ Static!Message("JOB_UPDATE_JOBSTAMP", l, jobIx[l]) \in Messages
  BY ConstantTypes, MessageTypes DEF TInv, LrtTypes
<1>3. ASSUME NEW j PROVE NoNewMessage(j) /\ NoNewPending(j)
  <2>1. ~Carries(Static!Message("JOB_UPDATE_JOBSTAMP", l, jobIx[l]), j)
    BY CarriesNone
  <2> QED BY <1>1, <1>2, <2>1, PushAddsNone DEF TInv, NoNewPending, IsPending
<1> QED BY <1>1, <1>3, KeptPlaces, SameSent

LEMMA PassPlaces ==
  ASSUME TInv, Places, NEW l \in LRT, PassWithoutJob(l) \/ PassWithJob(l)
  PROVE  Places'
<1>1. PICK resume \in {"wait", "drain"} : EndPass(l, resume)
  BY DEF PassWithoutJob, PassWithJob
<1>2. /\ \/ UNCHANGED queueVars
         \/ Static!Push(l, nLrt, Static!Message("LRT_FINISHED_ITERATION", l, -1))
      /\ \/ UNCHANGED <<jobQueue, jobQueueIndex>>
         \/ jobQueue' = [jobQueue EXCEPT ![l] = <<>>] /\ jobQueueIndex' = [jobQueueIndex EXCEPT ![l] = 0]
      /\ UNCHANGED <<nSentJobs, resolved>>
  BY <1>1, EndPassDoes DEF Static!ResetLrt, Static!ClearJobQueue, lrtVars, grtVars
<1>3. PICK p \in {"wait", "drain", "broadcast", "resolve", "recv"} : pc' = [pc EXCEPT ![l] = p]
  BY <1>1, EndPassDoes
<1>4. nLrt \in Queues /\ Static!Message("LRT_FINISHED_ITERATION", l, -1) \in Messages
  BY ConstantTypes, MessageTypes
<1>5. ASSUME NEW j PROVE NoNewMessage(j) /\ NoNewPending(j)
  <2>1. ~Carries(Static!Message("LRT_FINISHED_ITERATION", l, -1), j)
    BY CarriesNone
  <2>2. NoNewMessage(j)
    BY <1>2, <1>4, <2>1, PushAddsNone, SameAddsNone DEF TInv, queueVars
  <2>3. NoNewPending(j)
    BY <1>2, <1>3, MovingAddsNone DEF TInv
  <2> QED BY <2>2, <2>3
<1> QED BY <1>2, <1>5, KeptPlaces, SameSent

(* Steps that only move a thread on.                                       *)
LEMMA MovingPlaces ==
  ASSUME TInv, Places, NEW l \in LRT, NEW p, p \notin {"exec", "notify"}, pc' = [pc EXCEPT ![l] = p],
         UNCHANGED <<notifQueue, jobQueue, jobQueueIndex>>, Sent' \ resolved' = Sent \ resolved
  PROVE  Places'
<1>1. ASSUME NEW j PROVE NoNewMessage(j) /\ NoNewPending(j)
  BY SameAddsNone, MovingAddsNone DEF TInv
<1> QED BY <1>1, KeptPlaces

LEMMA RunPlaces ==
  ASSUME TInv, Places, NEW l \in LRT, Run(l) \/ Post(l)
  PROVE  Places'
<1> USE DEF Static!queueVars, Static!lrtVars, Static!grtVars, queueVars, lrtVars, grtVars, jitVars
<1>1. CASE HandleDelayBroadcast(l)
  <2>1. Static!Pop(l, "JOB_DELAY_BROADCAST_JOBSTAMP")
        /\ UNCHANGED <<jobQueue, jobQueueIndex, resolved>>
    BY <1>1 DEF HandleDelayBroadcast
  <2> QED BY <2>1, PopTypes, PopPlaces
<1>2. CASE UNCHANGED jitVars /\ Static!HandleNotification(l)
  <2>1. ASSUME NEW s, Static!Pop(l, s), UNCHANGED <<jobQueue, jobQueueIndex, resolved>>
        PROVE  Places'
    BY <2>1, PopTypes, PopPlaces
  <2>2. CASE Static!HandleJobAdd(l)
    BY <1>2, <2>2, JobAddPlaces
  <2>3. CASE Static!HandleUpdateJobStamp(l) \/ Static!HandleEndIteration(l) \/ Static!HandleStop(l)
    BY <1>2, <2>1, <2>3 DEF Static!HandleUpdateJobStamp, Static!HandleEndIteration, Static!HandleStop
  <2> QED BY <1>2, <2>2, <2>3 DEF Static!HandleNotification
<1>3. CASE Broadcasted(l) \/ (UNCHANGED jitVars /\ Static!ExitRun(l))
  <2>1. PICK p \in {"wait", "resolve", "recv", "ended"} : pc' = [pc EXCEPT ![l] = p]
    BY <1>3 DEF Broadcasted, NoMoreJobs, Static!ExitRun
  <2>2. UNCHANGED <<notifQueue, jobQueue, jobQueueIndex, nSentJobs, resolved>>
    BY <1>3 DEF Broadcasted, Static!ExitRun
  <2> QED BY <2>1, <2>2, SameSent, MovingPlaces
<1>4. CASE Post(l)
  <2>1. UNCHANGED <<notifQueue, jobQueue, jobQueueIndex, pc, nSentJobs, resolved>>
    BY <1>4 DEF Post, Static!Post
  <2>2. \A j : NoNewPending(j)
    BY <2>1 DEF NoNewPending, IsPending
  <2> QED BY <2>1, <2>2, SameAddsNone, KeptPlaces, SameSent
<1> QED BY <1>1, <1>2, <1>3, <1>4, PassPlaces, NotifyPlaces, SendParamPlaces, StartPlaces,
           FinishPlaces DEF Run

-----------------------------------------------------------------------------
(* The rounds, and the count of parameters.                                *)

(* What an LRT's step does to what they speak of.                          *)
LEMMA RunMoves ==
  ASSUME TInv, NEW l \in LRT, Run(l) \/ Post(l)
  PROVE  /\ UNCHANGED <<nSentJobs, planned, resolved, curNParam, iteration>>
         /\ \/ pc' = pc
            \/ /\ pc[l] \in InRun
               /\ \E p \in InRun \cup {"resolve", "recv"} :
                    /\ pc' = [pc EXCEPT ![l] = p]
                    /\ p = "resolve" => planned < NRounds
                    /\ p = "recv" => ~(planned < NRounds)
<1> USE DEF Static!grtVars, grtVars, jitVars
<1>1. CASE Post(l) \/ NotifyLRTJobStamp(l)
  BY <1>1 DEF Post, Static!Post, NotifyLRTJobStamp
<1>2. CASE \E s : Static!Pop(l, s) /\ UNCHANGED <<planned, resolved, curNParam>>
  <2>1. pc[l] \in {"wait", "drain"} /\ pc' = [pc EXCEPT ![l] = "drain"] /\ UNCHANGED grtVars
    BY <1>2, PopTypes
  <2> QED BY <1>2, <2>1 DEF InRun
<1>3. CASE HandleDelayBroadcast(l) \/ (UNCHANGED jitVars /\ Static!HandleNotification(l))
  BY <1>2, <1>3 DEF HandleDelayBroadcast, Static!HandleNotification, Static!HandleJobAdd,
     Static!HandleUpdateJobStamp, Static!HandleEndIteration, Static!HandleStop
<1>4. CASE SendParam(l)
  BY <1>4 DEF SendParam, At, Static!At, InRun
<1>5. CASE PassWithoutJob(l) \/ PassWithJob(l)
  <2>1. PICK resume \in {"wait", "drain"} : EndPass(l, resume) /\ pc[l] \in InRun
    BY <1>5 DEF PassWithoutJob, PassWithJob, At, Static!At, Static!Drained, InRun
  <2>2. PICK p \in {"wait", "drain", "broadcast", "resolve", "recv"} :
              /\ pc' = [pc EXCEPT ![l] = p]
              /\ p = "resolve" => planned < NRounds
              /\ p = "recv" => ~(planned < NRounds)
    BY <2>1, EndPassDoes
  <2>3. UNCHANGED <<grtVars, planned, resolved, curNParam>>
    BY <2>1, EndPassDoes
  <2> QED BY <2>1, <2>2, <2>3 DEF InRun
<1>6. CASE Broadcasted(l)
  <2>1. PICK p : p = IF l # grt THEN "wait" ELSE IF planned < NRounds THEN "resolve" ELSE "recv"
    OBVIOUS
  <2>2. /\ p \in InRun \cup {"resolve", "recv"}
        /\ p = "resolve" => planned < NRounds
        /\ p = "recv" => ~(planned < NRounds)
    BY <2>1 DEF InRun
  <2>3. pc[l] \in InRun /\ pc' = [pc EXCEPT ![l] = p]
    BY <1>6, <2>1 DEF Broadcasted, NoMoreJobs, At, Static!At, InRun
  <2>4. UNCHANGED <<nSentJobs, planned, resolved, curNParam, iteration>>
    BY <1>6 DEF Broadcasted
  <2> QED BY <2>2, <2>3, <2>4
<1>7. CASE UNCHANGED jitVars /\ (Static!ExitRun(l) \/ Static!StartJob(l) \/ Static!FinishJob(l))
  BY <1>7 DEF Static!ExitRun, Static!StartJob, Static!FinishJob, Static!Drained, Static!At, InRun
<1>8. \/ HandleDelayBroadcast(l) \/ PassWithoutJob(l) \/ NotifyLRTJobStamp(l)
      \/ SendParam(l) \/ PassWithJob(l) \/ Broadcasted(l) \/ Post(l)
      \/ /\ \/ Static!HandleNotification(l) \/ Static!ExitRun(l)
            \/ Static!StartJob(l) \/ Static!FinishJob(l)
         /\ UNCHANGED jitVars
  BY DEF Run
<1> QED BY <1>1, <1>3, <1>4, <1>5, <1>6, <1>7, <1>8, Zenon

LEMMA RunRounds ==
  ASSUME TInv, Rounds, ParametersCounted, NEW l \in LRT, Run(l) \/ Post(l)
  PROVE  Rounds' /\ ParametersCounted'
<1>1. UNCHANGED <<nSentJobs, planned, resolved, curNParam>>
  BY RunMoves
<1>2. ParametersCounted'
  BY <1>1 DEF ParametersCounted, Sent
<1>5. planned \in 0..NRounds /\ NRounds \in Nat
  BY ConstantTypes DEF TInv, GrtTypes
<1>6. CASE pc'[grt] = pc[grt]
  BY <1>1, <1>2, <1>6 DEF Rounds, SentUpTo
<1>7. CASE pc'[grt] # pc[grt]
  <2>1. PICK p \in InRun \cup {"resolve", "recv"} :
           /\ pc[l] \in InRun /\ pc' = [pc EXCEPT ![l] = p]
           /\ p = "resolve" => planned < NRounds
           /\ p = "recv" => ~(planned < NRounds)
    BY <1>7, RunMoves
  <2>2. l = grt /\ pc'[grt] = p
    BY <1>7, <2>1 DEF TInv, LrtTypes
  <2>3. pc[grt] \in InRun
    BY <2>1, <2>2
  <2>4. p = "recv" => planned = NRounds
    BY <1>5, <2>1
  <2>5. \/ pc'[grt] \in InRun
        \/ pc'[grt] = "resolve" /\ planned < NRounds
        \/ pc'[grt] = "recv" /\ planned = NRounds
    BY <2>1, <2>2, <2>4
  <2> QED BY <1>1, <1>2, <2>3, <2>5 DEF Rounds, InRun, SentUpTo
<1> QED BY <1>2, <1>6, <1>7

LEMMA SentIsFinite ==
  /\ IsFiniteSet(Config) /\ Sent \subseteq Config
  /\ \A S \in SUBSET Config : IsFiniteSet(S) /\ Cardinality(S) \in Nat
<1>1. IsFiniteSet(Config)
  <2>1. IsFiniteSet(Jobs)
    BY ConstantTypes, FS_Interval DEF Jobs
  <2> QED BY <2>1, ConstantTypes, FS_Subset
<1> QED BY <1>1, FS_Subset, FS_CardinalityType DEF Sent

(* With no parameter to wait for, no configuration job is on its way.      *)
LEMMA NoneIsAwaited ==
  ASSUME ParametersCounted, curNParam = 0 PROVE Sent \ resolved = {}
<1>1. IsFiniteSet(Sent \ resolved)
  BY SentIsFinite
<1> QED BY <1>1, FS_EmptySet DEF ParametersCounted

-----------------------------------------------------------------------------
(* The steps of the GRT. *)

LEMMA MovingKeeps ==
  ASSUME TInv, PInv,
         \/ Iterate \/ Plan \/ RunConfigJobs \/ Resolved
         \/ /\ UNCHANGED jitVars
            /\ \/ planned = NRounds /\ Static!RunUntilNoMoreJobs
               \/ Static!IterateReturns \/ Static!Destroy \/ Static!Barrier
  PROVE  PInv'
<1> USE DEF Static!queueVars, Static!lrtVars, Static!grtVars, queueVars, lrtVars, grtVars, jitVars
<1>1. /\ \E p \in {"plan", "announce", "send", "drain", "idle", "stop", "done"} : pc' = [pc EXCEPT ![grt] = p]
      /\ UNCHANGED <<notifQueue, jobQueue, jobQueueIndex>>
  BY DEF Iterate, Plan, RunConfigJobs, Resolved, Static!RunUntilNoMoreJobs,
         Static!IterateReturns, Static!Destroy, Static!Barrier
<1>2. /\ planned \in 0..NRounds /\ NRounds \in Nat \ {0} /\ nSentJobs \in 0..NJobs /\ NJobs \in Nat
      /\ round \in [Jobs -> 1..NRounds]
      /\ \A j \in Jobs : round[j] \in 1..NRounds /\ j \in 1..NJobs
      /\ \A p : [pc EXCEPT ![grt] = p][grt] = p
  BY ConstantTypes, RoundAssumption DEF TInv, GrtTypes, LrtTypes, Jobs
<1>3. Sent' \ resolved' = Sent \ resolved /\ ParametersCounted'
  <2>1. CASE Iterate
    <3>1. curNParam = 0 /\ nSentJobs' = 0 /\ resolved' = {} /\ curNParam' = curNParam
      BY <2>1 DEF Iterate, At, Static!At, PInv, Rounds
    <3>2. Sent \ resolved = {}
      BY <3>1, NoneIsAwaited DEF PInv
    <3>3. \A j \in Config : ~(j <= 0)
      BY <1>2, ConstantTypes DEF Jobs
    <3>4. Sent' = {}
      BY <3>1, <3>3 DEF Sent
    <3> QED BY <3>1, <3>2, <3>4, FS_EmptySet DEF ParametersCounted
  <2>2. CASE ~Iterate
    <3>1. UNCHANGED <<nSentJobs, resolved, curNParam>>
      BY <2>2 DEF Plan, RunConfigJobs, Resolved, Static!RunUntilNoMoreJobs,
                  Static!IterateReturns, Static!Destroy, Static!Barrier
    <3> QED BY <3>1 DEF ParametersCounted, Sent, PInv
  <2> QED BY <2>1, <2>2
<1>4. Places'
  <2>1. Places /\ grt \in LRT
    BY ConstantTypes DEF PInv, Places
  <2>2. PICK p \in {"plan", "announce", "send", "drain", "idle", "stop", "done"} : pc' = [pc EXCEPT ![grt] = p]
    BY <1>1
  <2> QED BY <1>1, <1>3, <2>1, <2>2, MovingPlaces
<1>5. Rounds'
  <2> USE DEF PInv
  <2>1. CASE Iterate
    <3>1. /\ curNParam' = 0 /\ nSentJobs' = 0 /\ planned' = 0 /\ pc'[grt] = "plan"
      BY <1>2, <2>1 DEF Iterate, At, Static!At, Rounds
    <3> QED BY <1>2, <3>1 DEF Rounds, SentUpTo, InRun
  <2>2. CASE Plan
    <3>1. /\ pc[grt] = "plan" /\ planned' = planned + 1 /\ curNParam' = 0 /\ curNParam = 0
          /\ pc'[grt] = IF planned' < NRounds THEN "announce" ELSE "send"
          /\ nSentJobs' = nSentJobs /\ planned < NRounds /\ SentUpTo(planned)
          /\ \A j \in Jobs : j <= nSentJobs => round[j] <= planned
      BY <1>2, <2>2 DEF Plan, At, Static!At, Rounds
    <3>2. planned' - 1 = planned
      BY <1>2, <3>1
    <3>3. \A j \in Jobs : j <= nSentJobs' => round[j] <= planned'
      BY <1>2, <3>1
    <3> QED BY <1>2, <3>1, <3>2, <3>3 DEF Rounds, SentUpTo, InRun
  <2>3. CASE RunConfigJobs
    <3>1. /\ pc'[grt] = "drain" /\ UNCHANGED <<nSentJobs, planned, curNParam>>
          /\ SentUpTo(planned)
      BY <1>2, <2>3 DEF RunConfigJobs, RoundIsSent, SentUpTo
    <3> QED BY <3>1 DEF Rounds, SentUpTo, InRun
  <2>4. CASE Resolved
    <3>1. /\ pc[grt] = "resolve" /\ pc'[grt] = "plan" /\ UNCHANGED <<nSentJobs, planned, curNParam>>
          /\ curNParam = 0
      BY <1>2, <2>4 DEF Resolved, At, Static!At
    <3> QED BY <3>1 DEF Rounds, SentUpTo, InRun
  <2>5. CASE UNCHANGED jitVars /\ planned = NRounds /\ Static!RunUntilNoMoreJobs
    <3>1. /\ pc'[grt] = "drain" /\ UNCHANGED <<nSentJobs, planned, curNParam>> /\ nSentJobs = NJobs
      BY <1>2, <2>5 DEF Static!RunUntilNoMoreJobs
    <3>2. SentUpTo(planned)
      BY <1>2, <3>1 DEF SentUpTo
    <3> QED BY <3>1, <3>2 DEF Rounds, SentUpTo, InRun
  <2>6. CASE UNCHANGED jitVars /\ (Static!IterateReturns \/ Static!Destroy \/ Static!Barrier)
    <3>1. /\ pc[grt] \in {"recv", "idle", "stop"} /\ pc'[grt] \in {"idle", "stop", "done"}
          /\ UNCHANGED <<nSentJobs, planned, curNParam>>
      BY <1>2, <2>6 DEF Static!IterateReturns, Static!Destroy, Static!Barrier, Static!At
    <3> QED BY <3>1 DEF Rounds, SentUpTo, InRun
  <2> QED BY <2>1, <2>2, <2>3, <2>4, <2>5, <2>6
<1> QED BY <1>3, <1>4, <1>5 DEF PInv, Places

(* A step of the GRT that sends no configuration job and leaves the rounds *)
(* as they are.                                                            *)
LEMMA SameRoundKeeps ==
  ASSUME TInv, PInv, \A j : NoNewMessage(j),
         UNCHANGED <<jobQueue, jobQueueIndex, nSentJobs, planned, resolved, curNParam>>,
         pc' = pc \/ (pc[grt] = "announce" /\ pc' = [pc EXCEPT ![grt] = "send"])
  PROVE  PInv'
<1>1. \A k \in LRT : pc'[k] \in {"exec", "notify"} => pc'[k] = pc[k]
  BY DEF TInv, LrtTypes
<1>2. \A j : NoNewPending(j)
  BY <1>1 DEF NoNewPending, IsPending
<1>3. Places'
  BY <1>2, KeptPlaces, SameSent DEF PInv, Places
<1>4. ParametersCounted'
  BY DEF PInv, ParametersCounted, Sent
<1>5. pc'[grt] = pc[grt] \/ (pc[grt] = "announce" /\ pc'[grt] = "send")
  BY ConstantTypes DEF TInv, LrtTypes
<1>6. Rounds'
  BY <1>5 DEF PInv, Rounds, SentUpTo, InRun
<1> QED BY <1>3, <1>4, <1>6 DEF PInv, Places

LEMMA PushingKeeps ==
  ASSUME TInv, PInv,
         \/ Announce
         \/ UNCHANGED jitVars /\ (Static!SendEndNotification \/ Static!SendStop)
  PROVE  PInv'
<1> USE DEF Static!queueVars, Static!lrtVars, Static!grtVars, queueVars, lrtVars, grtVars, jitVars
<1>1. /\ UNCHANGED <<jobQueue, jobQueueIndex, nSentJobs, planned, resolved, curNParam>>
      /\ pc' = pc \/ (pc[grt] = "announce" /\ pc' = [pc EXCEPT ![grt] = "send"])
  BY DEF Announce, At, Static!At, Static!SendEndNotification, Static!SendStop
<1>2. grt \in LRT /\ nLrt \in Nat /\ sentTo \in 0..nLrt /\ QueueTypes
  BY ConstantTypes DEF TInv, GrtTypes
<1>3. sentTo < nLrt => sentTo \in Queues /\ sentTo \in LRT
  BY <1>2 DEF Queues, LRT
<1>4. ASSUME NEW j PROVE NoNewMessage(j)
  <2>1. CASE notifQueue' = notifQueue
    BY <2>1, SameAddsNone
  <2>2. CASE Announce /\ notifQueue' # notifQueue
    <3>1. /\ Static!Push(grt, sentTo, Static!Message("JOB_DELAY_BROADCAST_JOBSTAMP", grt, -1))
          /\ sentTo < Cardinality(Activated)
      BY <2>2 DEF Announce
    <3>2. sentTo \in Queues
      BY <1>2, <1>3, <3>1, ActivatedAreLrts
    <3>3. /\ Static!Message("JOB_DELAY_BROADCAST_JOBSTAMP", grt, -1) \in Messages
          /\ ~Carries(Static!Message("JOB_DELAY_BROADCAST_JOBSTAMP", grt, -1), j)
      BY <1>2, ConstantTypes, MessageTypes, CarriesNone
    <3> QED BY <1>2, <3>1, <3>2, <3>3, PushAddsNone
  <2>3. CASE Static!SendEndNotification
    <3>1. PICK x : x = nJobPerPE[sentTo] - 1
      OBVIOUS
    <3>2. Static!Push(grt, sentTo, Static!Message("LRT_END_ITERATION", grt, x)) /\ sentTo < nLrt
      BY <2>3, <3>1 DEF Static!SendEndNotification
    <3>3. /\ Static!Message("LRT_END_ITERATION", grt, x) \in Messages
          /\ ~Carries(Static!Message("LRT_END_ITERATION", grt, x), j)
      BY <1>2, <1>3, <3>1, <3>2, ConstantTypes, MessageTypes, CarriesNone
    <3> QED BY <1>2, <1>3, <3>2, <3>3, PushAddsNone
  <2>4. CASE Static!SendStop /\ notifQueue' # notifQueue
    <3>1. Static!Push(grt, sentTo, Static!Message("LRT_STOP", grt, -1)) /\ sentTo < nLrt
      BY <2>4 DEF Static!SendStop
    <3>2. /\ Static!Message("LRT_STOP", grt, -1) \in Messages
          /\ ~Carries(Static!Message("LRT_STOP", grt, -1), j)
      BY <1>2, ConstantTypes, MessageTypes, CarriesNone
    <3> QED BY <1>2, <1>3, <3>1, <3>2, PushAddsNone
  <2> QED BY <2>1, <2>2, <2>3, <2>4
<1> QED BY <1>1, <1>4, SameRoundKeeps

LEMMA ReadingKeeps ==
  ASSUME TInv, PInv, UNCHANGED jitVars, Static!ReceiveFinished \/ Static!PushBackTrace
  PROVE  PInv'
<1>1. /\ UNCHANGED <<jobQueue, jobQueueIndex, nSentJobs, planned, resolved, curNParam, pc>>
      /\ credits[nLrt] > 0
      /\ \/ notifQueue' = [notifQueue EXCEPT ![nLrt] = Tail(@)]
         \/ notifQueue' = [notifQueue EXCEPT ![nLrt] = Append(Tail(@), Head(@))]
  BY DEF Static!ReceiveFinished, Static!PushBackTrace, Static!lrtVars, Static!grtVars, jitVars
<1>2. \A j : NoNewMessage(j)
  BY <1>1, ConstantTypes, TakeAddsNone DEF TInv
<1> QED BY <1>1, <1>2, SameRoundKeeps

(* A parameter that arrives is one that the GRT waits for.                 *)
LEMMA ResolvingKeeps ==
  ASSUME TInv, PInv, ResolveParams PROVE PInv'
<1>1. PICK m : m = Head(notifQueue[nLrt])
  OBVIOUS
<1>2. /\ pc[grt] = "resolve" /\ credits[nLrt] > 0 /\ curNParam > 0
      /\ UNCHANGED <<jobQueue, jobQueueIndex, nSentJobs, planned, pc>>
      /\ \/ /\ m.subType = "JOB_SENT_PARAM"
            /\ notifQueue' = [notifQueue EXCEPT ![nLrt] = Tail(@)]
            /\ curNParam' = curNParam - 1 /\ resolved' = resolved \cup {m.index}
         \/ /\ notifQueue' = [notifQueue EXCEPT ![nLrt] = Append(Tail(@), Head(@))]
            /\ UNCHANGED <<curNParam, resolved>>
  BY <1>1 DEF ResolveParams, At, Static!At, lrtVars, grtVars
<1>3. nLrt \in Queues /\ m \in Messages /\ notifQueue[nLrt] \in Seq(Messages) /\ notifQueue[nLrt] # <<>>
  BY <1>1, <1>2, ConstantTypes, CreditMeansItem DEF TInv
<1>4. \A j : NoNewMessage(j) /\ NoNewPending(j)
  <2>1. \A j : NoNewMessage(j)
    BY <1>2, <1>3, TakeAddsNone DEF TInv
  <2>2. \A j : NoNewPending(j)
    BY <1>2 DEF NoNewPending, IsPending
  <2> QED BY <2>1, <2>2
<1>5. CASE UNCHANGED <<curNParam, resolved>>
  BY <1>2, <1>4, <1>5, SameRoundKeeps
<1>6. CASE /\ m.subType = "JOB_SENT_PARAM"
           /\ notifQueue' = [notifQueue EXCEPT ![nLrt] = Tail(@)]
           /\ curNParam' = curNParam - 1 /\ resolved' = resolved \cup {m.index}
  <2>1. PICK i : i = m.index
    OBVIOUS
  <2>2. i \in Config
    BY <1>3, <1>6, <2>1 DEF Messages, JobKinds
  <2>3. InOnePlace(i) /\ ParametersCounted
    BY <2>2 DEF PInv
  <2>4. Carries(m, i)
    BY <1>6, <2>1 DEF Carries
  <2>5. Carried(notifQueue[nLrt], i) /\ CarriedOnce(notifQueue[nLrt], i)
    BY <1>1, <1>3, <2>3, <2>4, TailCarries DEF InOnePlace
  <2>6. nLrt \in Messengers(i)
    BY <1>3, <2>5 DEF Messengers
  <2>7. Messengers(i) = {nLrt} /\ Executors(i) = {} /\ i \in Sent \ resolved
    BY <2>3, <2>6 DEF InOnePlace
  <2>8. Sent' = Sent /\ resolved' = resolved \cup {i}
    BY <1>2, <1>6, <2>1 DEF Sent
  <2>9. ParametersCounted'
    <3>1. Sent \ resolved' = (Sent \ resolved) \ {i}
      BY <2>8
    <3>2. IsFiniteSet(Sent \ resolved)
      BY SentIsFinite
    <3>3. Cardinality(Sent \ resolved') = Cardinality(Sent \ resolved) - 1
      BY <2>7, <3>1, <3>2, FS_RemoveElement
    <3> QED BY <1>6, <2>3, <2>7, <2>8, <3>3 DEF ParametersCounted
  <2>10. Places'
    <3> SUFFICES ASSUME NEW j \in Config PROVE InOnePlace(j)'
      BY DEF Places
    <3>1. CASE j # i
      BY <1>4, <2>8, <3>1, KeptInOnePlace DEF PInv
    <3>2. CASE j = i
      <4>1. \A q \in Queues : ~Carried(notifQueue'[q], j)
        <5>1. ~Carried(Tail(notifQueue[nLrt]), i)
          BY <1>1, <1>3, <2>4, <2>5, TailCarries
        <5>2. notifQueue'[nLrt] = Tail(notifQueue[nLrt])
          BY <1>3, <1>6 DEF TInv, QueueTypes
        <5>3. \A q \in Queues : q # nLrt => ~Carried(notifQueue[q], i)
          BY <2>7 DEF Messengers
        <5> QED BY <1>4, <3>2, <5>1, <5>2, <5>3 DEF NoNewMessage
      <4>2. \A l \in LRT : ~Pending(l, j)'
        BY <1>4, <2>7, <3>2 DEF Executors, Pending, NoNewPending
      <4>3. \A l \in LRT : PendingOnce(l, j)'
        BY <4>2 DEF PendingOnce, Pending
      <4>4. \A q \in Queues : CarriedOnce(notifQueue'[q], j)
        BY <4>1 DEF CarriedOnce, Carried
      <4>5. Messengers(j)' = {} /\ Executors(j)' = {}
        BY <4>1, <4>2 DEF Messengers, Executors
      <4> QED BY <4>3, <4>4, <4>5 DEF InOnePlace
    <3> QED BY <3>1, <3>2
  <2>11. Rounds'
    BY <1>2 DEF PInv, Rounds, SentUpTo, InRun
  <2> QED BY <2>9, <2>10, <2>11 DEF PInv, Places
<1> QED BY <1>2, <1>5, <1>6

(* A job that is sent is not one that the GRT waits for already.           *)
LEMMA SendingKeeps ==
  ASSUME TInv, PInv, SendJob PROVE PInv'
<1>1. PICK i : i = nSentJobs + 1
  OBVIOUS
<1>2. PICK m : m = Static!Message("JOB_ADD", grt, i)
  OBVIOUS
<1>3. /\ pc[grt] = "send" /\ nSentJobs < NJobs /\ round[i] <= planned
      /\ Static!Push(grt, mappedPE[i], m) /\ nSentJobs' = i
      /\ curNParam' = curNParam + IF i \in Config THEN 1 ELSE 0
      /\ UNCHANGED <<jobQueue, jobQueueIndex, planned, resolved, pc>>
  BY <1>1, <1>2 DEF SendJob, Static!SendJob, Static!At, Static!lrtVars
<1>4. /\ nSentJobs \in 0..NJobs /\ NJobs \in Nat /\ curNParam \in Nat
      /\ planned \in 0..NRounds /\ NRounds \in Nat
  BY ConstantTypes DEF TInv, GrtTypes
<1>5. i \in Jobs /\ i > nSentJobs
  BY <1>1, <1>3, <1>4 DEF Jobs
<1>6. m \in Messages /\ mappedPE[i] \in Queues /\ grt \in LRT /\ mappedPE[i] \in LRT
  BY <1>2, <1>5, ConstantTypes, MessageTypes
<1>7. i \notin Sent /\ i \notin resolved /\ resolved \subseteq Sent
  <2>1. ~(i <= nSentJobs)
    BY <1>1, <1>4
  <2> QED BY <2>1 DEF PInv, ParametersCounted, Sent
<1>8. Sent' = Sent \cup ({i} \cap Config)
  <2>1. \A j \in Config : j \in Nat /\ (j <= i <=> j <= nSentJobs \/ j = i)
    BY <1>1, <1>4, ConstantTypes DEF Jobs
  <2> QED BY <1>3, <2>1 DEF Sent
<1>9. ParametersCounted'
  <2>1. IsFiniteSet(Sent \ resolved) /\ Cardinality(Sent \ resolved) \in Nat
    BY SentIsFinite
  <2>2. CASE i \in Config
    <3>1. Sent' \ resolved = (Sent \ resolved) \cup {i} /\ i \notin Sent \ resolved
      BY <1>7, <1>8, <2>2
    <3>2. Cardinality(Sent' \ resolved) = Cardinality(Sent \ resolved) + 1
      BY <2>1, <3>1, FS_AddElement
    <3> QED BY <1>3, <1>7, <1>8, <2>2, <3>2 DEF PInv, ParametersCounted
  <2>3. CASE i \notin Config
    <3>1. Sent' = Sent /\ curNParam' = curNParam
      BY <1>3, <1>4, <1>8, <2>3
    <3> QED BY <1>3, <3>1 DEF PInv, ParametersCounted
  <2> QED BY <2>2, <2>3
<1>10. \A j : NoNewPending(j)
  BY <1>3 DEF NoNewPending, IsPending
<1>11. ASSUME NEW j \in Config PROVE InOnePlace(j)'
  <2>1. InOnePlace(j)
    BY DEF PInv
  <2>2. CASE j # i
    <3>1. ~Carries(m, j)
      BY <1>2, <2>2 DEF Carries, Static!Message
    <3>2. NoNewMessage(j)
      BY <1>3, <1>6, <3>1, PushAddsNone DEF TInv
    <3> QED BY <1>3, <1>8, <1>10, <2>1, <3>2, KeptInOnePlace
  <2>3. CASE j = i
    <3>1. Messengers(j) = {} /\ Executors(j) = {}
      BY <1>7, <2>1, <2>3 DEF InOnePlace
    <3>2. \A q \in Queues : ~Carried(notifQueue[q], j) /\ CarriedOnce(notifQueue[q], j)
      BY <2>1, <3>1 DEF Messengers, InOnePlace
    <3>3. /\ notifQueue[mappedPE[i]] \in Seq(Messages)
          /\ notifQueue'[mappedPE[i]] = Append(notifQueue[mappedPE[i]], m)
          /\ \A q \in Queues : q # mappedPE[i] => notifQueue'[q] = notifQueue[q]
      BY <1>3, <1>6 DEF Static!Push, TInv, QueueTypes
    <3>4. CarriedOnce(notifQueue'[mappedPE[i]], j)
      BY <1>6, <3>2, <3>3, AppendCarries
    <3>5. Messengers(j)' \subseteq {mappedPE[i]} /\ \A q \in Queues : CarriedOnce(notifQueue'[q], j)
      BY <3>2, <3>3, <3>4 DEF Messengers
    <3>6. \A l \in LRT : ~Pending(l, j)' /\ PendingOnce(l, j)'
      BY <1>10, <2>1, <3>1 DEF Executors, Pending, PendingOnce, NoNewPending, InOnePlace
    <3>7. Executors(j)' = {}
      BY <3>6 DEF Executors
    <3>8. j \in Sent' \ resolved'
      BY <1>3, <1>7, <1>8, <2>3
    <3> QED BY <3>5, <3>6, <3>7, <3>8 DEF InOnePlace
  <2> QED BY <2>2, <2>3
<1>12. Rounds'
  <2>1. \A j \in Jobs : j \in Nat /\ (j <= nSentJobs' => j <= nSentJobs \/ j = i)
    BY <1>1, <1>3, <1>4 DEF Jobs
  <2>2. \A j \in Jobs : j <= nSentJobs' => round[j] <= planned'
    BY <1>3, <2>1 DEF PInv, Rounds
  <2>3. SentUpTo(planned - 1)
    BY <1>3 DEF PInv, Rounds
  <2>4. \A j \in Jobs : round[j] <= planned' - 1 => j <= nSentJobs'
    BY <1>1, <1>3, <1>4, <2>1, <2>3 DEF SentUpTo
  <2>5. planned' = NRounds => curNParam' = 0
    <3>1. i \in Config => round[i] \in Nat /\ round[i] < NRounds
      BY <1>4, RoundAssumption, ConstantTypes
    <3>2. planned = NRounds => i \notin Config
      <4> SUFFICES ASSUME planned = NRounds, i \in Config PROVE FALSE
        OBVIOUS
      <4>1. round[i] <= planned - 1
        BY <1>4, <3>1
      <4>2. i <= nSentJobs
        BY <1>5, <2>3, <4>1 DEF SentUpTo
      <4> QED BY <1>1, <1>4, <4>2
    <3> QED BY <1>3, <1>4, <3>2 DEF PInv, Rounds
  <2> QED BY <1>3, <2>2, <2>4, <2>5 DEF Rounds, SentUpTo, InRun
<1> QED BY <1>9, <1>11, <1>12 DEF PInv

-----------------------------------------------------------------------------
LEMMA InitPlaces == ASSUME Init PROVE PInv
<1> USE DEF Init, Static!Init
<1>1. Sent = {} /\ resolved = {} /\ curNParam = 0
  <2>1. \A j \in Config : ~(j <= 0)
    BY ConstantTypes DEF Jobs
  <2> QED BY <2>1 DEF Sent
<1>2. ParametersCounted
  BY <1>1, FS_EmptySet DEF ParametersCounted
<1>3. ASSUME NEW j PROVE InOnePlace(j)
  <2>1. \A q \in Queues : notifQueue[q] = <<>>
    BY DEF Queues
  <2>2. \A l \in LRT : jobQueue[l] = <<>>
    BY StaticNames
  <2>3. Messengers(j) = {} /\ \A q \in Queues : CarriedOnce(notifQueue[q], j)
    <3>0. DOMAIN <<>> = {}
      OBVIOUS
    <3>1. \A q \in Queues : DOMAIN notifQueue[q] = {}
      BY <2>1, <3>0, Zenon
    <3>2. \A q \in Queues : ~Carried(notifQueue[q], j) /\ CarriedOnce(notifQueue[q], j)
      BY <3>1 DEF Carried, CarriedOnce
    <3> QED BY <3>2 DEF Messengers
  <2>4. Executors(j) = {} /\ \A l \in LRT : PendingOnce(l, j)
    <3>1. \A l \in LRT : DOMAIN jobQueue[l] = {}
      BY <2>2
    <3>2. \A l \in LRT : ~Pending(l, j) /\ PendingOnce(l, j)
      BY <3>1 DEF Pending, PendingOnce, IsPending
    <3> QED BY <3>2 DEF Executors
  <2> QED BY <1>1, <2>3, <2>4 DEF InOnePlace
<1>4. Rounds
  <2>1. pc[grt] = "idle"
    BY ConstantTypes, StaticNames
  <2>2. NRounds \in Nat \ {0} /\ \A j \in Jobs : ~(j <= 0)
    BY ConstantTypes DEF Jobs
  <2> QED BY <2>1, <2>2 DEF Rounds, InRun
<1> QED BY <1>2, <1>3, <1>4 DEF PInv

LEMMA StepPlaces == TInv /\ PInv /\ [Next]_vars => PInv'
<1> SUFFICES ASSUME TInv, PInv, [Next]_vars PROVE PInv'
  OBVIOUS
<1>1. ASSUME NEW l \in LRT, Run(l) \/ Post(l) PROVE PInv'
  <2>1. Places'
    BY <1>1, RunPlaces DEF PInv, Places
  <2>2. Rounds' /\ ParametersCounted'
    BY <1>1, RunRounds DEF PInv
  <2> QED BY <2>1, <2>2 DEF PInv, Places
<1>2. CASE Iterate \/ GrtIterates \/ Stop
  BY <1>2, MovingKeeps, PushingKeeps, ReadingKeeps, ResolvingKeeps, SendingKeeps
  DEF GrtIterates, FinishSchedule, EndIteration, Stop, Static!GrtStops
<1>3. CASE Terminated \/ UNCHANGED vars
  <2>1. UNCHANGED <<notifQueue, jobQueue, jobQueueIndex, nSentJobs, planned, resolved, curNParam, pc>>
    BY <1>3 DEF Terminated, vars, queueVars, lrtVars, grtVars, jitVars
  <2> QED BY <2>1, SameAddsNone, SameRoundKeeps
<1> QED BY <1>1, <1>2, <1>3 DEF Next

(* All of the above, in every reachable state.                             *)
THEOREM Invariants == Spec => [](TInv /\ PInv)
<1>1. Init => TInv /\ PInv
  BY InitTypes, InitPlaces
<1>2. TInv /\ PInv /\ [Next]_vars => TInv' /\ PInv'
  BY StepTypes, StepPlaces DEF PInv
<1> QED BY <1>1, <1>2, PTL DEF Spec

LEMMA SeqOfLarger ==
  ASSUME NEW S, NEW T, S \subseteq T, NEW q \in Seq(S)
  PROVE  q \in Seq(T)
<1>1. PICK n \in Nat : n = Len(q) /\ DOMAIN q = 1..n
  BY LenProperties
<1>2. q \in [1..n -> S]
  BY <1>1, LenProperties
<1>3. q \in [1..n -> T]
  BY <1>2
<1> QED BY <1>3, <1>1

(* Types, and the bounds of the counters: the launcher never waits for     *)
(* more parameters than there are configuration jobs (curNParam_).         *)
THEOREM TypeCorrect == Spec => []TypeOK
<1>1. TInv /\ PInv => TypeOK
  <2> SUFFICES ASSUME TInv, PInv PROVE TypeOK
    OBVIOUS
  <2> USE DEF TInv
  <2>1. notifQueue \in [0..nLrt -> Seq([subType : SubTypes, lrtID : LRT, index : Nat \cup {-1}])]
    <3>1. Messages \subseteq [subType : SubTypes, lrtID : LRT, index : Nat \cup {-1}]
      <4>1. Jobs \subseteq Nat \cup {-1} /\ Config \subseteq Nat \cup {-1}
        BY ConstantTypes DEF Jobs
      <4>2. JobKinds \cup {"JOB_SENT_PARAM"} \subseteq SubTypes
        BY DEF JobKinds, SubTypes, Static!SubTypes
      <4> QED BY <4>1, <4>2 DEF Messages, Stamp
    <3>2. PICK T : T = [subType : SubTypes, lrtID : LRT, index : Nat \cup {-1}]
      OBVIOUS
    <3>3. \A q \in Queues : notifQueue[q] \in Seq(T)
      <4> SUFFICES ASSUME NEW q \in Queues PROVE notifQueue[q] \in Seq(T)
        OBVIOUS
      <4>1. Messages \subseteq T /\ notifQueue[q] \in Seq(Messages)
        BY <3>1, <3>2 DEF QueueTypes
      <4> QED BY <4>1, SeqOfLarger
    <3> QED BY <3>2, <3>3 DEF QueueTypes, Queues
  <2>2. credits \in [0..nLrt -> Nat] /\ unposted \in [LRT -> -1..nLrt]
    <3>1. Queues \cup {-1} \subseteq -1..nLrt
      BY ConstantTypes DEF Queues
    <3> QED BY <3>1 DEF QueueTypes, Queues
  <2>3. pc \in [LRT -> Static!LrtPC \cup Static!GrtPC
                    \cup {"endpass", "broadcast", "plan", "announce", "resolve"}]
    BY DEF LrtTypes, InRun, InGrt, Static!LrtPC, Static!GrtPC
  <2>4. planned \in 0..NRounds /\ curNParam \in 0..Cardinality(Config) /\ resolved \subseteq Config
    <3>1. Sent \ resolved \subseteq Config /\ IsFiniteSet(Config)
      BY SentIsFinite
    <3>2. Cardinality(Sent \ resolved) <= Cardinality(Config)
      BY <3>1, FS_Subset
    <3>3. Cardinality(Config) \in Nat
      BY <3>1, FS_CardinalityType
    <3>4. resolved \subseteq Config
      BY SentIsFinite DEF PInv, ParametersCounted
    <3> QED BY <3>2, <3>3, <3>4 DEF GrtTypes, PInv, ParametersCounted
  <2>5. /\ jobQueue \in [LRT -> Seq(Jobs)] /\ jobIx \in [LRT -> Nat \cup {-1}]
        /\ jobStamps \in [LRT -> [LRT -> Nat \cup {-1}]]
        /\ toNotify \in [LRT -> SUBSET LRT] /\ ran \in [Jobs -> Nat]
        /\ shouldBroadcast \in [LRT -> BOOLEAN]
    BY DEF LrtTypes, Stamp
  <2> QED BY <2>1, <2>2, <2>3, <2>4, <2>5 DEF TypeOK
<1> QED BY <1>1, Invariants, PTL

(* Whatever order messages arrive in, a round is planned with the          *)
(* parameters of all configuration jobs sent in this iteration.            *)
THEOREM ParametersHold == Spec => []ParametersAreKnown
<1>1. TInv /\ PInv => ParametersAreKnown
  <2> SUFFICES ASSUME PInv, pc[grt] \in {"plan", "announce"}
               PROVE  resolved = {j \in Config : j <= nSentJobs}
    BY DEF ParametersAreKnown
  <2>1. curNParam = 0 /\ ParametersCounted
    BY DEF PInv, Rounds
  <2>2. Sent \ resolved = {} /\ resolved \subseteq Sent
    BY <2>1, NoneIsAwaited DEF ParametersCounted
  <2> QED BY <2>2 DEF Sent
<1> QED BY <1>1, Invariants, PTL

-----------------------------------------------------------------------------
(* Traces: as many of job j in queue nLrt as it has been executed.         *)

IsTrace(m, j) == m.subType = "TRACE_LRT" /\ m.index = j
TracesAt(q, j) == {k \in DOMAIN q : IsTrace(q[k], j)}
NTraces(q, j) == Cardinality(TracesAt(q, j))
TracesCounted == \A j \in Jobs : ran[j] = NTraces(notifQueue[nLrt], j)
SameTraces == \A j \in Jobs : NTraces(notifQueue'[nLrt], j) = NTraces(notifQueue[nLrt], j)

LEMMA TracesAreFinite ==
  ASSUME NEW q \in Seq(Messages), NEW j
  PROVE  IsFiniteSet(TracesAt(q, j)) /\ NTraces(q, j) \in Nat
<1>1. IsFiniteSet(1..Len(q)) /\ DOMAIN q = 1..Len(q)
  BY LenProperties, FS_Interval
<1>2. TracesAt(q, j) \subseteq 1..Len(q)
  BY <1>1 DEF TracesAt
<1> QED BY <1>1, <1>2, FS_Subset, FS_CardinalityType DEF NTraces

LEMMA AppendTraces ==
  ASSUME NEW q \in Seq(Messages), NEW m \in Messages, NEW j
  PROVE  /\ IsTrace(m, j) => NTraces(Append(q, m), j) = NTraces(q, j) + 1
         /\ ~IsTrace(m, j) => NTraces(Append(q, m), j) = NTraces(q, j)
<1>1. PICK n \in Nat : n = Len(q) /\ DOMAIN q = 1..n
  BY LenProperties
<1>2. PICK a : a = Append(q, m)
  OBVIOUS
<1>3. /\ DOMAIN a = 1..(n + 1) /\ a[n + 1] = m
      /\ \A k \in 1..n : a[k] = q[k]
  BY <1>1, <1>2, AppendProperties, LenProperties
<1>4. /\ \A k \in 1..(n + 1) : k \in 1..n \/ k = n + 1
      /\ \A k \in 1..n : k \in 1..(n + 1) /\ k # n + 1
      /\ n + 1 \in 1..(n + 1)
  BY <1>1
<1>5. n + 1 \notin TracesAt(q, j)
  BY <1>1, <1>4 DEF TracesAt
<1>6. IsFiniteSet(TracesAt(q, j))
  BY TracesAreFinite
<1>7. CASE IsTrace(m, j)
  <2>1. TracesAt(a, j) = TracesAt(q, j) \cup {n + 1}
    BY <1>1, <1>3, <1>4, <1>7 DEF TracesAt
  <2> QED BY <1>2, <1>5, <1>6, <1>7, <2>1, FS_AddElement DEF NTraces
<1>8. CASE ~IsTrace(m, j)
  <2>1. TracesAt(a, j) = TracesAt(q, j)
    BY <1>1, <1>3, <1>4, <1>8 DEF TracesAt
  <2> QED BY <1>2, <1>8, <2>1 DEF NTraces
<1> QED BY <1>7, <1>8

LEMMA TailTraces ==
  ASSUME NEW q \in Seq(Messages), q # <<>>, NEW j
  PROVE  /\ IsTrace(Head(q), j) => NTraces(q, j) = NTraces(Tail(q), j) + 1
         /\ ~IsTrace(Head(q), j) => NTraces(q, j) = NTraces(Tail(q), j)
<1>1. PICK n \in Nat : n = Len(q) /\ DOMAIN q = 1..n /\ n # 0
  BY LenProperties, EmptySeq
<1>2. PICK t : t = Tail(q)
  OBVIOUS
<1>3. /\ t \in Seq(Messages) /\ DOMAIN t = 1..(n - 1)
      /\ \A k \in 1..(n - 1) : t[k] = q[k + 1]
  BY <1>1, <1>2, HeadTailProperties, LenProperties
<1>4. Head(q) = q[1] /\ 1 \in 1..n
  BY <1>1
<1>5. PICK rest : rest = TracesAt(q, j) \ {1}
  OBVIOUS
<1>6. IsFiniteSet(TracesAt(q, j)) /\ IsFiniteSet(TracesAt(t, j)) /\ IsFiniteSet(rest)
  BY <1>3, <1>5, TracesAreFinite, FS_RemoveElement
<1>7. Cardinality(rest) = Cardinality(TracesAt(t, j))
  <2>1. PICK f : f = [k \in TracesAt(t, j) |-> k + 1]
    OBVIOUS
  <2>2. \A k \in TracesAt(t, j) : k \in 1..(n - 1) /\ k + 1 \in rest /\ f[k] = k + 1
    BY <1>1, <1>3, <1>5, <2>1 DEF TracesAt
  <2>3. \A i \in rest : i - 1 \in TracesAt(t, j) /\ i = (i - 1) + 1
    <3> SUFFICES ASSUME NEW i \in rest PROVE i - 1 \in TracesAt(t, j) /\ i = (i - 1) + 1
      OBVIOUS
    <3>1. i \in 1..n /\ i # 1 /\ IsTrace(q[i], j)
      BY <1>1, <1>5 DEF TracesAt
    <3>2. i - 1 \in 1..(n - 1) /\ i = (i - 1) + 1
      BY <1>1, <3>1
    <3>3. t[i - 1] = q[i]
      BY <1>3, <3>2
    <3> QED BY <1>3, <3>1, <3>2, <3>3 DEF TracesAt
  <2>4. f \in Bijection(TracesAt(t, j), rest)
    <3>1. f \in [TracesAt(t, j) -> rest]
      BY <2>1, <2>2
    <3>2. \A k, i \in TracesAt(t, j) : f[k] = f[i] => k = i
      BY <2>2
    <3>3. \A i \in rest : \E k \in TracesAt(t, j) : f[k] = i
      BY <2>2, <2>3
    <3> QED BY <3>1, <3>2, <3>3 DEF Bijection, Injection, Surjection, IsInjective
  <2> QED BY <1>6, <2>4, FS_Bijection DEF ExistsBijection
<1>8. CASE IsTrace(Head(q), j)
  <2>1. 1 \in TracesAt(q, j)
    BY <1>1, <1>4, <1>8 DEF TracesAt
  <2>2. Cardinality(rest) = Cardinality(TracesAt(q, j)) - 1
    BY <1>5, <1>6, <2>1, FS_RemoveElement
  <2>3. Cardinality(TracesAt(q, j)) \in Nat
    BY <1>6, FS_CardinalityType
  <2> QED BY <1>2, <1>7, <1>8, <2>2, <2>3 DEF NTraces
<1>9. CASE ~IsTrace(Head(q), j)
  <2>1. TracesAt(q, j) = rest
    BY <1>4, <1>5, <1>9 DEF TracesAt
  <2> QED BY <1>2, <1>7, <1>9, <2>1 DEF NTraces
<1> QED BY <1>8, <1>9

(* What a push, a pop and a rotation do to the traces.                     *)
LEMMA PushTraces ==
  ASSUME QueueTypes, NEW l \in LRT, NEW q \in Queues, NEW m \in Messages,
         Static!Push(l, q, m), q # nLrt \/ m.subType # "TRACE_LRT"
  PROVE  SameTraces
<1>1. /\ notifQueue[q] \in Seq(Messages) /\ notifQueue'[q] = Append(notifQueue[q], m)
      /\ \A r \in Queues : r # q => notifQueue'[r] = notifQueue[r]
  BY DEF Static!Push, QueueTypes
<1>2. CASE q # nLrt
  BY <1>1, <1>2, ConstantTypes DEF SameTraces
<1>3. CASE q = nLrt
  <2>1. \A j : ~IsTrace(m, j)
    BY <1>3 DEF IsTrace
  <2>2. \A j : NTraces(Append(notifQueue[q], m), j) = NTraces(notifQueue[q], j)
    BY <1>1, <2>1, AppendTraces
  <2> QED BY <1>1, <1>3, <2>2 DEF SameTraces
<1> QED BY <1>2, <1>3

LEMMA ReadTraces ==
  ASSUME QueueTypes, CreditsMatch, NEW q \in Queues, credits[q] > 0,
         \/ /\ q # nLrt \/ Head(notifQueue[q]).subType # "TRACE_LRT"
            /\ notifQueue' = [notifQueue EXCEPT ![q] = Tail(@)]
         \/ notifQueue' = [notifQueue EXCEPT ![q] = Append(Tail(@), Head(@))]
  PROVE  SameTraces
<1>1. PICK s : s = notifQueue[q]
  OBVIOUS
<1>2. /\ s \in Seq(Messages) /\ s # <<>> /\ Tail(s) \in Seq(Messages) /\ Head(s) \in Messages
  BY <1>1, CreditMeansItem
<1>3. /\ \A r \in Queues : r # q => notifQueue'[r] = notifQueue[r]
      /\ \/ notifQueue'[q] = Tail(s) /\ (q # nLrt \/ Head(s).subType # "TRACE_LRT")
         \/ notifQueue'[q] = Append(Tail(s), Head(s))
  BY <1>1 DEF QueueTypes
<1>4. CASE q # nLrt
  BY <1>3, <1>4, ConstantTypes DEF SameTraces
<1>5. CASE q = nLrt
  <2> SUFFICES ASSUME NEW j \in Jobs PROVE NTraces(notifQueue'[q], j) = NTraces(s, j)
    BY <1>1, <1>5 DEF SameTraces
  <2>1. CASE notifQueue'[q] = Tail(s) /\ Head(s).subType # "TRACE_LRT"
    <3>1. ~IsTrace(Head(s), j)
      BY <2>1 DEF IsTrace
    <3> QED BY <1>2, <2>1, <3>1, TailTraces
  <2>2. CASE notifQueue'[q] = Append(Tail(s), Head(s))
    <3>1. /\ IsTrace(Head(s), j) => NTraces(s, j) = NTraces(Tail(s), j) + 1
          /\ ~IsTrace(Head(s), j) => NTraces(s, j) = NTraces(Tail(s), j)
      BY <1>2, TailTraces
    <3>2. /\ IsTrace(Head(s), j) => NTraces(Append(Tail(s), Head(s)), j) = NTraces(Tail(s), j) + 1
          /\ ~IsTrace(Head(s), j) => NTraces(Append(Tail(s), Head(s)), j) = NTraces(Tail(s), j)
      BY <1>2, AppendTraces
    <3> QED BY <2>2, <3>1, <3>2
  <2> QED BY <1>3, <1>5, <2>1, <2>2
<1> QED BY <1>4, <1>5

LEMMA RunTraces ==
  ASSUME TInv, TracesCounted, TraceEnabled, NEW l \in LRT, Run(l) \/ Post(l)
  PROVE  TracesCounted'
<1> USE DEF Static!queueVars, queueVars
<1>0. ASSUME SameTraces, ran' = ran PROVE TracesCounted'
  BY <1>0 DEF SameTraces, TracesCounted
<1>1. CASE notifQueue' = notifQueue /\ ran' = ran
  BY <1>1 DEF TracesCounted
<1>2. ASSUME NEW s, Static!Pop(l, s) PROVE TracesCounted'
  <2>1. /\ l \in Queues /\ credits[l] > 0 /\ ran' = ran
        /\ notifQueue' = [notifQueue EXCEPT ![l] = Tail(@)]
    BY <1>2, PopTypes
  <2> QED BY <1>0, <2>1, ConstantTypes, ReadTraces DEF TInv
<1>3. CASE HandleDelayBroadcast(l) \/ Static!HandleNotification(l)
  BY <1>2, <1>3 DEF HandleDelayBroadcast, Static!HandleNotification, Static!HandleJobAdd,
     Static!HandleUpdateJobStamp, Static!HandleEndIteration, Static!HandleStop
<1>4. CASE NotifyLRTJobStamp(l)
  <2>1. PICK i \in LRT : /\ ran' = ran
                         /\ Static!Push(l, i, Static!Message("JOB_UPDATE_JOBSTAMP", l, jobIx[l]))
    BY <1>4 DEF NotifyLRTJobStamp, TInv, LrtTypes
  <2>2. /\ i \in Queues /\ i # nLrt
        /\ Static!Message("JOB_UPDATE_JOBSTAMP", l, jobIx[l]) \in Messages
    BY ConstantTypes, MessageTypes DEF TInv, LrtTypes
  <2> QED BY <1>0, <2>1, <2>2, PushTraces DEF TInv
<1>5. CASE SendParam(l)
  <2>1. PICK i : i = Static!CurrentJob(l)
    OBVIOUS
  <2>2. /\ i \in Config /\ ran' = ran
        /\ Static!Push(l, nLrt, Static!Message("JOB_SENT_PARAM", l, i))
    BY <1>5, <2>1 DEF SendParam
  <2>3. /\ Static!Message("JOB_SENT_PARAM", l, i) \in Messages /\ nLrt \in Queues
        /\ Static!Message("JOB_SENT_PARAM", l, i).subType # "TRACE_LRT"
    BY <2>2, ConstantTypes, MessageTypes DEF Static!Message
  <2> QED BY <1>0, <2>2, <2>3, PushTraces DEF TInv
<1>6. CASE PassWithoutJob(l) \/ PassWithJob(l)
  <2>1. PICK resume \in {"wait", "drain"} : EndPass(l, resume)
    BY <1>6 DEF PassWithoutJob, PassWithJob
  <2>2. /\ ran' = ran
        /\ \/ notifQueue' = notifQueue
           \/ Static!Push(l, nLrt, Static!Message("LRT_FINISHED_ITERATION", l, -1))
    BY <2>1, EndPassDoes
  <2>3. /\ Static!Message("LRT_FINISHED_ITERATION", l, -1) \in Messages /\ nLrt \in Queues
        /\ Static!Message("LRT_FINISHED_ITERATION", l, -1).subType # "TRACE_LRT"
    BY ConstantTypes, MessageTypes DEF Static!Message
  <2> QED BY <1>0, <1>1, <2>2, <2>3, PushTraces DEF TInv
<1>7. CASE Static!FinishJob(l)
  <2>1. PICK i : i = Static!CurrentJob(l)
    OBVIOUS
  <2>2. PICK m : m = Static!Message("TRACE_LRT", l, i)
    OBVIOUS
  <2>3. pc[l] = "exec" /\ Static!Push(l, nLrt, m) /\ ran' = [ran EXCEPT ![i] = @ + 1]
    BY <1>7, <2>1, <2>2 DEF Static!FinishJob, Static!At
  <2>4. i \in Jobs /\ m \in Messages /\ nLrt \in Queues /\ notifQueue[nLrt] \in Seq(Messages)
    BY <2>1, <2>2, <2>3, CurrentJobType, MessageTypes, ConstantTypes DEF TInv, QueueTypes
  <2>5. notifQueue'[nLrt] = Append(notifQueue[nLrt], m)
    BY <2>3, <2>4 DEF Static!Push, TInv, QueueTypes
  <2>6. \A j : IsTrace(m, j) <=> j = i
    BY <2>2 DEF IsTrace, Static!Message
  <2>7. ASSUME NEW j \in Jobs PROVE ran'[j] = NTraces(notifQueue'[nLrt], j)
    <3>1. ran[j] = NTraces(notifQueue[nLrt], j)
      BY DEF TracesCounted
    <3>2. CASE j = i
      <4>1. NTraces(notifQueue'[nLrt], j) = NTraces(notifQueue[nLrt], j) + 1
        BY <2>4, <2>5, <2>6, <3>2, AppendTraces
      <4>2. ran'[j] = ran[j] + 1
        BY <2>3, <2>4, <3>2 DEF TInv, LrtTypes
      <4> QED BY <3>1, <4>1, <4>2
    <3>3. CASE j # i
      <4>1. NTraces(notifQueue'[nLrt], j) = NTraces(notifQueue[nLrt], j)
        BY <2>4, <2>5, <2>6, <3>3, AppendTraces
      <4>2. ran'[j] = ran[j]
        BY <2>3, <2>4, <3>3 DEF TInv, LrtTypes
      <4> QED BY <3>1, <4>1, <4>2
    <3> QED BY <3>2, <3>3
  <2> QED BY <2>7 DEF TracesCounted
<1>8. CASE Broadcasted(l) \/ Post(l) \/ Static!ExitRun(l) \/ Static!StartJob(l)
  BY <1>1, <1>8 DEF Broadcasted, Post, Static!Post, Static!ExitRun, Static!StartJob
<1> QED BY <1>3, <1>4, <1>5, <1>6, <1>7, <1>8 DEF Run

LEMMA GrtTraces ==
  ASSUME TInv, TracesCounted, Iterate \/ GrtIterates \/ Stop
  PROVE  TracesCounted'
<1> USE DEF Static!queueVars, queueVars
<1>0. ASSUME SameTraces, ran' = ran PROVE TracesCounted'
  BY <1>0 DEF SameTraces, TracesCounted
<1>1. CASE notifQueue' = notifQueue /\ ran' = ran
  BY <1>1 DEF TracesCounted
<1>2. grt \in LRT /\ nLrt \in Nat /\ sentTo \in 0..nLrt /\ QueueTypes /\ CreditsMatch /\ nLrt \in Queues
  BY ConstantTypes DEF TInv, GrtTypes
<1>3. sentTo < nLrt => sentTo \in Queues /\ sentTo \in LRT
  BY <1>2 DEF Queues, LRT
<1>4. ASSUME NEW s \in {"JOB_DELAY_BROADCAST_JOBSTAMP", "LRT_END_ITERATION", "LRT_STOP", "JOB_ADD"},
             NEW x, NEW q \in Queues, Static!Message(s, grt, x) \in Messages, ran' = ran,
             Static!Push(grt, q, Static!Message(s, grt, x))
      PROVE  TracesCounted'
  <2>1. Static!Message(s, grt, x).subType # "TRACE_LRT"
    BY DEF Static!Message
  <2> QED BY <1>0, <1>2, <1>4, <2>1, PushTraces
<1>5. CASE Announce
  <2>1. CASE notifQueue' # notifQueue
    <3>1. /\ Static!Push(grt, sentTo, Static!Message("JOB_DELAY_BROADCAST_JOBSTAMP", grt, -1))
          /\ sentTo < Cardinality(Activated) /\ ran' = ran
      BY <1>5, <2>1 DEF Announce
    <3>2. sentTo \in Queues /\ Static!Message("JOB_DELAY_BROADCAST_JOBSTAMP", grt, -1) \in Messages
      BY <1>2, <1>3, <3>1, ActivatedAreLrts, ConstantTypes, MessageTypes
    <3> QED BY <1>4, <3>1, <3>2
  <2> QED BY <1>1, <1>5, <2>1 DEF Announce
<1>6. CASE SendJob
  <2>1. PICK i : i = nSentJobs + 1
    OBVIOUS
  <2>2. /\ nSentJobs < NJobs /\ ran' = ran
        /\ Static!Push(grt, mappedPE[i], Static!Message("JOB_ADD", grt, i))
    BY <1>6, <2>1 DEF SendJob, Static!SendJob
  <2>3. i \in Jobs
    BY <2>1, <2>2, ConstantTypes DEF TInv, GrtTypes, Jobs
  <2>4. mappedPE[i] \in Queues /\ Static!Message("JOB_ADD", grt, i) \in Messages
    BY <1>2, <2>3, ConstantTypes, MessageTypes
  <2> QED BY <1>4, <2>2, <2>4
<1>7. CASE Static!SendEndNotification
  <2>1. PICK x : x = nJobPerPE[sentTo] - 1
    OBVIOUS
  <2>2. /\ Static!Push(grt, sentTo, Static!Message("LRT_END_ITERATION", grt, x)) /\ sentTo < nLrt
        /\ ran' = ran
    BY <1>7, <2>1 DEF Static!SendEndNotification
  <2>3. Static!Message("LRT_END_ITERATION", grt, x) \in Messages
    BY <1>2, <1>3, <2>1, <2>2, ConstantTypes, MessageTypes
  <2> QED BY <1>3, <1>4, <2>2, <2>3
<1>8. CASE Static!SendStop
  <2>1. ran' = ran
    BY <1>8 DEF Static!SendStop
  <2>2. CASE notifQueue' # notifQueue
    <3>1. Static!Push(grt, sentTo, Static!Message("LRT_STOP", grt, -1)) /\ sentTo < nLrt
      BY <1>8, <2>2 DEF Static!SendStop
    <3>2. Static!Message("LRT_STOP", grt, -1) \in Messages
      BY <1>2, ConstantTypes, MessageTypes
    <3> QED BY <1>3, <1>4, <2>1, <3>1, <3>2
  <2> QED BY <1>1, <2>1, <2>2
<1>9. CASE ResolveParams \/ Static!ReceiveFinished \/ Static!PushBackTrace
  <2>1. /\ credits[nLrt] > 0 /\ ran' = ran
        /\ \/ /\ Head(notifQueue[nLrt]).subType # "TRACE_LRT"
              /\ notifQueue' = [notifQueue EXCEPT ![nLrt] = Tail(@)]
           \/ notifQueue' = [notifQueue EXCEPT ![nLrt] = Append(Tail(@), Head(@))]
    BY <1>9 DEF ResolveParams, Static!ReceiveFinished, Static!PushBackTrace
  <2> QED BY <1>0, <1>2, <2>1, ReadTraces
<1>10. CASE \/ Iterate \/ Plan \/ RunConfigJobs \/ Resolved \/ Static!RunUntilNoMoreJobs
            \/ Static!IterateReturns \/ Static!Destroy \/ Static!Barrier
  BY <1>1, <1>10 DEF Iterate, Plan, RunConfigJobs, Resolved, Static!RunUntilNoMoreJobs,
     Static!IterateReturns, Static!Destroy, Static!Barrier
<1> QED BY <1>5, <1>6, <1>7, <1>8, <1>9, <1>10
        DEF GrtIterates, FinishSchedule, EndIteration, Stop, Static!GrtStops

LEMMA StaticCardinality == \A S : Static!Cardinality(S) = Cardinality(S)
  BY DEF Static!Cardinality, Cardinality

(* Queue nLrt holds one trace for each execution of a job, whatever        *)
(* resolveParams and rstJobIxRecv take out and push back, if the LRTs      *)
(* trace at all.                                                           *)
THEOREM TracesHold == ASSUME TraceEnabled PROVE Spec => []TracesAreKept
<1>1. Init => TracesCounted
  <2> SUFFICES ASSUME Init, NEW j \in Jobs PROVE ran[j] = NTraces(notifQueue[nLrt], j)
    BY DEF TracesCounted
  <2>1. notifQueue[nLrt] = <<>> /\ ran[j] = 0
    BY ConstantTypes, StaticNames DEF Init, Static!Init, Queues
  <2>2. TracesAt(<<>>, j) = {}
    BY DEF TracesAt
  <2> QED BY <2>1, <2>2, FS_EmptySet DEF NTraces
<1>2. TInv /\ TracesCounted /\ [Next]_vars => TracesCounted'
  <2>1. CASE Terminated \/ UNCHANGED vars
    BY <2>1 DEF Terminated, vars, queueVars, TracesCounted
  <2> QED BY <2>1, RunTraces, GrtTraces DEF Next
<1>3. TracesCounted => TracesAreKept
  <2> SUFFICES ASSUME TracesCounted, NEW j \in Static!Jobs
               PROVE  ran[j] = Cardinality({k \in DOMAIN notifQueue[nLrt] :
                                 /\ notifQueue[nLrt][k].subType = "TRACE_LRT"
                                 /\ notifQueue[nLrt][k].index = j})
    BY StaticCardinality, Zenon DEF TracesAreKept, Static!TracesAreKept
  <2>1. j \in Jobs
    BY StaticNames
  <2> QED BY <2>1 DEF TracesCounted, NTraces, TracesAt, IsTrace
<1> QED BY <1>1, <1>2, <1>3, Invariants, PTL DEF Spec
=============================================================================

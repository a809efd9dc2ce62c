------------------------------ MODULE JitRuntime ------------------------------
(***************************************************************************)
(* Spider's runtime executing a dynamic graph (jit_ms).  The schedule of   *)
(* an iteration grows in rounds.  In each round but the last the GRT maps  *)
(* and sends the configuration jobs it can, and the jobs these read from,  *)
(* and waits for their parameters, which tell it how to expand the graph.  *)
(* The last round sends what is left and ends the iteration.               *)
(*                                                                         *)
(* LRTs, queues and stamps are those of StaticRuntime.  What is new: a job *)
(* is sent with the list of LRTs to notify that is known in its round;     *)
(* stamps that jobs of later rounds wait for come from a broadcast, that   *)
(* the GRT announces before it sends the jobs (JOB_DELAY_BROADCAST).       *)
(***************************************************************************)
EXTENDS Integers, Sequences, FiniteSets, ScheduleConstraints

CONSTANTS
  nLrt, grt, Activated, NJobs, preds, mappedPE, jobID, nJobPerPE, jobs2Wait,
  TraceEnabled, LazyPosters, MaxIterations,  \* as in StaticRuntime
  NRounds,       \* rounds of an iteration
  round,         \* round[j]: the round in which job j is mapped and sent
  Config         \* the configuration jobs: they have output parameters

Jobs == 1..NJobs
LRT == 0..(nLrt - 1)
Others == LRT \ {grt}

ASSUME PlatformAssumption ==
  /\ nLrt \in Nat \ {0} /\ grt \in LRT
  /\ Activated \subseteq LRT /\ grt \in Activated
  /\ TraceEnabled \in BOOLEAN /\ LazyPosters \subseteq LRT /\ MaxIterations \in Nat

ASSUME ScheduleTypes ==
  /\ NJobs \in Nat /\ preds \in [Jobs -> SUBSET Jobs] /\ mappedPE \in [Jobs -> Activated]
  /\ jobID \in [Jobs -> Nat] /\ nJobPerPE \in [LRT -> Nat]
  /\ jobs2Wait \in [Jobs -> [LRT -> Nat \cup {-1}]]

(* What the scheduler guarantees of the jobs of all rounds together.       *)
ASSUME ScheduleAssumption ==
  /\ ConsecutiveIDs(Jobs, LRT, mappedPE, jobID, nJobPerPE)
  /\ WaitsCoverPreds(Jobs, preds, mappedPE, jobID, jobs2Wait)

ASSUME RoundAssumption ==
  /\ NRounds \in Nat \ {0} /\ round \in [Jobs -> 1..NRounds]
  /\ \A i, j \in Jobs : i < j => round[i] <= round[j]
  /\ Config \subseteq {j \in Jobs : round[j] < NRounds}

VARIABLES
  notifQueue, credits, unposted, pc, run, jobQueue, jobQueueIndex, jobIx, lastJobID,
  jobStamps, toNotify, nSentJobs, sentTo, nFinishedPE, iteration, ran, \* StaticRuntime
  shouldBroadcast, \* shouldBroadcast_
  planned,         \* rounds that the GRT has mapped
  curNParam,       \* curNParam_ of the launcher
  resolved         \* configuration jobs whose parameters the GRT has received

queueVars == <<notifQueue, credits, unposted>>
lrtVars == <<jobQueue, jobQueueIndex, jobIx, lastJobID, jobStamps>>
grtVars == <<nSentJobs, sentTo, nFinishedPE, iteration>>
jitVars == <<shouldBroadcast, planned, curNParam, resolved>>

(* Faulty variant: the jobs of the same round are not known yet.            *)
ListOfEarlierRounds ==
  [p \in Jobs |-> [l \in LRT |->
     \E j \in Jobs : /\ mappedPE[j] = l /\ round[j] < round[p]
                     /\ jobs2Wait[j][mappedPE[p]] = jobID[p]]]

(* createJobMessage copies the LRTs to notify when the job is sent: those  *)
(* of the jobs mapped so far, which are those of its round and before.     *)
ListWhenSent ==
  [p \in Jobs |-> [l \in LRT |->
     \E j \in Jobs : /\ mappedPE[j] = l /\ round[j] <= round[p]
                     /\ jobs2Wait[j][mappedPE[p]] = jobID[p]]]

Static == INSTANCE StaticRuntime WITH lrts2Notify <- ListWhenSent
vars == <<queueVars, lrtVars, grtVars, pc, run, toNotify, ran, jitVars>>

At(l, p) == Static!At(l, p)

Init ==
  /\ Static!Init
  /\ shouldBroadcast = [l \in LRT |-> FALSE]
  /\ planned = 0 /\ curNParam = 0 /\ resolved = {}

-----------------------------------------------------------------------------
(* The LRTs. *)

HandleDelayBroadcast(l) ==
  /\ Static!Pop(l, "JOB_DELAY_BROADCAST_JOBSTAMP")
  /\ shouldBroadcast' = [shouldBroadcast EXCEPT ![l] = TRUE]
  /\ UNCHANGED <<lrtVars, run, planned, curNParam, resolved>>

(* Faulty variant: the stamp is that of the next job.                       *)
NotifyLRTJobStampAhead(l) ==
  /\ At(l, "notify") \/ At(l, "broadcast")
  /\ \E i \in toNotify[l] :
       /\ \A k \in toNotify[l] : i <= k
       /\ Static!Push(l, i, Static!Message("JOB_UPDATE_JOBSTAMP", l, jobIx[l] + 1))
       /\ toNotify' = [toNotify EXCEPT ![l] = @ \ {i}]
  /\ UNCHANGED <<lrtVars, grtVars, pc, run, ran, jitVars>>

(* runJob: notifyLRTJobStamp for each LRT; broadcastJobStamp for all.      *)
NotifyLRTJobStamp(l) ==
  /\ At(l, "notify") \/ At(l, "broadcast")
  /\ \E i \in toNotify[l] :
       /\ \A k \in toNotify[l] : i <= k
       /\ Static!Push(l, i, Static!Message("JOB_UPDATE_JOBSTAMP", l, jobIx[l]))
       /\ toNotify' = [toNotify EXCEPT ![l] = @ \ {i}]
  /\ UNCHANGED <<lrtVars, grtVars, pc, run, ran, jitVars>>

(* The end of runJob for a job with output parameters.                     *)
SendParam(l) ==
  /\ At(l, "notify") /\ toNotify[l] = {} /\ Static!CurrentJob(l) \in Config
  /\ Static!Push(l, nLrt, Static!Message("JOB_SENT_PARAM", l, Static!CurrentJob(l)))
  /\ pc' = [pc EXCEPT ![l] = "endpass"]
  /\ UNCHANGED <<lrtVars, grtVars, run, toNotify, ran, jitVars>>

(* With no job left an LRT blocks on its queue; the GRT leaves run, for    *)
(* the parameters or for the end of the iteration.                         *)
NoMoreJobs(l) ==
  pc' = [pc EXCEPT ![l] = IF l # grt THEN "wait"
                          ELSE IF planned < NRounds THEN "resolve" ELSE "recv"]

(* broadcastJobStamp: without a finished job there is nothing to say, but  *)
(* the request is gone.                                                    *)
DoneWithCurrentJobs(l) ==
  /\ shouldBroadcast' = [shouldBroadcast EXCEPT ![l] = FALSE]
  /\ IF shouldBroadcast[l] /\ jobIx'[l] >= 0
     THEN /\ pc' = [pc EXCEPT ![l] = "broadcast"]
          /\ toNotify' = [toNotify EXCEPT ![l] = LRT \ {l}]
     ELSE NoMoreJobs(l) /\ UNCHANGED toNotify

EndPass(l, resume) ==
  /\ IF Static!DoneWithIteration(l)
     THEN /\ IF l = grt THEN UNCHANGED queueVars
             ELSE Static!Push(l, nLrt, Static!Message("LRT_FINISHED_ITERATION", l, -1))
          /\ Static!ResetLrt(l)
     ELSE UNCHANGED <<queueVars, lrtVars>>
  /\ IF Static!GotJobToDo(l)'
     THEN pc' = [pc EXCEPT ![l] = resume] /\ UNCHANGED <<toNotify, shouldBroadcast>>
     ELSE DoneWithCurrentJobs(l)
  /\ UNCHANGED <<grtVars, run, ran, planned, curNParam, resolved>>

PassWithoutJob(l) ==
  /\ Static!Drained(l) /\ run[l] /\ Static!QueueIsSane(l)
  /\ Static!GotJobToDo(l) => ~Static!CompareLRTJobStamps(l, Static!NextJob(l))
  /\ EndPass(l, "wait")

PassWithJob(l) ==
  /\ toNotify[l] = {}
  /\ \/ At(l, "endpass")
     \/ At(l, "notify") /\ Static!CurrentJob(l) \notin Config
  /\ EndPass(l, "drain")

Broadcasted(l) ==
  /\ At(l, "broadcast") /\ toNotify[l] = {}
  /\ NoMoreJobs(l)
  /\ UNCHANGED <<queueVars, lrtVars, grtVars, run, toNotify, ran, jitVars>>

Run(l) ==
  \/ HandleDelayBroadcast(l) \/ PassWithoutJob(l) \/ NotifyLRTJobStamp(l)
  \/ SendParam(l) \/ PassWithJob(l) \/ Broadcasted(l)
  \/ /\ \/ Static!HandleNotification(l) \/ Static!ExitRun(l)
        \/ Static!StartJob(l) \/ Static!FinishJob(l)
     /\ UNCHANGED jitVars

-----------------------------------------------------------------------------
(* The GRT: jit_ms. *)

Iterate ==
  /\ At(grt, "idle") /\ iteration < MaxIterations
  /\ iteration' = iteration + 1
  /\ pc' = [pc EXCEPT ![grt] = "plan"]
  /\ nSentJobs' = 0 /\ planned' = 0 /\ resolved' = {}
  /\ UNCHANGED <<queueVars, lrtVars, sentTo, nFinishedPE, run, toNotify, ran,
                 shouldBroadcast, curNParam>>

(* The graph is expanded; scheduleOnlyConfig or schedule maps the round.   *)
Plan ==
  /\ At(grt, "plan")
  /\ planned' = planned + 1
  /\ pc' = [pc EXCEPT ![grt] = IF planned' < NRounds THEN "announce" ELSE "send"]
  /\ UNCHANGED <<queueVars, lrtVars, grtVars, run, toNotify, ran,
                 shouldBroadcast, curNParam, resolved>>

(* sendBroadCastNotification goes to the LRTs 0, 1... as many as are       *)
(* activated, and not to the GRT's own.                                    *)
Announce ==
  /\ At(grt, "announce")
  /\ IF sentTo < Cardinality(Activated)
     THEN /\ sentTo' = sentTo + 1 /\ UNCHANGED pc
          /\ IF sentTo = grt THEN UNCHANGED queueVars
             ELSE Static!Push(grt, sentTo, Static!Message("JOB_DELAY_BROADCAST_JOBSTAMP", grt, -1))
     ELSE /\ sentTo' = 0 /\ pc' = [pc EXCEPT ![grt] = "send"]
          /\ UNCHANGED queueVars
  /\ UNCHANGED <<lrtVars, nSentJobs, nFinishedPE, iteration, run, toNotify, ran, jitVars>>

(* SRDAGSchedule::execute sends the jobs that are mapped and not yet sent. *)
RoundIsSent == \A j \in Jobs : round[j] <= planned => j <= nSentJobs
SendJob ==
  /\ Static!SendJob /\ round[nSentJobs + 1] <= planned
  /\ curNParam' = curNParam + IF nSentJobs + 1 \in Config THEN 1 ELSE 0
  /\ UNCHANGED <<shouldBroadcast, planned, resolved>>

RunConfigJobs ==
  /\ At(grt, "send") /\ RoundIsSent /\ planned < NRounds
  /\ run' = [run EXCEPT ![grt] = TRUE]
  /\ pc' = [pc EXCEPT ![grt] = "drain"]
  /\ UNCHANGED <<queueVars, lrtVars, grtVars, toNotify, ran, jitVars>>

(* executeAndRun, in the last round.                                       *)
FinishSchedule ==
  /\ planned = NRounds
  /\ Static!SendEndNotification \/ Static!RunUntilNoMoreJobs
  /\ UNCHANGED jitVars

(* Faulty variant: another kind of message counts as a parameter.          *)
ResolveParamsUnchecked ==
  /\ At(grt, "resolve") /\ curNParam > 0 /\ credits[nLrt] > 0
  /\ LET m == Head(notifQueue[nLrt]) IN
       /\ notifQueue' = [notifQueue EXCEPT ![nLrt] = Tail(@)]
       /\ credits' = [credits EXCEPT ![nLrt] = @ - 1]
       /\ curNParam' = curNParam - 1
       /\ resolved' = resolved \cup {m.index}
  /\ UNCHANGED <<unposted, lrtVars, grtVars, pc, run, toNotify, ran,
                 shouldBroadcast, planned>>

(* Faulty variant: what is not a parameter is dropped.                     *)
ResolveParamsDrops ==
  /\ At(grt, "resolve") /\ curNParam > 0 /\ credits[nLrt] > 0
  /\ LET m == Head(notifQueue[nLrt]) IN
       /\ notifQueue' = [notifQueue EXCEPT ![nLrt] = Tail(@)]
       /\ credits' = [credits EXCEPT ![nLrt] = @ - 1]
       /\ curNParam' = curNParam - IF m.subType = "JOB_SENT_PARAM" THEN 1 ELSE 0
       /\ resolved' = resolved \cup
            IF m.subType = "JOB_SENT_PARAM" THEN {m.index} ELSE {}
  /\ UNCHANGED <<unposted, lrtVars, grtVars, pc, run, toNotify, ran,
                 shouldBroadcast, planned>>

(* resolveParams.  The pop and the push of what is not a parameter are one *)
(* step, as in rstJobIxRecv.                                               *)
ResolveParams ==
  /\ At(grt, "resolve") /\ curNParam > 0 /\ credits[nLrt] > 0
  /\ LET m == Head(notifQueue[nLrt]) IN
     IF m.subType = "JOB_SENT_PARAM"
     THEN /\ notifQueue' = [notifQueue EXCEPT ![nLrt] = Tail(@)]
          /\ credits' = [credits EXCEPT ![nLrt] = @ - 1]
          /\ curNParam' = curNParam - 1
          /\ resolved' = resolved \cup {m.index}
          /\ UNCHANGED unposted
     ELSE /\ notifQueue' = [notifQueue EXCEPT ![nLrt] = Append(Tail(@), Head(@))]
          /\ IF grt \in LazyPosters
             THEN /\ credits' = [credits EXCEPT ![nLrt] = @ - 1]
                  /\ unposted' = [unposted EXCEPT ![grt] = nLrt]
             ELSE UNCHANGED <<credits, unposted>>
          /\ UNCHANGED <<curNParam, resolved>>
  /\ UNCHANGED <<lrtVars, grtVars, pc, run, toNotify, ran, shouldBroadcast, planned>>

Resolved ==
  /\ At(grt, "resolve") /\ curNParam = 0
  /\ pc' = [pc EXCEPT ![grt] = "plan"]
  /\ UNCHANGED <<queueVars, lrtVars, grtVars, run, toNotify, ran, jitVars>>

EndIteration ==
  /\ Static!ReceiveFinished \/ Static!PushBackTrace \/ Static!IterateReturns
  /\ UNCHANGED jitVars

GrtIterates ==
  \/ Plan \/ Announce \/ SendJob \/ RunConfigJobs \/ FinishSchedule \/ ResolveParams
  \/ Resolved \/ EndIteration

Post(l) == Static!Post(l) /\ UNCHANGED jitVars
Stop == (Static!Destroy \/ Static!GrtStops) /\ UNCHANGED jitVars
Terminated == pc[grt] = "done" /\ UNCHANGED vars

Next ==
  \/ \E l \in LRT : Run(l) \/ Post(l)
  \/ Iterate \/ GrtIterates \/ Stop \/ Terminated

Spec == Init /\ [][Next]_vars

(* Threads are scheduled; the application need not iterate nor clean up.   *)
FairSpec ==
  /\ Spec
  /\ \A l \in LRT : WF_vars(Run(l)) /\ WF_vars(Post(l))
  /\ WF_vars(GrtIterates)

-----------------------------------------------------------------------------
SubTypes == Static!SubTypes \cup {"JOB_DELAY_BROADCAST_JOBSTAMP", "JOB_SENT_PARAM"}
TypeOK ==
  /\ notifQueue \in [0..nLrt -> Seq([subType : SubTypes, lrtID : LRT, index : Nat \cup {-1}])]
  /\ credits \in [0..nLrt -> Nat] /\ unposted \in [LRT -> -1..nLrt]
  /\ pc \in [LRT -> Static!LrtPC \cup Static!GrtPC
                    \cup {"endpass", "broadcast", "plan", "announce", "resolve"}]
  /\ jobQueue \in [LRT -> Seq(Jobs)] /\ jobIx \in [LRT -> Nat \cup {-1}]
  /\ jobStamps \in [LRT -> [LRT -> Nat \cup {-1}]]
  /\ toNotify \in [LRT -> SUBSET LRT] /\ ran \in [Jobs -> Nat]
  /\ shouldBroadcast \in [LRT -> BOOLEAN]
  /\ planned \in 0..NRounds /\ curNParam \in 0..Cardinality(Config) /\ resolved \subseteq Config

(* The graph of a round is built from the parameters of this iteration: of *)
(* every configuration job sent so far, and of no other (resolveParams     *)
(* counts parameters, whichever vertices they are from).                   *)
ParametersAreKnown ==
  pc[grt] \in {"plan", "announce"} => resolved = {j \in Config : j <= nSentJobs}

(* What an application expects of iterate, with the configuration of a     *)
(* round among the inputs of the jobs of later rounds.                     *)
Inputs == [j \in Jobs |-> preds[j] \cup {c \in Config : round[c] < round[j]}]
Dataflow == INSTANCE IteratedDataflow WITH
  preds <- Inputs, started <- Static!started, ended <- ran
ImplementsDataflow == Dataflow!Spec

(* When iterate returns, the job stamps of its iteration are reset         *)
(* (lrt.cpp:554), in the LRTs and on the way to them, those of a broadcast *)
(* included.                                                               *)
StampsAreReset ==
  pc[grt] = "idle" =>
    \A l \in LRT : notifQueue[l] = <<>> /\ \A i \in LRT : jobStamps[l][i] = -1

(* resolveParams and rstJobIxRecv push back what they do not wait for: no  *)
(* trace of a job gets lost on the way round the queue.                    *)
TracesAreKept == Static!TracesAreKept

(* An LRT that was told to broadcast does so after the last job that it    *)
(* has in the round (Message.h:123).                                       *)
BroadcastAfterLastJob ==
  [][\A l \in LRT : shouldBroadcast[l] /\ ~shouldBroadcast'[l] =>
       \A j \in Jobs : mappedPE[j] = l /\ round[j] <= planned => ran[j] = iteration]_vars

(* sendBroadCastNotification goes "to all LRT" (Launcher.h:82): its loop    *)
(* has passed every activated one.                                         *)
AnnouncedToActivated ==
  [][pc[grt] = "announce" /\ pc'[grt] # "announce" =>
       \A l \in Activated : l < sentTo]_vars

(* A call of iterate returns, whatever the rounds of the configuration.    *)
IterateTerminates == pc[grt] = "plan" ~> pc[grt] = "idle"
=============================================================================

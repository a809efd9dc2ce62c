------------------------------ MODULE Platform ------------------------------
(***************************************************************************)
(* The life of the pthread platform: Spider::init creates it and one       *)
(* thread for each LRT but the GRT's, the application iterates a static    *)
(* graph, Spider::clean destroys it.  All threads meet three times at one  *)
(* barrier: when all have registered, when all are ready, and at the end.  *)
(*                                                                         *)
(* A thread finds its LRT by looking for itself in lrtThreadsArray, so     *)
(* what it does depends on what other threads have done before.  An        *)
(* iteration is abstract: an LRT with jobs answers LRT_END_ITERATION when  *)
(* it has run them, as StaticRuntime shows it does; one without does not.  *)
(***************************************************************************)
EXTENDS Integers, Sequences, FiniteSets

CONSTANTS
  nLrt, grt,      \* the number of LRTs and the one that runs in main's thread
  MaxIterations   \* bounds the calls of iterate

LRT == 0..(nLrt - 1)
Others == LRT \ {grt}
ASSUME PlatformAssumption ==
  nLrt \in Nat \ {0} /\ grt \in LRT /\ MaxIterations \in Nat

(* What threads use: the entries of lrtThreadsArray, the LRT_STACK and the *)
(* communicators of each LRT; LRTs and queues; the architecture.           *)
Own(kind, l) == <<kind, l>>
Shared == {"platform", "archi"}
Objects == {"entry", "stack", "communicators"} \X LRT \cup {<<o, grt>> : o \in Shared}
Platform == <<"platform", grt>>
Archi == <<"archi", grt>>

VARIABLES
  pc,          \* what each thread does
  waiting,     \* threads that the barrier holds
  status,      \* of each object: "unset", "live" or "freed"
  notifQueue,  \* the queue of each LRT
  finished,    \* ends of iteration of each LRT in the GRT's queue
  enabled,     \* PEs that are enabled (nActivatedPE_ of them)
  schedule,    \* PEs that the schedule of the static graph has jobs for
  sentTo,      \* counter of the loops over the LRTs
  nFinishedPE, \* nFinishedPE of rstJobIxRecv
  iteration,   \* calls of iterate
  done         \* iterations that each LRT has finished

runVars == <<notifQueue, finished, schedule, nFinishedPE, iteration, done>>
vars == <<pc, waiting, status, enabled, sentTo, runVars>>

At(t, p) == pc[t] = p
Go(t, p) == pc' = [pc EXCEPT ![t] = p]
Set(objects, s) == status' = [o \in Objects |-> IF o \in objects THEN s ELSE status[o]]

(* The constructor up to createAndLaunchThreads.                           *)
Init ==
  /\ pc = [t \in LRT |-> IF t = grt THEN "spawn" ELSE "none"]
  /\ waiting = {}
  /\ status = [o \in Objects |->
       IF o \in {Platform, Archi, Own("entry", grt)} THEN "live" ELSE "unset"]
  /\ notifQueue = [t \in LRT |-> <<>>]
  /\ finished = [t \in LRT |-> 0] /\ done = [t \in LRT |-> 0]
  /\ enabled = LRT /\ schedule = {}
  /\ sentTo = 0 /\ nFinishedPE = 0 /\ iteration = 0

-----------------------------------------------------------------------------
(* The barrier. *)

BeforeBarrier(t) ==
  \/ pc[t] \in {"registered", "ready", "cleaned"}
  \/ t = grt /\ pc[t] \in {"spawn", "stop"} /\ sentTo = nLrt

WaitsFor(t) ==
  CASE pc[t] \in {"registered", "spawn"} -> "registration"
    [] At(t, "ready")                    -> "readiness"
    [] OTHER                             -> "end"

(* Faulty variant: nobody waits for the others to register.                *)
ArriveUnlessRegistration(t) ==
  /\ BeforeBarrier(t)
  /\ Go(t, WaitsFor(t))
  /\ waiting' = IF waiting \cup {t} = LRT \/ WaitsFor(t) = "registration" THEN {}
                ELSE waiting \cup {t}
  /\ sentTo' = IF t = grt THEN 0 ELSE sentTo
  /\ UNCHANGED <<status, enabled, runVars>>

(* pthread_barrier_wait: the last one to arrive releases all.              *)
Arrive(t) ==
  /\ BeforeBarrier(t)
  /\ Go(t, WaitsFor(t))
  /\ waiting' = IF waiting \cup {t} = LRT THEN {} ELSE waiting \cup {t}
  /\ sentTo' = IF t = grt THEN 0 ELSE sentTo
  /\ UNCHANGED <<status, enabled, runVars>>

Leave(t) ==
  /\ t \notin waiting
  /\ \/ At(t, "registration") /\ Go(t, "starting")
     \/ At(t, "readiness") /\ Go(t, IF t = grt THEN "stacked" ELSE "run")
     \/ At(t, "end") /\ Go(t, IF t = grt THEN "join" ELSE "exited")
  /\ UNCHANGED <<waiting, status, enabled, sentTo, runVars>>

-----------------------------------------------------------------------------
(* lrtPthreadRunner; the GRT does the same in the constructor, but sets    *)
(* its communicators after the second barrier.                             *)

Register(t) ==
  /\ At(t, "created")
  /\ Set({Own("entry", t)}, "live") /\ Go(t, "registered")
  /\ UNCHANGED <<waiting, enabled, sentTo, runVars>>

InitStack(t) ==
  /\ At(t, "starting")
  /\ Set({Own("stack", t)}, "live") /\ Go(t, IF t = grt THEN "ready" ELSE "stacked")
  /\ UNCHANGED <<waiting, enabled, sentTo, runVars>>

SetCommunicators(t) ==
  /\ At(t, "stacked")
  /\ Set({Own("communicators", t)}, "live")
  /\ Go(t, IF t = grt THEN "idle" ELSE "ready")
  /\ UNCHANGED <<waiting, enabled, sentTo, runVars>>

Pop(t, m) ==
  /\ At(t, "run") /\ notifQueue[t] # <<>> /\ Head(notifQueue[t]) = m
  /\ notifQueue' = [notifQueue EXCEPT ![t] = Tail(@)]

HandleEndIteration(t) ==
  /\ Pop(t, "LRT_END_ITERATION")
  /\ IF t \in schedule
     THEN /\ finished' = [finished EXCEPT ![t] = @ + 1]
          /\ done' = [done EXCEPT ![t] = @ + 1]
     ELSE UNCHANGED <<finished, done>>
  /\ UNCHANGED <<pc, waiting, status, enabled, schedule, sentTo, nFinishedPE, iteration>>

HandleStop(t) ==
  /\ Pop(t, "LRT_STOP") /\ Go(t, "stopped")
  /\ UNCHANGED <<waiting, status, enabled, finished, schedule, sentTo, nFinishedPE,
                 iteration, done>>

CleanStack(t) ==
  /\ At(t, "stopped")
  /\ Set({Own("stack", t)}, "freed") /\ Go(t, "cleaned")
  /\ UNCHANGED <<waiting, enabled, sentTo, runVars>>

-----------------------------------------------------------------------------
(* The GRT. *)

Spawn ==
  /\ At(grt, "spawn") /\ sentTo < nLrt
  /\ pc' = IF sentTo = grt THEN pc ELSE [pc EXCEPT ![sentTo] = "created"]
  /\ sentTo' = sentTo + 1
  /\ UNCHANGED <<waiting, status, enabled, runVars>>

(* Archi::deactivatePE, which throws for the GRT, and Archi::activatePE.   *)
ChangePE(pe) ==
  /\ At(grt, "idle") /\ pe # grt
  /\ enabled' = IF pe \in enabled THEN enabled \ {pe} ELSE enabled \cup {pe}
  /\ UNCHANGED <<pc, waiting, status, sentTo, runVars>>

(* The schedule of a static graph is made in the first iteration.          *)
Iterate ==
  /\ At(grt, "idle") /\ iteration < MaxIterations
  /\ schedule' = IF schedule = {} THEN enabled ELSE schedule
  /\ iteration' = iteration + 1
  /\ Go(grt, "send")
  /\ UNCHANGED <<waiting, status, notifQueue, finished, enabled, sentTo, nFinishedPE, done>>

Send(m) ==
  /\ notifQueue' = [notifQueue EXCEPT ![sentTo] = Append(@, m)]
  /\ sentTo' = sentTo + 1

(* sendEndNotification goes to every PE, enabled or not.                   *)
SendEndIteration ==
  /\ At(grt, "send") /\ sentTo < nLrt /\ Send("LRT_END_ITERATION")
  /\ UNCHANGED <<pc, waiting, status, finished, enabled, schedule, nFinishedPE, iteration, done>>

(* runUntilNoMoreJobs: the GRT runs its own jobs.                          *)
RunUntilNoMoreJobs ==
  /\ At(grt, "send") /\ sentTo = nLrt
  /\ sentTo' = 0 /\ Go(grt, "recv")
  /\ notifQueue' = [notifQueue EXCEPT ![grt] = <<>>]
  /\ done' = [done EXCEPT ![grt] = @ + 1]
  /\ UNCHANGED <<waiting, status, finished, enabled, schedule, nFinishedPE, iteration>>

NPEToWait == Cardinality(enabled) - 1

(* Faulty variant: a message is counted that is not there.                 *)
ReceiveFinishedUnchecked ==
  /\ At(grt, "recv") /\ nFinishedPE < NPEToWait
  /\ \E l \in Others : finished' = [finished EXCEPT ![l] = @ - 1]
  /\ nFinishedPE' = nFinishedPE + 1
  /\ UNCHANGED <<pc, waiting, status, notifQueue, enabled, schedule, sentTo, iteration, done>>
ReceiveFinished ==
  /\ At(grt, "recv") /\ nFinishedPE < NPEToWait
  /\ \E l \in Others : finished[l] > 0 /\ finished' = [finished EXCEPT ![l] = @ - 1]
  /\ nFinishedPE' = nFinishedPE + 1
  /\ UNCHANGED <<pc, waiting, status, notifQueue, enabled, schedule, sentTo, iteration, done>>

(* Faulty variant: the count goes on from the last iteration.              *)
IterateReturnsKeepsCount ==
  /\ At(grt, "recv") /\ nFinishedPE >= NPEToWait
  /\ Go(grt, "idle")
  /\ UNCHANGED <<waiting, status, notifQueue, finished, enabled, schedule, sentTo,
                 nFinishedPE, iteration, done>>
IterateReturns ==
  /\ At(grt, "recv") /\ nFinishedPE = NPEToWait
  /\ nFinishedPE' = 0 /\ Go(grt, "idle")
  /\ UNCHANGED <<waiting, status, notifQueue, finished, enabled, schedule, sentTo,
                 iteration, done>>

(* Spider::clean frees the architecture before it deletes the platform.    *)
(* The memory of ARCHI_STACK may outlive the free (StackType::STATIC) or   *)
(* not.                                                                    *)
Clean ==
  /\ At(grt, "idle")
  /\ \E lost \in {{}, {Archi}} : Set(lost, "freed")
  /\ Go(grt, "stop")
  /\ UNCHANGED <<waiting, enabled, sentTo, runVars>>

(* Faulty variant: the loop ends one LRT early.                            *)
SendStopButLast ==
  /\ At(grt, "stop") /\ sentTo < nLrt
  /\ IF sentTo = grt \/ sentTo = nLrt - 1
     THEN sentTo' = sentTo + 1 /\ UNCHANGED notifQueue
     ELSE Send("LRT_STOP")
  /\ UNCHANGED <<pc, waiting, status, finished, enabled, schedule, nFinishedPE, iteration, done>>

(* The LRT that the destructor leaves out is getSpiderGRTID(), which may   *)
(* be anything once the architecture is freed.                             *)
SendStop ==
  /\ At(grt, "stop") /\ sentTo < nLrt
  /\ \E id \in LRT :
       /\ status[Archi] = "live" => id = grt
       /\ IF sentTo = id THEN sentTo' = sentTo + 1 /\ UNCHANGED notifQueue
          ELSE Send("LRT_STOP")
  /\ UNCHANGED <<pc, waiting, status, finished, enabled, schedule, nFinishedPE, iteration, done>>

(* pthread_join for each LRT, then everything is freed.                    *)
JoinAndFree ==
  /\ At(grt, "join") /\ \A l \in Others : At(l, "exited")
  /\ Set(Objects, "freed") /\ Go(grt, "done")
  /\ UNCHANGED <<waiting, enabled, sentTo, runVars>>

Terminated == At(grt, "done") /\ UNCHANGED vars

Thread(t) ==
  \/ Arrive(t) \/ Leave(t) \/ Register(t) \/ InitStack(t) \/ SetCommunicators(t)
  \/ HandleEndIteration(t) \/ HandleStop(t) \/ CleanStack(t)
Grt ==
  \/ Spawn \/ SendEndIteration \/ RunUntilNoMoreJobs \/ ReceiveFinished
  \/ IterateReturns \/ SendStop \/ JoinAndFree

Next ==
  \/ Grt \/ \E t \in LRT : Thread(t) \/ ChangePE(t)
  \/ Iterate \/ Clean \/ Terminated

Spec == Init /\ [][Next]_vars

(* Threads are scheduled; the application need neither iterate nor clean.  *)
Fairness == WF_vars(Grt) /\ \A t \in LRT : WF_vars(Thread(t))
FairSpec == Spec /\ Fairness

-----------------------------------------------------------------------------
TypeOK ==
  /\ pc \in [LRT -> {"none", "created", "registered", "registration", "starting", "stacked",
                     "ready", "readiness", "run", "stopped", "cleaned", "end", "exited",
                     "spawn", "idle", "send", "recv", "stop", "join", "done"}]
  /\ waiting \subseteq LRT /\ status \in [Objects -> {"unset", "live", "freed"}]
  /\ notifQueue \in [LRT -> Seq({"LRT_END_ITERATION", "LRT_STOP"})]
  /\ finished \in [LRT -> Nat] /\ done \in [LRT -> Nat]
  /\ grt \in enabled /\ enabled \subseteq LRT /\ schedule \subseteq LRT
  /\ sentTo \in 0..nLrt /\ nFinishedPE \in 0..(nLrt - 1) /\ iteration \in 0..MaxIterations

(* getThreadNumber compares entries until it finds the caller's.           *)
Lookup(t) == {Own("entry", l) : l \in 0..t}
Uses(t) ==
  CASE pc[t] \in {"starting", "stacked"} -> {Platform} \cup Lookup(t)
    [] pc[t] = "run" -> {Platform, Own("stack", t), Own("communicators", t)} \cup Lookup(t)
    [] pc[t] = "stopped" -> {Platform, Own("stack", t)} \cup Lookup(t)
    [] pc[t] \in {"send", "recv", "stop"} ->
         {Platform, Archi, Own("stack", t), Own("communicators", t)} \cup Lookup(t)
    [] pc[t] = "join" ->
         {Platform, Archi, Own("stack", t)} \cup {Own("entry", l) : l \in LRT}
    [] OTHER -> {}

(* A thread uses only what has been set up and not yet freed, whichever    *)
(* thread does that: no lookup among entries that are not registered, no   *)
(* LRT without its stack, no LRT at work on what the destructor has freed. *)
(* But the architecture, freed before the destructor (spider.cpp:240), may *)
(* be lost to the GRT there; nothing else is, also when the LRT_STOPs then *)
(* go to the wrong LRTs.                                                   *)
OnlyArchiIsLost ==
  \A t \in LRT : \A o \in Uses(t) :
    status[o] = "live" \/ (o = Archi /\ t = grt /\ pc[grt] \in {"stop", "join"})

(* "Wait for LRTs to finish" (spider.cpp:167): when iterate returns, every *)
(* LRT that has jobs has finished them, and no end of iteration is left    *)
(* for the next call to count.                                             *)
IterateWaits ==
  At(grt, "idle") =>
    \A l \in schedule : done[l] = iteration /\ finished[l] = 0

(* Neither init nor iterate nor clean hangs at a barrier or a queue.       *)
CallsReturn == []<>(pc[grt] \in {"idle", "done"})
=============================================================================

--------------------------- MODULE Platform_proofs ---------------------------
(***************************************************************************)
(* Proofs about Platform: the barrier keeps the threads in step, so that   *)
(* nobody uses what is not set up or already freed, but for the            *)
(* architecture, and iterate returns only when every LRT with jobs has     *)
(* finished them, as long as it waits for as many LRTs as have jobs.       *)
(***************************************************************************)
EXTENDS PlatformHistory, FiniteSetTheorems, SequenceTheorems, TLAPS

-----------------------------------------------------------------------------
(* The phases between the barriers.  A thread that the barrier has         *)
(* released, but that has not left it yet, is in the next phase.           *)

Early(t) ==
  \/ pc[t] \in {"none", "created", "registered", "spawn"}
  \/ pc[t] = "registration" /\ t \in waiting
Starting(t) ==
  \/ pc[t] = "registration" /\ t \notin waiting
  \/ pc[t] \in {"starting", "ready"}
  \/ pc[t] = "stacked" /\ t # grt
  \/ pc[t] = "readiness" /\ t \in waiting
Working(t) ==
  \/ pc[t] = "readiness" /\ t \notin waiting
  \/ pc[t] \in {"run", "stopped", "cleaned", "idle", "send", "recv", "stop"}
  \/ pc[t] = "stacked" /\ t = grt
  \/ pc[t] = "end" /\ t \in waiting
Ending(t) ==
  \/ pc[t] = "end" /\ t \notin waiting
  \/ pc[t] \in {"exited", "join", "done"}

(* All threads are in the same phase; the barrier holds threads that have  *)
(* arrived there, but never all of them.                                   *)
InStep ==
  /\ \/ \A t \in LRT : Early(t)
     \/ \A t \in LRT : Starting(t)
     \/ \A t \in LRT : Working(t)
     \/ \A t \in LRT : Ending(t)
  /\ \A t \in waiting : pc[t] \in {"registration", "readiness", "end"}
  /\ waiting # LRT

(* What the GRT does and what an LRT's thread does.                        *)
Roles ==
  /\ pc[grt] \in {"spawn", "registration", "starting", "ready", "readiness", "stacked",
                  "idle", "send", "recv", "stop", "end", "join", "done"}
  /\ \A t \in Others :
       pc[t] \in {"none", "created", "registered", "registration", "starting", "stacked",
                  "ready", "readiness", "run", "stopped", "cleaned", "end", "exited"}
  /\ At(grt, "spawn") => \A t \in Others : t >= sentTo => pc[t] = "none"
  /\ At(grt, "done") => \A t \in Others : At(t, "exited")
  /\ pc[grt] \notin {"spawn", "send", "stop"} => sentTo = 0

(* What is live, as long as the platform is: the architecture until it is  *)
(* destroyed, the entries of the threads that have registered, the stacks  *)
(* and communicators of those at work.                                     *)
Closing == pc[grt] \in {"stop", "end", "join", "done"}
NeedsEntry(t) == pc[t] \notin {"none", "created"}
NeedsStack(t) ==
  \/ pc[t] \in {"stacked", "ready", "readiness", "run", "stopped", "idle", "send", "recv",
                "stop", "join"}
  \/ t = grt /\ pc[t] = "end"
NeedsCommunicators(t) ==
  \/ pc[t] \in {"run", "stopped", "idle", "send", "recv", "stop"}
  \/ t # grt /\ pc[t] \in {"ready", "readiness"}
SetUp ==
  ~At(grt, "done") =>
    /\ status[Platform] = "live"
    /\ ~Closing => status[Archi] = "live"
    /\ \A t \in LRT :
         /\ NeedsEntry(t) => status[Own("entry", t)] = "live"
         /\ NeedsStack(t) => status[Own("stack", t)] = "live"
         /\ NeedsCommunicators(t) => status[Own("communicators", t)] = "live"

PhaseInv == TypeOK /\ InStep /\ Roles /\ SetUp

-----------------------------------------------------------------------------
(* Iterations, as long as the schedule has jobs for as many PEs as are     *)
(* enabled when iterate is called.                                         *)

(* Where LRT l, which has jobs, is in the current iteration.               *)
Rested(l) == notifQueue[l] = <<>> /\ finished[l] = 0 /\ done[l] = iteration - 1
Told(l) == notifQueue[l] = <<"LRT_END_ITERATION">> /\ finished[l] = 0 /\ done[l] = iteration - 1
Answered(l) == notifQueue[l] = <<>> /\ finished[l] = 1 /\ done[l] = iteration
Counted(l) == notifQueue[l] = <<>> /\ finished[l] = 0 /\ done[l] = iteration

Busy == schedule \ {grt}
CountedOnes == {l \in Busy : Counted(l)}

BeforeIterations ==
  /\ \A l \in LRT : notifQueue[l] = <<>> /\ finished[l] = 0 /\ done[l] = 0
  /\ schedule = {} /\ nFinishedPE = 0 /\ pc[grt] \notin {"send", "recv"}

(* The GRT between two calls of iterate or in one; only LRTs with jobs     *)
(* answer, and in an iteration as many PEs are enabled as have jobs.       *)
InIteration ==
  /\ grt \in schedule
  /\ pc[grt] \in {"send", "recv"} => Cardinality(schedule) = Cardinality(enabled)
  /\ \A l \in LRT \ Busy : finished[l] = 0
  /\ pc[grt] \in {"idle", "send", "recv"}
  /\ At(grt, "idle") =>
       /\ \A l \in Busy : Counted(l)
       /\ done[grt] = iteration /\ nFinishedPE = 0
  /\ At(grt, "send") =>
       /\ \A l \in Busy : IF l < sentTo THEN Told(l) \/ Answered(l) ELSE Rested(l)
       /\ done[grt] = iteration - 1 /\ nFinishedPE = 0
  /\ At(grt, "recv") =>
       /\ \A l \in Busy : Told(l) \/ Answered(l) \/ Counted(l)
       /\ done[grt] = iteration /\ nFinishedPE = Cardinality(CountedOnes)

CallInv ==
  ~Closing => IF iteration = 0 THEN BeforeIterations ELSE InIteration
-----------------------------------------------------------------------------
(* The phase invariant.                                                    *)

LEMMA PhaseInit == Init => PhaseInv
<1> SUFFICES ASSUME Init PROVE PhaseInv
  OBVIOUS
<1> USE PlatformAssumption DEF Init
<1>1. grt \in LRT /\ LRT # {}
  OBVIOUS
<1>2. TypeOK
  BY <1>1 DEF TypeOK, LRT
<1>3. InStep
  BY <1>1 DEF InStep, Early
<1>4. Roles
  BY <1>1 DEF Roles, At, Others
<1>5. SetUp
  <2>1. /\ Platform \in Objects /\ Archi \in Objects
        /\ \A t \in LRT : Own("entry", t) \in Objects
    BY <1>1 DEF Platform, Archi, Objects, Shared, Own
  <2>2. /\ status[Platform] = "live" /\ status[Archi] = "live"
        /\ status[Own("entry", grt)] = "live"
    BY <1>1, <2>1
  <2>3. \A t \in LRT : pc[t] = IF t = grt THEN "spawn" ELSE "none"
    OBVIOUS
  <2> QED
    BY <2>2, <2>3 DEF SetUp, NeedsEntry, NeedsStack, NeedsCommunicators
<1> QED
  BY <1>2, <1>3, <1>4, <1>5 DEF PhaseInv

(* A thread is in one phase at a time, and at a barrier it waits at the    *)
(* one that ends its phase.                                                *)
LEMMA OnePhase ==
  ASSUME NEW t
  PROVE  /\ Early(t) => ~Starting(t) /\ ~Working(t) /\ ~Ending(t)
         /\ Starting(t) => ~Working(t) /\ ~Ending(t)
         /\ Working(t) => ~Ending(t)
BY DEF Early, Starting, Working, Ending

(* The steps of a thread between two barriers.                             *)
Moves(t, p) ==
  /\ t \in LRT /\ t \notin waiting /\ Go(t, p) /\ waiting' = waiting
  /\ \/ pc[t] \in {"none", "created"} /\ p \in {"created", "registered"}
     \/ pc[t] = "starting" /\ p \in {"ready", "stacked"} /\ (p = "stacked" => t # grt)
     \/ pc[t] = "stacked" /\ t # grt /\ p = "ready"
     \/ pc[t] = "stacked" /\ t = grt /\ p = "idle"
     \/ /\ pc[t] \in {"run", "stopped", "idle", "send", "recv"}
        /\ p \in {"stopped", "cleaned", "idle", "send", "recv", "stop"}
     \/ pc[t] = "join" /\ p = "done"

LEMMA MoveKeepsStep ==
  ASSUME PhaseInv, NEW t, NEW p, Moves(t, p)
  PROVE  InStep'
<1>1. \A u \in LRT : u # t => pc'[u] = pc[u]
  BY DEF PhaseInv, TypeOK, Moves, Go
<1>2. t \in LRT /\ t \notin waiting /\ waiting' = waiting /\ pc'[t] = p
  BY DEF PhaseInv, TypeOK, Moves, Go
<1>3. \A u \in LRT : u # t => /\ Early(u) => Early(u)'
                              /\ Starting(u) => Starting(u)'
                              /\ Working(u) => Working(u)'
                              /\ Ending(u) => Ending(u)'
  BY <1>1, <1>2 DEF Early, Starting, Working, Ending
<1>4. /\ Early(t) => Early(t)'
      /\ Starting(t) => Starting(t)'
      /\ Working(t) => Working(t)'
      /\ Ending(t) => Ending(t)'
  BY <1>2 DEF Moves, Early, Starting, Working, Ending
<1>5. \A u \in waiting' : pc'[u] \in {"registration", "readiness", "end"}
  BY <1>1, <1>2 DEF PhaseInv, InStep, TypeOK
<1> QED
  BY <1>2, <1>3, <1>4, <1>5 DEF PhaseInv, InStep

LEMMA ArriveKeepsStep ==
  ASSUME PhaseInv, NEW t \in LRT, Arrive(t)
  PROVE  InStep'
<1> DEFINE B == WaitsFor(t)
<1>1. \A u \in LRT : u # t => pc'[u] = pc[u]
  BY DEF PhaseInv, TypeOK, Arrive, Go
<1>2. pc'[t] = B /\ t \notin waiting
  BY DEF PhaseInv, TypeOK, InStep, Arrive, Go, BeforeBarrier
<1>3. \/ Early(t) /\ B = "registration"
      \/ Starting(t) /\ B = "readiness"
      \/ Working(t) /\ B = "end"
  BY DEF Arrive, BeforeBarrier, WaitsFor, At, Early, Starting, Working, PhaseInv, Roles
<1>4. \A u \in waiting : u \in LRT /\ pc[u] = B
  BY <1>3, OnePhase DEF PhaseInv, TypeOK, InStep, Early, Starting, Working
<1>5. CASE waiting \cup {t} = LRT
  <2>1. waiting' = {} /\ \A u \in LRT : pc'[u] = B
    BY <1>1, <1>2, <1>4, <1>5 DEF Arrive
  <2>2. \/ \A u \in LRT : Starting(u)'
        \/ \A u \in LRT : Working(u)'
        \/ \A u \in LRT : Ending(u)'
    BY <1>3, <2>1 DEF Starting, Working, Ending
  <2> QED
    BY <2>1, <2>2 DEF InStep
<1>6. CASE waiting \cup {t} # LRT
  <2>1. waiting' = waiting \cup {t}
    BY <1>6 DEF Arrive
  <2>2. \A u \in LRT : u # t => /\ Early(u) => Early(u)'
                                /\ Starting(u) => Starting(u)'
                                /\ Working(u) => Working(u)'
    BY <1>1, <2>1 DEF Early, Starting, Working
  <2>3. \/ Early(t) /\ Early(t)'
        \/ Starting(t) /\ Starting(t)'
        \/ Working(t) /\ Working(t)'
    BY <1>2, <1>3, <2>1 DEF Early, Starting, Working
  <2>4. \/ \A u \in LRT : Early(u)'
        \/ \A u \in LRT : Starting(u)'
        \/ \A u \in LRT : Working(u)'
    BY <2>2, <2>3, OnePhase DEF PhaseInv, InStep
  <2>5. \A u \in waiting' : pc'[u] \in {"registration", "readiness", "end"}
    BY <1>1, <1>2, <1>3, <1>4, <2>1 DEF PhaseInv, InStep
  <2> QED
    BY <1>6, <2>1, <2>4, <2>5 DEF InStep
<1> QED
  BY <1>5, <1>6

LEMMA LeaveKeepsStep ==
  ASSUME PhaseInv, NEW t \in LRT, Leave(t)
  PROVE  InStep'
<1>1. \A u \in LRT : u # t => pc'[u] = pc[u]
  BY DEF PhaseInv, TypeOK, Leave, Go
<1>2. t \notin waiting /\ waiting' = waiting
  BY DEF Leave
<1>3. \A u \in LRT : u # t => /\ Starting(u) => Starting(u)'
                              /\ Working(u) => Working(u)'
                              /\ Ending(u) => Ending(u)'
  BY <1>1, <1>2 DEF Starting, Working, Ending
<1>4. \/ Starting(t) /\ Starting(t)'
      \/ Working(t) /\ Working(t)'
      \/ Ending(t) /\ Ending(t)'
  BY <1>2 DEF PhaseInv, TypeOK, Leave, Go, At, Starting, Working, Ending
<1>5. \A u \in waiting' : pc'[u] \in {"registration", "readiness", "end"}
  BY <1>1, <1>2 DEF PhaseInv, InStep, TypeOK
<1>6. \/ \A u \in LRT : Starting(u)'
      \/ \A u \in LRT : Working(u)'
      \/ \A u \in LRT : Ending(u)'
  BY <1>3, <1>4, OnePhase DEF PhaseInv, InStep
<1> QED
  BY <1>2, <1>5, <1>6 DEF PhaseInv, InStep

LEMMA StepIsKept == PhaseInv /\ [Next]_vars => InStep'
<1> SUFFICES ASSUME PhaseInv, [Next]_vars PROVE InStep'
  OBVIOUS
<1>1. CASE UNCHANGED <<pc, waiting>>
  BY <1>1 DEF PhaseInv, InStep, Early, Starting, Working, Ending
<1>2. CASE \E t \in LRT : Arrive(t)
  BY <1>2, ArriveKeepsStep
<1>3. CASE \E t \in LRT : Leave(t)
  BY <1>3, LeaveKeepsStep
<1>4. CASE \E t, p : Moves(t, p)
  BY <1>4, MoveKeepsStep
<1>5. grt \in LRT /\ \A t \in LRT : At(t, "spawn") => t = grt
  BY PlatformAssumption DEF PhaseInv, Roles, At, Others
<1>6. ASSUME NEW t \in LRT, Thread(t) PROVE InStep'
  <2>1. CASE Register(t)
    <3>1. Moves(t, "registered")
      BY <2>1 DEF Register, Moves, At, PhaseInv, InStep
    <3> QED
      BY <3>1, <1>4
  <2>2. CASE InitStack(t)
    <3>1. Moves(t, IF t = grt THEN "ready" ELSE "stacked")
      BY <2>2 DEF InitStack, Moves, At, PhaseInv, InStep
    <3> QED
      BY <3>1, <1>4
  <2>3. CASE SetCommunicators(t)
    <3>1. Moves(t, IF t = grt THEN "idle" ELSE "ready")
      BY <2>3 DEF SetCommunicators, Moves, At, PhaseInv, InStep
    <3> QED
      BY <3>1, <1>4
  <2>4. CASE HandleEndIteration(t)
    BY <2>4, <1>1 DEF HandleEndIteration
  <2>5. CASE HandleStop(t)
    <3>1. Moves(t, "stopped")
      BY <2>5 DEF HandleStop, Pop, Moves, At, PhaseInv, InStep
    <3> QED
      BY <3>1, <1>4
  <2>6. CASE CleanStack(t)
    <3>1. Moves(t, "cleaned")
      BY <2>6 DEF CleanStack, Moves, At, PhaseInv, InStep
    <3> QED
      BY <3>1, <1>4
  <2> QED
    BY <1>2, <1>3, <1>6, <2>1, <2>2, <2>3, <2>4, <2>5, <2>6 DEF Thread
<1>7. CASE Spawn
  <2>1. CASE sentTo = grt
    BY <1>1, <1>7, <2>1 DEF Spawn
  <2>2. CASE sentTo # grt
    <3>1. sentTo \in LRT /\ pc[sentTo] = "none"
      <4>1. At(grt, "spawn") /\ sentTo \in 0 .. nLrt /\ sentTo < nLrt /\ nLrt \in Nat
        BY <1>7, PlatformAssumption DEF Spawn, PhaseInv, TypeOK
      <4>2. sentTo \in Others /\ sentTo >= sentTo
        BY <2>2, <4>1 DEF LRT, Others
      <4> QED
        BY <4>1, <4>2 DEF PhaseInv, Roles, Others
    <3>2. Moves(sentTo, "created")
      BY <1>7, <2>2, <3>1 DEF Spawn, Moves, Go, PhaseInv, InStep
    <3> QED
      BY <3>2, <1>4
  <2> QED
    BY <2>1, <2>2
<1>8. CASE RunUntilNoMoreJobs
  <2>1. Moves(grt, "recv")
    BY <1>5, <1>8 DEF RunUntilNoMoreJobs, Moves, At, PhaseInv, InStep
  <2> QED
    BY <2>1, <1>4
<1>9. CASE IterateReturns
  <2>1. Moves(grt, "idle")
    BY <1>5, <1>9 DEF IterateReturns, Moves, At, PhaseInv, InStep
  <2> QED
    BY <2>1, <1>4
<1>10. CASE Iterate
  <2>1. Moves(grt, "send")
    BY <1>5, <1>10 DEF Iterate, Moves, At, PhaseInv, InStep
  <2> QED
    BY <2>1, <1>4
<1>11. CASE Clean
  <2>1. Moves(grt, "stop")
    BY <1>5, <1>11 DEF Clean, Moves, At, PhaseInv, InStep
  <2> QED
    BY <2>1, <1>4
<1>12. CASE JoinAndFree
  <2>1. Moves(grt, "done")
    BY <1>5, <1>12 DEF JoinAndFree, Moves, At, PhaseInv, InStep
  <2> QED
    BY <2>1, <1>4
<1>13. CASE \/ SendEndIteration \/ ReceiveFinished \/ SendStop \/ Terminated
            \/ (\E t \in LRT : ChangePE(t)) \/ UNCHANGED vars
  BY <1>1, <1>13 DEF SendEndIteration, ReceiveFinished, SendStop, Terminated, ChangePE, vars
<1> QED
  BY <1>6, <1>7, <1>8, <1>9, <1>10, <1>11, <1>12, <1>13 DEF Next, Grt
-----------------------------------------------------------------------------
(* The types.                                                              *)

(* The GRT waits for one message less than there are enabled PEs.          *)
LEMMA EnabledAreCounted ==
  ASSUME TypeOK
  PROVE  IsFiniteSet(enabled) /\ NPEToWait \in 0 .. nLrt - 1
<1>1. IsFiniteSet(LRT) /\ Cardinality(LRT) = nLrt /\ nLrt \in Nat
  BY PlatformAssumption, FS_Interval DEF LRT
<1>2. IsFiniteSet(enabled) /\ Cardinality(enabled) <= nLrt
  BY <1>1, FS_Subset DEF TypeOK
<1>3. Cardinality(enabled) \in Nat /\ Cardinality(enabled) # 0
  BY <1>2, FS_CardinalityType, FS_EmptySet DEF TypeOK
<1> QED
  BY <1>1, <1>2, <1>3 DEF NPEToWait

LEMMA TypesAreKept == TypeOK /\ [Next]_vars => TypeOK'
<1> SUFFICES ASSUME TypeOK, [Next]_vars PROVE TypeOK'
  OBVIOUS
<1> USE PlatformAssumption DEF TypeOK
<1>1. grt \in LRT /\ nLrt \in Nat /\ \A i \in 0 .. nLrt : i < nLrt => i \in LRT /\ i + 1 \in 0 .. nLrt
  BY DEF LRT
<1> DEFINE Messages == {"LRT_END_ITERATION", "LRT_STOP"}
<1>2. ASSUME NEW t \in LRT, Thread(t) PROVE TypeOK'
  <2>1. CASE Arrive(t)
    <3>1. WaitsFor(t) \in {"registration", "readiness", "end"}
      BY DEF WaitsFor
    <3>2. sentTo' \in 0 .. nLrt
      BY <1>1, <2>1 DEF Arrive
    <3> QED
      BY <2>1, <3>1, <3>2 DEF Arrive, Go, runVars
  <2>2. CASE Leave(t)
    BY <2>2 DEF Leave, Go, runVars
  <2>3. CASE Register(t)
    BY <2>3 DEF Register, Set, Go, runVars
  <2>4. CASE InitStack(t)
    BY <2>4 DEF InitStack, Set, Go, runVars
  <2>5. CASE SetCommunicators(t)
    BY <2>5 DEF SetCommunicators, Set, Go, runVars
  <2>6. CASE HandleEndIteration(t)
    <3>1. notifQueue' \in [LRT -> Seq(Messages)]
      BY <2>6 DEF HandleEndIteration, Pop
    <3>2. finished' \in [LRT -> Nat] /\ done' \in [LRT -> Nat]
      <4>1. finished \in [LRT -> Nat] /\ done \in [LRT -> Nat]
        OBVIOUS
      <4>2. \/ finished' = [finished EXCEPT ![t] = @ + 1] /\ done' = [done EXCEPT ![t] = @ + 1]
            \/ finished' = finished /\ done' = done
        BY <2>6 DEF HandleEndIteration
      <4> HIDE DEF TypeOK
      <4> QED
        BY <4>1, <4>2
    <3> QED
      BY <2>6, <3>1, <3>2 DEF HandleEndIteration
  <2>7. CASE HandleStop(t)
    <3>1. notifQueue' \in [LRT -> Seq(Messages)]
      BY <2>7 DEF HandleStop, Pop
    <3> QED
      BY <2>7, <3>1 DEF HandleStop, Go
  <2>8. CASE CleanStack(t)
    BY <2>8 DEF CleanStack, Set, Go, runVars
  <2> QED
    BY <1>2, <2>1, <2>2, <2>3, <2>4, <2>5, <2>6, <2>7, <2>8 DEF Thread
<1>3. CASE Spawn
  BY <1>1, <1>3 DEF Spawn, runVars
<1>4. ASSUME NEW m \in Messages, sentTo < nLrt, Send(m)
      PROVE  notifQueue' \in [LRT -> Seq(Messages)] /\ sentTo' \in 0 .. nLrt
  BY <1>1, <1>4 DEF Send
<1>5. CASE SendEndIteration
  BY <1>4, <1>5 DEF SendEndIteration
<1>6. CASE RunUntilNoMoreJobs
  <2>1. notifQueue' \in [LRT -> Seq(Messages)]
    BY <1>1, <1>6 DEF RunUntilNoMoreJobs
  <2> QED
    BY <1>1, <1>6, <2>1 DEF RunUntilNoMoreJobs, Go
<1>7. CASE ReceiveFinished
  <2>1. nFinishedPE' \in 0 .. nLrt - 1
    BY <1>1, <1>7, EnabledAreCounted, SMTT(30) DEF ReceiveFinished
  <2>2. finished' \in [LRT -> Nat]
    <3>1. PICK l \in Others : finished[l] > 0 /\ finished' = [finished EXCEPT ![l] = @ - 1]
      BY <1>7 DEF ReceiveFinished
    <3>2. finished \in [LRT -> Nat] /\ l \in LRT
      BY DEF Others
    <3>3. finished[l] - 1 \in Nat
      BY <3>1, <3>2
    <3> HIDE DEF TypeOK
    <3> QED
      BY <3>1, <3>2, <3>3
  <2> QED
    BY <1>7, <2>1, <2>2 DEF ReceiveFinished
<1>8. CASE IterateReturns
  BY <1>1, <1>8 DEF IterateReturns, Go
<1>9. CASE SendStop
  <2>1. sentTo < nLrt /\ notifQueue' \in [LRT -> Seq(Messages)] /\ sentTo' \in 0 .. nLrt
    BY <1>1, <1>4, <1>9 DEF SendStop
  <2> QED
    BY <1>9, <2>1 DEF SendStop
<1>10. CASE JoinAndFree
  BY <1>10 DEF JoinAndFree, Set, Go, runVars
<1>11. ASSUME NEW t \in LRT, ChangePE(t) PROVE TypeOK'
  BY <1>11 DEF ChangePE, runVars
<1>12. CASE Iterate
  BY <1>12 DEF Iterate, Go
<1>13. CASE Clean
  BY <1>13 DEF Clean, Set, Go, runVars
<1>14. CASE Terminated \/ UNCHANGED vars
  BY <1>14 DEF Terminated, vars, runVars
<1> QED
  BY <1>2, <1>3, <1>5, <1>6, <1>7, <1>8, <1>9, <1>10, <1>11, <1>12, <1>13, <1>14 DEF Next, Grt

-----------------------------------------------------------------------------
(* The roles of the threads.                                               *)

LEMMA RolesAreKept == PhaseInv /\ [Next]_vars => Roles'
<1> SUFFICES ASSUME PhaseInv, [Next]_vars PROVE Roles'
  OBVIOUS
<1> USE PlatformAssumption DEF PhaseInv, TypeOK, Roles, At, Go, Others
<1>1. grt \in LRT
  OBVIOUS
<1>2. ASSUME NEW t \in LRT, Thread(t) PROVE Roles'
  <2>1. CASE Arrive(t)
    BY <1>1, <2>1 DEF Arrive, BeforeBarrier, WaitsFor
  <2>2. CASE Leave(t)
    <3>1. /\ sentTo' = sentTo /\ \A u \in LRT : u # t => pc'[u] = pc[u]
          /\ pc[t] \in {"registration", "readiness", "end"}
      BY <2>2 DEF Leave
    <3>2. IF t = grt THEN pc'[t] \in {"starting", "stacked", "join"}
                     ELSE pc'[t] \in {"starting", "run", "exited"}
      BY <2>2 DEF Leave
    <3>3. \A u \in LRT : pc'[u] \in {"none", "spawn"} => pc'[u] = pc[u]
      BY <3>1, <3>2
    <3> HIDE <1>2
    <3> QED
      BY <1>1, <3>1, <3>2, <3>3
  <2>3. CASE Register(t)
    BY <1>1, <2>3 DEF Register
  <2>4. CASE InitStack(t)
    BY <1>1, <2>4 DEF InitStack
  <2>5. CASE SetCommunicators(t)
    BY <1>1, <2>5 DEF SetCommunicators
  <2>6. CASE HandleEndIteration(t)
    BY <1>1, <2>6 DEF HandleEndIteration
  <2>7. CASE HandleStop(t)
    BY <1>1, <2>7 DEF HandleStop, Pop
  <2>8. CASE CleanStack(t)
    BY <1>1, <2>8 DEF CleanStack
  <2> QED
    BY <1>2, <2>1, <2>2, <2>3, <2>4, <2>5, <2>6, <2>7, <2>8 DEF Thread
<1>3. CASE Spawn
  BY <1>1, <1>3, SMTT(30) DEF Spawn, LRT
<1>4. CASE SendEndIteration
  BY <1>1, <1>4 DEF SendEndIteration, Send
<1>5. CASE RunUntilNoMoreJobs
  BY <1>1, <1>5 DEF RunUntilNoMoreJobs
<1>6. CASE ReceiveFinished
  BY <1>1, <1>6 DEF ReceiveFinished
<1>7. CASE IterateReturns
  BY <1>1, <1>7 DEF IterateReturns
<1>8. CASE SendStop
  BY <1>1, <1>8 DEF SendStop, Send
<1>9. CASE JoinAndFree
  BY <1>1, <1>9 DEF JoinAndFree
<1>10. CASE \E t \in LRT : ChangePE(t)
  BY <1>1, <1>10 DEF ChangePE
<1>11. CASE Iterate
  BY <1>1, <1>11 DEF Iterate
<1>12. CASE Clean
  BY <1>1, <1>12 DEF Clean
<1>13. CASE Terminated \/ UNCHANGED vars
  BY <1>1, <1>13 DEF Terminated, vars
<1> QED
  BY <1>2, <1>3, <1>4, <1>5, <1>6, <1>7, <1>8, <1>9, <1>10, <1>11, <1>12, <1>13 DEF Next, Grt
-----------------------------------------------------------------------------
(* What is set up.                                                         *)

LEMMA ObjectsDiffer ==
  ASSUME NEW t \in LRT
  PROVE  /\ \A kind \in {"entry", "stack", "communicators"} :
              /\ Own(kind, t) \in Objects /\ Own(kind, t) # Platform /\ Own(kind, t) # Archi
              /\ \A other, u : Own(kind, t) = Own(other, u) => kind = other /\ t = u
         /\ Platform \in Objects /\ Archi \in Objects /\ Platform # Archi
BY DEF Own, Objects, Shared, Platform, Archi

(* Once the platform is being destroyed, there is no way back.             *)
LEMMA ClosingStays == PhaseInv /\ Closing /\ [Next]_vars => Closing'
<1> SUFFICES ASSUME PhaseInv, Closing, [Next]_vars PROVE Closing'
  OBVIOUS
<1> USE PlatformAssumption DEF Closing, At, Go
<1>1. grt \in LRT /\ pc = [u \in LRT |-> pc[u]]
  BY DEF PhaseInv, TypeOK
<1>2. ASSUME NEW t \in LRT, Thread(t) PROVE Closing'
  BY <1>1, <1>2 DEF Thread, Arrive, BeforeBarrier, WaitsFor, Leave, Register, InitStack,
       SetCommunicators, HandleEndIteration, HandleStop, CleanStack, Pop
<1>3. CASE Spawn \/ RunUntilNoMoreJobs \/ IterateReturns \/ JoinAndFree \/ Iterate \/ Clean
  BY <1>1, <1>3 DEF Spawn, RunUntilNoMoreJobs, IterateReturns, JoinAndFree, Iterate, Clean
<1>4. CASE \/ SendEndIteration \/ ReceiveFinished \/ SendStop \/ Terminated
           \/ (\E t \in LRT : ChangePE(t)) \/ UNCHANGED vars
  BY <1>4 DEF SendEndIteration, ReceiveFinished, SendStop, Terminated, ChangePE, vars
<1> QED
  BY <1>2, <1>3, <1>4 DEF Next, Grt

(* A step that frees nothing keeps what is set up, if the thread that      *)
(* moves needs only what it needed before or what the step sets up.        *)
LEMMA SetUpStep ==
  ASSUME PhaseInv, [Next]_vars, ~At(grt, "done"), NEW t \in LRT, NEW objects,
         \/ UNCHANGED status
         \/ Set(objects, "live"),
         \A u \in LRT : u # t => pc'[u] = pc[u],
         NeedsEntry(t)' => NeedsEntry(t) \/ status'[Own("entry", t)] = "live",
         NeedsStack(t)' => NeedsStack(t) \/ status'[Own("stack", t)] = "live",
         NeedsCommunicators(t)' =>
           NeedsCommunicators(t) \/ status'[Own("communicators", t)] = "live"
  PROVE  SetUp'
<1>1. \A o \in Objects : status[o] = "live" => status'[o] = "live"
  BY DEF Set
<1>2. \A u \in LRT : u # t => /\ NeedsEntry(u)' => NeedsEntry(u)
                              /\ NeedsStack(u)' => NeedsStack(u)
                              /\ NeedsCommunicators(u)' => NeedsCommunicators(u)
  BY DEF NeedsEntry, NeedsStack, NeedsCommunicators
<1>3. status'[Platform] = "live" /\ (~Closing' => status'[Archi] = "live")
  BY <1>1, ObjectsDiffer, ClosingStays DEF PhaseInv, SetUp
<1>4. \A u \in LRT :
        /\ NeedsEntry(u)' => status'[Own("entry", u)] = "live"
        /\ NeedsStack(u)' => status'[Own("stack", u)] = "live"
        /\ NeedsCommunicators(u)' => status'[Own("communicators", u)] = "live"
  BY <1>1, <1>2, ObjectsDiffer DEF PhaseInv, SetUp
<1> QED
  BY <1>3, <1>4 DEF SetUp

LEMMA SetUpIsKept == PhaseInv /\ [Next]_vars => SetUp'
<1> SUFFICES ASSUME PhaseInv, [Next]_vars PROVE SetUp'
  OBVIOUS
<1> USE PlatformAssumption DEF At, Go
<1>1. grt \in LRT /\ pc = [u \in LRT |-> pc[u]]
  BY DEF PhaseInv, TypeOK
<1>2. CASE At(grt, "done")
  <2>1. \A t \in LRT \ {grt} : pc[t] = "exited"
    BY <1>2 DEF PhaseInv, Roles, Others
  <2>2. pc' = pc
    BY <1>1, <1>2, <2>1
       DEF Next, Grt, Thread, Arrive, BeforeBarrier, Leave, Register, InitStack,
         SetCommunicators, HandleEndIteration, HandleStop, CleanStack, Pop, Spawn,
         SendEndIteration, RunUntilNoMoreJobs, ReceiveFinished, IterateReturns, SendStop,
         JoinAndFree, ChangePE, Iterate, Clean, Terminated, vars
  <2> QED
    BY <1>2, <2>2 DEF SetUp
<1> SUFFICES ASSUME ~At(grt, "done") PROVE SetUp'
  BY <1>2
<1>3. CASE UNCHANGED <<pc, status>>
  BY <1>1, <1>3, SetUpStep DEF NeedsEntry, NeedsStack, NeedsCommunicators
<1>4. ASSUME NEW t \in LRT, Thread(t) PROVE SetUp'
  <2> USE DEF NeedsEntry, NeedsStack, NeedsCommunicators
  <2>1. CASE Arrive(t)
    BY <1>1, <2>1, SetUpStep DEF Arrive, BeforeBarrier, WaitsFor, PhaseInv, Roles, Others
  <2>2. CASE Leave(t)
    BY <1>1, <2>2, SetUpStep DEF Leave
  <2>3. CASE Register(t)
    <3>1. Set({Own("entry", t)}, "live")
      BY <2>3 DEF Register
    <3>2. status'[Own("entry", t)] = "live"
      BY <3>1, ObjectsDiffer DEF Set
    <3>3. \A u \in LRT : u # t => pc'[u] = pc[u]
      BY <1>1, <2>3 DEF Register
    <3> QED
      BY <1>1, <2>3, <3>1, <3>2, <3>3, SetUpStep DEF Register
  <2>4. CASE InitStack(t)
    <3>1. Set({Own("stack", t)}, "live")
      BY <2>4 DEF InitStack
    <3>2. status'[Own("stack", t)] = "live"
      BY <3>1, ObjectsDiffer DEF Set
    <3>3. \A u \in LRT : u # t => pc'[u] = pc[u]
      BY <1>1, <2>4 DEF InitStack
    <3> QED
      BY <1>1, <2>4, <3>1, <3>2, <3>3, SetUpStep DEF InitStack
  <2>5. CASE SetCommunicators(t)
    <3>1. Set({Own("communicators", t)}, "live")
      BY <2>5 DEF SetCommunicators
    <3>2. status'[Own("communicators", t)] = "live"
      BY <3>1, ObjectsDiffer DEF Set
    <3>3. \A u \in LRT : u # t => pc'[u] = pc[u]
      BY <1>1, <2>5 DEF SetCommunicators
    <3> QED
      BY <1>1, <2>5, <3>1, <3>2, <3>3, SetUpStep DEF SetCommunicators
  <2>6. CASE HandleEndIteration(t)
    BY <1>3, <2>6 DEF HandleEndIteration
  <2>7. CASE HandleStop(t)
    BY <1>1, <2>7, SetUpStep DEF HandleStop, Pop
  <2>8. CASE CleanStack(t)
    <3>1. /\ pc' = [pc EXCEPT ![t] = "cleaned"]
          /\ \A o \in Objects : o # Own("stack", t) => status'[o] = status[o]
      BY <2>8 DEF CleanStack, Set
    <3>2. pc[t] = "stopped" /\ t # grt
      BY <2>8 DEF CleanStack, PhaseInv, Roles
    <3>3. /\ status'[Platform] = "live" /\ (~Closing' => status'[Archi] = "live")
      BY <3>1, ObjectsDiffer, ClosingStays DEF PhaseInv, SetUp
    <3>4. \A u \in LRT : NeedsEntry(u)' => status'[Own("entry", u)] = "live"
      BY <1>1, <3>1, <3>2, ObjectsDiffer DEF PhaseInv, SetUp
    <3>5. \A u \in LRT : NeedsStack(u)' => status'[Own("stack", u)] = "live"
      BY <1>1, <3>1, <3>2, ObjectsDiffer DEF PhaseInv, SetUp
    <3>6. \A u \in LRT : NeedsCommunicators(u)' => status'[Own("communicators", u)] = "live"
      BY <1>1, <3>1, <3>2, ObjectsDiffer DEF PhaseInv, SetUp
    <3> QED
      BY <3>3, <3>4, <3>5, <3>6 DEF SetUp
  <2> QED
    BY <1>4, <2>1, <2>2, <2>3, <2>4, <2>5, <2>6, <2>7, <2>8 DEF Thread
<1>5. CASE Spawn
  <2>1. sentTo \in LRT
    BY <1>5 DEF Spawn, PhaseInv, TypeOK, LRT
  <2> QED
    BY <1>1, <1>5, <2>1, SetUpStep DEF Spawn, NeedsEntry, NeedsStack, NeedsCommunicators
<1>6. CASE RunUntilNoMoreJobs \/ IterateReturns \/ Iterate
  BY <1>1, <1>6, SetUpStep
     DEF RunUntilNoMoreJobs, IterateReturns, Iterate, NeedsEntry, NeedsStack, NeedsCommunicators
<1>7. CASE Clean
  <2>1. /\ pc[grt] = "idle" /\ pc' = [pc EXCEPT ![grt] = "stop"]
        /\ \A o \in Objects : o # Archi => status'[o] = status[o]
    BY <1>7 DEF Clean, Set
  <2>2. status'[Platform] = "live" /\ Closing'
    BY <1>1, <2>1, ObjectsDiffer DEF PhaseInv, SetUp, Closing
  <2>3. \A u \in LRT : /\ NeedsEntry(u)' => NeedsEntry(u)
                       /\ NeedsStack(u)' => NeedsStack(u)
                       /\ NeedsCommunicators(u)' => NeedsCommunicators(u)
    BY <1>1, <2>1 DEF NeedsEntry, NeedsStack, NeedsCommunicators
  <2>4. \A u \in LRT : \A kind \in {"entry", "stack", "communicators"} :
          status'[Own(kind, u)] = status[Own(kind, u)]
    BY <2>1, ObjectsDiffer
  <2> QED
    BY <2>2, <2>3, <2>4 DEF PhaseInv, SetUp
<1>8. CASE JoinAndFree
  BY <1>1, <1>8 DEF JoinAndFree, SetUp
<1>9. CASE \/ SendEndIteration \/ ReceiveFinished \/ SendStop \/ Terminated
           \/ (\E t \in LRT : ChangePE(t)) \/ UNCHANGED vars
  BY <1>3, <1>9 DEF SendEndIteration, ReceiveFinished, SendStop, Terminated, ChangePE, vars
<1> QED
  BY <1>4, <1>5, <1>6, <1>7, <1>8, <1>9 DEF Next, Grt

-----------------------------------------------------------------------------
(* The inductive invariant of init and clean, for any number of LRTs: all  *)
(* threads are between the same two barriers, and what a thread needs      *)
(* there is set up and not yet freed.                                      *)
THEOREM PhasesHold == Spec => []PhaseInv
<1>1. Init => PhaseInv
  BY PhaseInit
<1>2. PhaseInv /\ [Next]_vars => PhaseInv'
  BY TypesAreKept, StepIsKept, RolesAreKept, SetUpIsKept DEF PhaseInv
<1> QED
  BY <1>1, <1>2, PTL DEF Spec

(* The variables of the platform keep their types: no loop over the LRTs   *)
(* leaves their range, and no more ends of iteration are counted than      *)
(* there are LRTs.                                                         *)
THEOREM TypeCorrect == Spec => []TypeOK
<1>1. PhaseInv => TypeOK
  BY DEF PhaseInv
<1> QED
  BY <1>1, PhasesHold, PTL

(* No thread uses what is not set up yet or already freed, the destructor's *)
(* use of the architecture excepted: lookups find the entries of all       *)
(* threads registered, no LRT works without its stack and communicators,   *)
(* and they are freed when all threads are done.                           *)
THEOREM UsesHold == Spec => []OnlyArchiIsLost
<1>1. PhaseInv => OnlyArchiIsLost
  <2> SUFFICES ASSUME PhaseInv, NEW t \in LRT, NEW o \in Uses(t), status[o] # "live"
               PROVE  o = Archi /\ t = grt /\ pc[grt] \in {"stop", "join"}
    BY DEF OnlyArchiIsLost
  <2> USE PlatformAssumption
  <2>1. CASE pc[t] \in {"starting", "stacked", "run", "stopped", "send", "recv", "stop", "join"}
    <3>1. ~At(grt, "done")
      BY <2>1 DEF PhaseInv, Roles, At, Others
    <3>2. \A u \in LRT : NeedsEntry(u)
      BY <2>1, OnePhase DEF PhaseInv, InStep, Early, Starting, Working, Ending, NeedsEntry
    <3>3. /\ status[Platform] = "live" /\ (~Closing => status[Archi] = "live")
          /\ \A u \in LRT : status[Own("entry", u)] = "live"
      BY <3>1, <3>2 DEF PhaseInv, SetUp
    <3>4. Lookup(t) \subseteq {Own("entry", u) : u \in LRT}
      BY DEF Lookup, LRT
    <3>5. NeedsStack(t) => status[Own("stack", t)] = "live"
      BY <3>1 DEF PhaseInv, SetUp
    <3>6. NeedsCommunicators(t) => status[Own("communicators", t)] = "live"
      BY <3>1 DEF PhaseInv, SetUp
    <3>7. pc[t] \in {"send", "recv", "stop", "join"} => t = grt
      BY DEF PhaseInv, Roles, Others
    <3>8. o = Archi => pc[t] \in {"send", "recv", "stop", "join"}
      BY <2>1, <3>4, ObjectsDiffer DEF Uses
    <3>9. o = Archi
      BY <2>1, <3>3, <3>4, <3>5, <3>6 DEF Uses, NeedsStack, NeedsCommunicators
    <3> QED
      BY <3>3, <3>7, <3>8, <3>9 DEF Closing
  <2> QED
    BY <2>1 DEF Uses
<1> QED
  BY <1>1, PhasesHold, PTL
-----------------------------------------------------------------------------
(* Iterations.                                                             *)

LEMMA CallInit == Init => CallInv
<1> SUFFICES ASSUME Init PROVE CallInv
  OBVIOUS
<1>1. pc[grt] = "spawn"
  BY PlatformAssumption DEF Init
<1> QED
  BY <1>1 DEF Init, CallInv, BeforeIterations

(* A step that leaves the iteration alone.                                 *)
LEMMA CallStutter ==
  ASSUME CallInv, ~Closing, UNCHANGED <<runVars, sentTo>>,
         \/ /\ iteration # 0 /\ pc'[grt] = pc[grt]
            /\ UNCHANGED enabled \/ pc[grt] \notin {"send", "recv"}
         \/ iteration = 0 /\ pc'[grt] \notin {"send", "recv"}
  PROVE  CallInv'
<1>1. UNCHANGED <<notifQueue, finished, done, schedule, nFinishedPE, iteration, sentTo>>
  BY DEF runVars
<1>2. CASE iteration = 0
  BY <1>1, <1>2 DEF CallInv, BeforeIterations
<1>3. CASE iteration # 0
  <2>1. UNCHANGED <<Busy, CountedOnes>>
    BY <1>1 DEF Busy, CountedOnes, Counted
  <2>2. InIteration
    BY <1>3 DEF CallInv
  <2>3. InIteration'
    BY <1>1, <1>3, <2>1, <2>2 DEF InIteration, Counted, Rested, Told, Answered, At
  <2> QED
    BY <1>1, <1>3, <2>3 DEF CallInv
<1> QED
  BY <1>2, <1>3

(* The steps of threads leave it alone, the ones that read a message       *)
(* excepted.                                                               *)
LEMMA CallThread ==
  ASSUME PhaseInv, CallInv, ~Closing, ~Closing', NEW t \in LRT,
         Thread(t), ~HandleEndIteration(t), ~HandleStop(t)
  PROVE  CallInv'
<1> USE PlatformAssumption DEF At, Go
<1>1. grt \in LRT /\ pc = [u \in LRT |-> pc[u]]
  BY DEF PhaseInv, TypeOK
<1>2. /\ UNCHANGED runVars /\ UNCHANGED enabled
      /\ t # grt => UNCHANGED sentTo /\ pc'[grt] = pc[grt]
  BY <1>1 DEF Thread, Arrive, Leave, Register, InitStack, SetCommunicators, CleanStack, runVars
<1>3. iteration # 0 => pc[grt] \in {"idle", "send", "recv"}
  BY DEF CallInv, InIteration
<1>4. iteration = 0 => pc[grt] \notin {"send", "recv"}
  BY DEF CallInv, BeforeIterations
<1>5. CASE t # grt
  BY <1>2, <1>4, <1>5, CallStutter
<1>6. CASE t = grt
  <2>1. iteration = 0
    BY <1>3, <1>6 DEF Thread, Arrive, BeforeBarrier, Leave, Register, InitStack,
         SetCommunicators, CleanStack
  <2>2. pc'[grt] \notin {"send", "recv"}
    BY <1>1, <1>6 DEF Thread, Arrive, WaitsFor, Leave, Register, InitStack, SetCommunicators,
         CleanStack
  <2>3. BeforeIterations'
    BY <1>2, <2>1, <2>2 DEF CallInv, BeforeIterations, runVars
  <2> QED
    BY <1>2, <2>1, <2>3 DEF CallInv, runVars
<1> QED
  BY <1>5, <1>6

(* Reading a message: only an LRT that has been told answers.              *)
LEMMA CallPop ==
  ASSUME PhaseInv, CallInv, ~Closing, NEW t \in LRT, HandleEndIteration(t) \/ HandleStop(t)
  PROVE  CallInv'
<1> USE PlatformAssumption DEF At, Go
<1>1. grt \in LRT /\ pc = [u \in LRT |-> pc[u]]
  BY DEF PhaseInv, TypeOK
<1>2. notifQueue[t] # <<>> /\ pc[t] = "run" /\ t # grt
  BY DEF HandleEndIteration, HandleStop, Pop, PhaseInv, Roles
<1>3. iteration # 0
  BY <1>2 DEF CallInv, BeforeIterations
<1>4. InIteration
  BY <1>3 DEF CallInv
<1>5. /\ UNCHANGED <<enabled, schedule, sentTo, nFinishedPE, iteration>> /\ pc'[grt] = pc[grt]
      /\ \A l \in LRT : l # t => /\ notifQueue'[l] = notifQueue[l]
                                 /\ finished'[l] = finished[l] /\ done'[l] = done[l]
  BY <1>1, <1>2 DEF HandleEndIteration, HandleStop, Pop, PhaseInv, TypeOK
<1>6. Busy' = Busy /\ Busy \subseteq LRT /\ grt \notin Busy
  BY <1>5 DEF Busy, PhaseInv, TypeOK
<1>7. \A l \in Busy : l # t => /\ Counted(l)' <=> Counted(l)
                               /\ Rested(l)' <=> Rested(l)
                               /\ Told(l)' <=> Told(l)
                               /\ Answered(l)' <=> Answered(l)
  BY <1>5, <1>6 DEF Counted, Rested, Told, Answered
<1>8. CASE t \in Busy
  <2>1. Told(t) /\ ~Counted(t)
    <3>1. ~Counted(t) /\ ~Rested(t) /\ ~Answered(t)
      BY <1>2 DEF Counted, Rested, Answered
    <3> QED
      BY <1>4, <1>8, <3>1 DEF InIteration
  <2>2. HandleEndIteration(t) /\ t \in schedule
    <3>1. Head(notifQueue[t]) = "LRT_END_ITERATION"
      BY <2>1 DEF Told
    <3> QED
      BY <1>8, <3>1 DEF HandleStop, Pop, Busy
  <2>3. /\ notifQueue'[t] = <<>> /\ finished'[t] = 1 /\ done'[t] = iteration
    <3>1. /\ notifQueue' = [notifQueue EXCEPT ![t] = Tail(@)]
          /\ finished' = [finished EXCEPT ![t] = @ + 1]
          /\ done' = [done EXCEPT ![t] = @ + 1]
      BY <2>2 DEF HandleEndIteration, Pop
    <3>2. /\ notifQueue'[t] = Tail(notifQueue[t])
          /\ finished'[t] = finished[t] + 1 /\ done'[t] = done[t] + 1
      BY <3>1 DEF PhaseInv, TypeOK
    <3>3. iteration \in Nat
      BY DEF PhaseInv, TypeOK
    <3>4. Tail(notifQueue[t]) = <<>>
      BY <2>1 DEF Told
    <3> QED
      BY <2>1, <3>2, <3>3, <3>4 DEF Told
  <2>4. Answered(t)' /\ ~Counted(t)'
    BY <1>5, <2>3 DEF Answered, Counted
  <2>5. CountedOnes' = CountedOnes
    BY <1>6, <1>7, <2>1, <2>4 DEF CountedOnes
  <2>6. \A l \in LRT \ Busy : finished'[l] = 0
    BY <1>4, <1>5, <1>8 DEF InIteration
  <2>7. done'[grt] = done[grt]
    BY <1>1, <1>2, <1>5
  <2>8. ~At(grt, "idle")
    BY <1>4, <1>8, <2>1 DEF InIteration
  <2>9. At(grt, "send") => t < sentTo
    BY <1>2, <1>4, <1>8 DEF InIteration, Rested
  <2>10. InIteration'
    BY <1>4, <1>5, <1>6, <1>7, <2>1, <2>4, <2>5, <2>6, <2>7, <2>8, <2>9 DEF InIteration
  <2> QED
    BY <1>3, <1>5, <2>10 DEF CallInv
<1>9. CASE t \notin Busy
  <2>1. t \notin schedule
    BY <1>2, <1>9 DEF Busy
  <2>2. finished' = finished /\ done' = done
    BY <2>1 DEF HandleEndIteration, HandleStop
  <2>3. \A l \in Busy : /\ Counted(l)' <=> Counted(l)
                        /\ Rested(l)' <=> Rested(l)
                        /\ Told(l)' <=> Told(l)
                        /\ Answered(l)' <=> Answered(l)
    BY <1>7, <1>9
  <2>4. CountedOnes' = CountedOnes
    BY <1>6, <2>3 DEF CountedOnes
  <2>5. InIteration'
    BY <1>4, <1>5, <1>6, <2>2, <2>3, <2>4 DEF InIteration
  <2> QED
    BY <1>3, <1>5, <2>5 DEF CallInv
<1> QED
  BY <1>8, <1>9
(* The first call makes the schedule, every call starts from rest.         *)
LEMMA CallIterate ==
  ASSUME PhaseInv, CallInv, Iterate, ~Miscounts
  PROVE  CallInv'
<1> USE PlatformAssumption DEF At, Go
<1>1. grt \in LRT /\ pc = [u \in LRT |-> pc[u]] /\ iteration \in Nat /\ grt \in enabled
  BY DEF PhaseInv, TypeOK
<1>2. /\ pc[grt] = "idle" /\ pc'[grt] = "send" /\ sentTo = 0
      /\ UNCHANGED <<notifQueue, finished, enabled, sentTo, nFinishedPE, done>>
      /\ iteration' = iteration + 1
      /\ schedule' = IF schedule = {} THEN enabled ELSE schedule
  BY <1>1 DEF Iterate, PhaseInv, Roles
<1>0. Cardinality(schedule') = Cardinality(enabled')
  BY <1>1, <1>2 DEF Miscounts, IterationBegins
<1>3. /\ grt \in schedule' /\ nFinishedPE' = 0 /\ done'[grt] = iteration' - 1
      /\ \A l \in LRT \ Busy' : finished'[l] = 0
      /\ \A l \in Busy' : Rested(l)'
  <2>1. CASE iteration = 0
    <3>1. BeforeIterations /\ Busy' \subseteq LRT
      BY <1>2, <2>1 DEF CallInv, Closing, Busy, BeforeIterations, PhaseInv, TypeOK
    <3> QED
      BY <1>1, <1>2, <2>1, <3>1 DEF BeforeIterations, Rested
  <2>2. CASE iteration # 0
    <3>1. InIteration
      BY <1>2, <2>2 DEF CallInv, Closing
    <3>2. grt \in schedule /\ schedule' = schedule
      BY <1>1, <1>2, <3>1 DEF InIteration
    <3>3. Busy' = Busy
      BY <3>2 DEF Busy
    <3> QED
      BY <1>1, <1>2, <3>1, <3>2, <3>3 DEF InIteration, Rested, Counted
  <2> QED
    BY <2>1, <2>2
<1>4. \A l \in Busy' : l \in Nat /\ ~(l < sentTo')
  BY <1>2, <1>3 DEF Busy, PhaseInv, TypeOK, LRT
<1>5. InIteration'
  BY <1>0, <1>2, <1>3, <1>4 DEF InIteration
<1>6. iteration' # 0
  BY <1>1, <1>2
<1> QED
  BY <1>5, <1>6 DEF CallInv

LEMMA CallSend ==
  ASSUME PhaseInv, CallInv, SendEndIteration
  PROVE  CallInv'
<1> USE PlatformAssumption DEF At, Go
<1>1. /\ grt \in LRT /\ sentTo \in LRT /\ sentTo \in Nat /\ iteration \in Nat
      /\ notifQueue = [l \in LRT |-> notifQueue[l]]
  BY DEF SendEndIteration, PhaseInv, TypeOK, LRT
<1>2. /\ pc[grt] = "send" /\ UNCHANGED <<pc, finished, enabled, schedule, nFinishedPE, iteration, done>>
      /\ sentTo' = sentTo + 1
      /\ notifQueue'[sentTo] = Append(notifQueue[sentTo], "LRT_END_ITERATION")
      /\ \A l \in LRT : l # sentTo => notifQueue'[l] = notifQueue[l]
  BY <1>1 DEF SendEndIteration, Send
<1>3. iteration # 0 /\ InIteration
  BY <1>2 DEF CallInv, Closing, BeforeIterations
<1>4. Busy' = Busy /\ Busy \subseteq LRT /\ \A l \in LRT : l \in Int
  BY <1>2 DEF Busy, PhaseInv, TypeOK, LRT
<1>5. ASSUME NEW l \in Busy
      PROVE  IF l < sentTo' THEN Told(l)' \/ Answered(l)' ELSE Rested(l)'
  <2>1. CASE l = sentTo
    <3>1. Rested(l)
      BY <1>1, <1>2, <1>3, <2>1 DEF InIteration
    <3>2. notifQueue'[l] = <<"LRT_END_ITERATION">>
      BY <1>2, <2>1, <3>1 DEF Rested
    <3>3. Told(l)'
      BY <1>2, <3>1, <3>2 DEF Told, Rested
    <3> QED
      BY <1>1, <1>2, <2>1, <3>3
  <2>2. CASE l # sentTo
    <3>1. l \in LRT /\ notifQueue'[l] = notifQueue[l] /\ (l < sentTo' <=> l < sentTo)
      BY <1>1, <1>2, <1>4, <2>2
    <3>2. IF l < sentTo THEN Told(l) \/ Answered(l) ELSE Rested(l)
      BY <1>2, <1>3 DEF InIteration
    <3> QED
      BY <1>2, <3>1, <3>2 DEF Told, Answered, Rested
  <2> QED
    BY <2>1, <2>2
<1>6. InIteration'
  BY <1>2, <1>3, <1>4, <1>5 DEF InIteration
<1> QED
  BY <1>2, <1>3, <1>6 DEF CallInv

LEMMA CallRun ==
  ASSUME PhaseInv, CallInv, RunUntilNoMoreJobs
  PROVE  CallInv'
<1> USE PlatformAssumption DEF At, Go
<1>1. /\ grt \in LRT /\ iteration \in Nat /\ pc = [u \in LRT |-> pc[u]]
      /\ done = [u \in LRT |-> done[u]] /\ notifQueue = [u \in LRT |-> notifQueue[u]]
  BY DEF PhaseInv, TypeOK
<1>2. /\ pc[grt] = "send" /\ pc'[grt] = "recv" /\ sentTo = nLrt
      /\ UNCHANGED <<finished, enabled, schedule, nFinishedPE, iteration>>
      /\ done'[grt] = done[grt] + 1
      /\ \A l \in LRT : l # grt => notifQueue'[l] = notifQueue[l] /\ done'[l] = done[l]
  BY <1>1 DEF RunUntilNoMoreJobs
<1>3. iteration # 0 /\ InIteration
  BY <1>2 DEF CallInv, Closing, BeforeIterations
<1>4. Busy' = Busy /\ \A l \in Busy : l \in LRT /\ l # grt /\ l < sentTo
  BY <1>2 DEF Busy, PhaseInv, TypeOK, LRT
<1>5. \A l \in Busy : Told(l) \/ Answered(l)
  BY <1>2, <1>3, <1>4 DEF InIteration
<1>6. ASSUME NEW l \in Busy PROVE (Told(l)' \/ Answered(l)') /\ ~Counted(l)'
  <2>1. /\ notifQueue'[l] = notifQueue[l] /\ done'[l] = done[l]
        /\ finished'[l] = finished[l] /\ iteration' = iteration
    BY <1>2, <1>4
  <2>2. CASE Told(l)
    BY <2>1, <2>2 DEF Told, Counted
  <2>3. CASE Answered(l)
    BY <2>1, <2>3 DEF Answered, Counted
  <2> QED
    BY <1>5, <2>2, <2>3
<1>7. CountedOnes' = {}
  BY <1>4, <1>6 DEF CountedOnes
<1>8. Cardinality(CountedOnes') = 0
  BY <1>7, FS_EmptySet
<1>9. nFinishedPE = 0 /\ done[grt] = iteration - 1
  BY <1>2, <1>3 DEF InIteration
<1>10. \A l \in LRT \ Busy' : finished'[l] = 0
  BY <1>2, <1>3, <1>4 DEF InIteration
<1>11. nFinishedPE' = Cardinality(CountedOnes') /\ done'[grt] = iteration'
  BY <1>1, <1>2, <1>8, <1>9
<1>12. nFinishedPE' = Cardinality(CountedOnes)'
  BY <1>11
<1>13. InIteration'
  BY <1>2, <1>3, <1>4, <1>6, <1>10, <1>11, <1>12 DEF InIteration
<1> QED
  BY <1>2, <1>3, <1>13 DEF CallInv

LEMMA CallReceive ==
  ASSUME PhaseInv, CallInv, ReceiveFinished
  PROVE  CallInv'
<1> USE PlatformAssumption DEF At, Go
<1>1. /\ pc[grt] = "recv" /\ nFinishedPE' = nFinishedPE + 1
      /\ UNCHANGED <<pc, notifQueue, enabled, schedule, sentTo, iteration, done>>
  BY DEF ReceiveFinished
<1>2. iteration # 0 /\ InIteration
  BY <1>1 DEF CallInv, Closing, BeforeIterations
<1>3. PICK l \in Others : finished[l] > 0 /\ finished' = [finished EXCEPT ![l] = @ - 1]
  BY DEF ReceiveFinished
<1>4. l \in LRT /\ l \in Busy /\ finished = [u \in LRT |-> finished[u]]
  BY <1>2, <1>3 DEF InIteration, Others, PhaseInv, TypeOK
<1>5. Answered(l)
  <2>1. Told(l) \/ Answered(l) \/ Counted(l)
    BY <1>1, <1>2, <1>4 DEF InIteration
  <2> QED
    BY <2>1, <1>3 DEF Told, Counted
<1>6. finished'[l] = 0 /\ \A u \in LRT : u # l => finished'[u] = finished[u]
  BY <1>3, <1>4, <1>5 DEF Answered
<1>7. Counted(l)' /\ ~Counted(l)
  BY <1>1, <1>5, <1>6 DEF Answered, Counted
<1>8. Busy' = Busy /\ Busy \subseteq LRT
  BY <1>1 DEF Busy, PhaseInv, TypeOK
<1>9. \A u \in Busy : u # l => /\ Counted(u)' <=> Counted(u)
                               /\ Told(u)' <=> Told(u)
                               /\ Answered(u)' <=> Answered(u)
  BY <1>1, <1>6, <1>8 DEF Counted, Told, Answered
<1>10. CountedOnes' = CountedOnes \cup {l} /\ l \notin CountedOnes
  BY <1>4, <1>7, <1>8, <1>9 DEF CountedOnes
<1>11. IsFiniteSet(CountedOnes)
  <2>1. IsFiniteSet(LRT)
    BY FS_Interval DEF LRT
  <2>2. CountedOnes \in SUBSET LRT
    BY <1>8 DEF CountedOnes
  <2> QED
    BY <2>1, <2>2, FS_Subset
<1>12. Cardinality(CountedOnes)' = Cardinality(CountedOnes) + 1
  BY <1>10, <1>11, FS_AddElement
<1>13. \A u \in LRT \ Busy' : finished'[u] = 0
  BY <1>2, <1>4, <1>6, <1>8 DEF InIteration
<1>14. \A u \in Busy : Told(u)' \/ Answered(u)' \/ Counted(u)'
  BY <1>1, <1>2, <1>7, <1>9 DEF InIteration
<1>15. InIteration'
  BY <1>1, <1>2, <1>8, <1>12, <1>13, <1>14 DEF InIteration
<1> QED
  BY <1>1, <1>2, <1>15 DEF CallInv

(* All ends of iteration that the GRT waits for are counted: those of all  *)
(* LRTs with jobs.                                                         *)
LEMMA CallReturns ==
  ASSUME PhaseInv, CallInv, IterateReturns
  PROVE  CallInv'
<1> USE PlatformAssumption DEF At, Go
<1>1. grt \in LRT /\ pc = [u \in LRT |-> pc[u]]
  BY DEF PhaseInv, TypeOK
<1>2. /\ pc[grt] = "recv" /\ pc'[grt] = "idle" /\ nFinishedPE = NPEToWait /\ nFinishedPE' = 0
      /\ UNCHANGED <<notifQueue, finished, enabled, schedule, sentTo, iteration, done>>
  BY <1>1 DEF IterateReturns
<1>3. iteration # 0 /\ InIteration
  BY <1>2 DEF CallInv, Closing, BeforeIterations
<1>4. IsFiniteSet(schedule) /\ Cardinality(schedule) = Cardinality(enabled) /\ grt \in schedule
  <2>1. IsFiniteSet(LRT) /\ schedule \in SUBSET LRT
    BY FS_Interval DEF LRT, PhaseInv, TypeOK
  <2> QED
    BY <1>2, <1>3, <2>1, FS_Subset DEF InIteration
<1>5. IsFiniteSet(Busy) /\ Cardinality(Busy) = NPEToWait
  BY <1>4, FS_RemoveElement DEF Busy, NPEToWait
<1>6. Cardinality(CountedOnes) = Cardinality(Busy) /\ CountedOnes \in SUBSET Busy
  BY <1>2, <1>3, <1>5 DEF InIteration, CountedOnes
<1>7. CountedOnes = Busy
  BY <1>5, <1>6, FS_Subset
<1>8. \A l \in Busy : Counted(l)
  BY <1>7 DEF CountedOnes
<1>9. Busy' = Busy
  BY <1>2 DEF Busy
<1>10. \A l \in Busy : Counted(l)'
  BY <1>2, <1>8 DEF Counted
<1>11. InIteration'
  BY <1>2, <1>3, <1>9, <1>10 DEF InIteration
<1> QED
  BY <1>2, <1>3, <1>11 DEF CallInv

LEMMA CallNext ==
  ASSUME PhaseInv, CallInv, [Next]_vars, ~Miscounts
  PROVE  CallInv'
<1> SUFFICES ASSUME ~Closing' PROVE CallInv'
  BY DEF CallInv
<1> USE PlatformAssumption DEF At, Go
<1>1. ~Closing /\ grt \in LRT /\ pc = [u \in LRT |-> pc[u]]
  BY ClosingStays DEF PhaseInv, TypeOK
<1>2. iteration # 0 => pc[grt] \in {"idle", "send", "recv"}
  BY <1>1 DEF CallInv, InIteration
<1>3. CASE \E t \in LRT : Thread(t)
  BY <1>1, <1>3, CallThread, CallPop
<1>4. CASE Spawn
  <2>1. iteration = 0 /\ UNCHANGED <<runVars, pc[grt]>>
    BY <1>1, <1>2, <1>4 DEF Spawn, PhaseInv, TypeOK
  <2>2. pc'[grt] \notin {"send", "recv"}
    BY <1>4, <2>1 DEF Spawn
  <2>3. BeforeIterations'
    BY <1>1, <2>1, <2>2 DEF CallInv, BeforeIterations, runVars
  <2> QED
    BY <2>1, <2>3 DEF CallInv, runVars
<1>5. CASE SendEndIteration
  BY <1>5, CallSend
<1>6. CASE RunUntilNoMoreJobs
  BY <1>6, CallRun
<1>7. CASE ReceiveFinished
  BY <1>7, CallReceive
<1>8. CASE IterateReturns
  BY <1>8, CallReturns
<1>9. CASE SendStop \/ JoinAndFree \/ Terminated \/ Clean
  BY <1>1, <1>9 DEF SendStop, JoinAndFree, Terminated, Clean, Closing
<1>10. ASSUME NEW t \in LRT, ChangePE(t) PROVE CallInv'
  BY <1>1, <1>10, CallStutter DEF ChangePE
<1>11. CASE Iterate
  BY <1>11, CallIterate
<1>12. CASE UNCHANGED vars
  BY <1>1, <1>12, CallStutter DEF vars, CallInv, BeforeIterations
<1> QED
  BY <1>3, <1>4, <1>5, <1>6, <1>7, <1>8, <1>9, <1>10, <1>11, <1>12 DEF Next, Grt

LEMMA HistorySteps ==
  ASSUME [HistoryNext]_historyVars
  PROVE  /\ [Next]_vars
         /\ ~miscounted' => ~miscounted /\ ~Miscounts
<1>1. CASE UNCHANGED historyVars
  <2>1. vars' = vars /\ miscounted' = miscounted
    BY <1>1 DEF historyVars
  <2>2. iteration' = iteration
    BY <2>1 DEF vars, runVars
  <2> QED
    BY <2>1, <2>2 DEF Miscounts, IterationBegins
<1>2. CASE HistoryNext
  BY <1>2 DEF HistoryNext
<1> QED
  BY <1>1, <1>2

(* Whenever the application changes PEs, iterate waits: when it returns,   *)
(* every LRT with jobs has finished them, and no message of this iteration *)
(* is left for the next to count, until a call finds another number of PEs *)
(* enabled than the schedule has been made for.                            *)
THEOREM IterateHolds == HistorySpec => []WaitsUntilMiscounted
<1> DEFINE Inv == PhaseInv /\ (miscounted \/ CallInv)
<1>1. HistoryInit => Inv
  BY PhaseInit, CallInit DEF HistoryInit
<1>2. Inv /\ [HistoryNext]_historyVars => Inv'
  <2> SUFFICES ASSUME Inv, [HistoryNext]_historyVars PROVE Inv'
    OBVIOUS
  <2>1. [Next]_vars
    BY HistorySteps
  <2>2. PhaseInv'
    BY <2>1, TypesAreKept, StepIsKept, RolesAreKept, SetUpIsKept DEF PhaseInv
  <2>3. ~miscounted' => CallInv'
    BY <2>1, HistorySteps, CallNext
  <2> QED
    BY <2>2, <2>3
<1>3. Inv => WaitsUntilMiscounted
  <2> SUFFICES ASSUME PhaseInv, CallInv, At(grt, "idle"), NEW l \in schedule
               PROVE  done[l] = iteration /\ finished[l] = 0
    BY DEF WaitsUntilMiscounted, IterateWaits
  <2>1. InIteration
    BY DEF CallInv, Closing, At, BeforeIterations
  <2>2. CASE l = grt
    BY <2>1, <2>2, PlatformAssumption DEF InIteration, Busy
  <2>3. CASE l # grt
    BY <2>1, <2>3 DEF InIteration, Busy, Counted
  <2> QED
    BY <2>2, <2>3
<1>4. HistorySpec => []Inv
  BY <1>1, <1>2, PTL DEF HistorySpec
<1> QED
  BY <1>3, <1>4, PTL
=============================================================================

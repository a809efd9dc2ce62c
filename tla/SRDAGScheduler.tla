--------------------------- MODULE SRDAGScheduler ---------------------------
(***************************************************************************)
(* Scheduler::schedule on a single-rate graph: vertices are mapped in the  *)
(* order of their schedule level.  mapVertex turns the edges into the      *)
(* constraints that the LRTs later obey: which job of each PE a job waits  *)
(* for, and which PEs hear of its end.                                     *)
(*                                                                         *)
(* The mapping schedulers differ in the PE they prefer; here a vertex may  *)
(* go to any enabled PE that executes it, which covers every preference of *)
(* ListScheduler.  A PE has a spider ID, here its number, and a virtual    *)
(* ID: the levels ask for the one, ListScheduler for the other.  In        *)
(* ListSchedulerOnTheGo and, for normal vertices, RoundRobin both ask for  *)
(* the spider ID: virtualID is the identity there.                         *)
(***************************************************************************)
EXTENDS Integers, Sequences, FiniteSets, ScheduleConstraints

CONSTANTS
  Vertices,   \* the vertices, all of them SRDAG_EXEC
  PE,         \* processing elements
  Enabled,    \* those that are enabled
  grt,        \* the PE of the GRT, busy with the scheduling itself
  Graphs,     \* graphs to schedule: sets of edges
  virtualID,  \* virtual IDs of the PEs
  Timings,    \* pairs: execution times time[v][pe], IDs of the PEs v may run on
  MapTime     \* getScheduleTimeRoutine: how long the mapping keeps the GRT

Edge == [src : Vertices, snk : Vertices, empty : BOOLEAN]

ASSUME SchedulerAssumption ==
  /\ Vertices \subseteq Nat /\ IsFiniteSet(Vertices) /\ IsFiniteSet(PE)
  /\ PE \subseteq Nat /\ Enabled \subseteq PE /\ grt \in PE
  /\ Graphs \subseteq SUBSET Edge
  /\ virtualID \in [PE -> PE]
  /\ Timings \subseteq [Vertices -> [PE -> Nat]] \X [Vertices -> SUBSET PE]
  /\ MapTime \in Nat

VARIABLES
  edges,          \* the edges; one of rate 0 is "empty"
  execTime,       \* execution times
  constraints,    \* constraints_: the IDs that a vertex may be executed on
  schedLvl,       \* schedLvl_ of the vertices, -1: not computed
  list,           \* list_: the vertices that are still to be mapped
  jobs,           \* jobs_ of the schedule: vertices in the order of mapping
  mappedPE,       \* mappingPE_
  jobID,          \* jobID_
  waitVertex,     \* vertexId_ of the schedule constraints of each vertex
  jobs2Wait,      \* jobId_ of the schedule constraints of each vertex
  lrts2Notify,    \* peDependenciesMatrix_ of each vertex
  startTime,      \* mappingStartTime_
  endTime,        \* mappingEndTime_
  nJobPerPE,      \* nJobPerPE_
  readyTime,      \* readyTimeOfPEs_
  thrown          \* an exception has ended the scheduling

input == <<edges, execTime, constraints>>
vars == <<input, schedLvl, list, jobs, mappedPE, jobID, waitVertex, jobs2Wait,
          lrts2Notify, startTime, endTime, nJobPerPE, readyTime, thrown>>

Init ==
  /\ edges \in Graphs
  /\ \E timing \in Timings : execTime = timing[1] /\ constraints = timing[2]
  /\ schedLvl = [v \in Vertices |-> -1]
  /\ list = Vertices /\ jobs = <<>>
  /\ mappedPE = [v \in Vertices |-> -1]
  /\ jobID = [v \in Vertices |-> -1]
  /\ waitVertex = [v \in Vertices |-> [q \in PE |-> -1]]
  /\ jobs2Wait = [v \in Vertices |-> [q \in PE |-> -1]]
  /\ lrts2Notify = [v \in Vertices |-> [q \in PE |-> FALSE]]
  /\ startTime = [v \in Vertices |-> 0]
  /\ endTime = [v \in Vertices |-> 0]
  /\ nJobPerPE = [q \in PE |-> 0]
  /\ readyTime = [q \in PE |-> IF q = grt THEN MapTime ELSE 0]
  /\ thrown = FALSE

(* What makes the order of the levels topological: a graph without cycle    *)
(* (every set of vertices has one without successor in the set), whose     *)
(* vertices may all run on some PE, enabled or not.                        *)
IsAcyclic(graph) ==
  \A U \in SUBSET Vertices : U # {} =>
    \E v \in U : \A e \in graph : e.src = v => e.snk \notin U
RunSomewhere(ids) == \A v \in Vertices : ids[v] # {}
InputsAreSound ==
  /\ \A graph \in Graphs : IsAcyclic(graph)
  /\ \A timing \in Timings : RunSomewhere(timing[2])

-----------------------------------------------------------------------------
(* Schedule levels: the longest way to the end of the graph.               *)

Successors(v) == {e.snk : e \in {d \in edges : d.src = v}}
IsExecutableOn(v, id) == id \in constraints[v]

(* Faulty variant: a null execution time is not looked for.                *)
NullTimeAccepted(v) == FALSE

(* "NULL execution time" on a PE, enabled or not: looked for when v is the *)
(* successor of a vertex.                                                  *)
HasNullTime(v) ==
  /\ \E e \in edges : e.snk = v
  /\ \E q \in PE : IsExecutableOn(v, q) /\ execTime[v][q] = 0

(* The largest of 0 and a set of numbers.                                  *)
MaxOrZero(S) == CHOOSE x \in S \cup {0} : \A y \in S \cup {0} : y <= x

(* The fastest PE counts, enabled or not; -1 stands for (int) UINT_MAX.    *)
MinExecTime(v) ==
  LET times == {execTime[v][q] : q \in {p \in PE : IsExecutableOn(v, p)}} IN
  IF times = {} THEN -1 ELSE CHOOSE t \in times : \A u \in times : t <= u

(* Faulty variant: execution times are not added up.                       *)
LevelsWithoutTime ==
  LET lvl[v \in Vertices] == MaxOrZero({lvl[s] : s \in Successors(v)}) IN lvl

Levels ==
  LET lvl[v \in Vertices] == MaxOrZero({lvl[s] + MinExecTime(s) : s \in Successors(v)})
  IN lvl

LevelsAreDue == (\A v \in Vertices : schedLvl[v] = -1) /\ ~thrown

ComputeScheduleLevels ==
  /\ LevelsAreDue
  /\ \A v \in Vertices : ~HasNullTime(v)
  /\ schedLvl' = Levels
  /\ UNCHANGED <<input, list, jobs, mappedPE, jobID, waitVertex, jobs2Wait, lrts2Notify,
                 startTime, endTime, nJobPerPE, readyTime, thrown>>

(* The exception leaves some levels computed, which nothing reads any more. *)
NullExecutionTime(v) ==
  /\ LevelsAreDue /\ HasNullTime(v)
  /\ thrown' = TRUE
  /\ UNCHANGED <<input, schedLvl, list, jobs, mappedPE, jobID, waitVertex, jobs2Wait,
                 lrts2Notify, startTime, endTime, nJobPerPE, readyTime>>

-----------------------------------------------------------------------------
(* computeMinimumStartTime: an edge of rate 0 carries no data and is       *)
(* ignored.                                                                *)

(* Faulty variant: edges of rate 0 count as well.                          *)
AllSources(v) == {e.src : e \in {d \in edges : d.snk = v}}

Sources(v) == {e.src : e \in {d \in edges : d.snk = v /\ ~d.empty}}

(* Faulty variant: whatever is mapped on the PE is a source.               *)
MappedOn(v, q) == {p \in Vertices : mappedPE[p] = q}
SourcesOn(v, q) == {p \in Sources(v) : mappedPE[p] = q}

(* Faulty variant: a later start time is not taken over.                   *)
NoMinimumStartTime(v) == 0
MinimumStartTime(v) == MaxOrZero({endTime[p] : p \in Sources(v)})

(* Faulty variant: the first job of a PE is kept instead of the last.      *)
FirstSource(v, q) ==
  IF SourcesOn(v, q) = {} THEN -1
  ELSE CHOOSE p \in SourcesOn(v, q) : \A r \in SourcesOn(v, q) : jobID[p] <= jobID[r]

(* Of the sources on one PE, the last one is waited for.                   *)
LastSource(v, q) ==
  IF SourcesOn(v, q) = {} THEN -1
  ELSE CHOOSE p \in SourcesOn(v, q) : \A r \in SourcesOn(v, q) : jobID[r] <= jobID[p]

(* The next vertex of the sorted list: ties are left open.                 *)
IsNext(v) == v \in list /\ \A u \in list : schedLvl[u] <= schedLvl[v]

CanExecute(v) == {q \in Enabled : IsExecutableOn(v, virtualID[q])}

(* SRDAGSchedule::addJob: the jobs waited for will notify pe.              *)
(* Faulty variant: the PEs of the jobs waited for are entered instead.     *)
NotifyWrongPE(wait, pe) ==
  [p \in Vertices |-> [q \in PE |->
     lrts2Notify[p][q] \/ (q = mappedPE[p] /\ \E i \in PE : wait[i] = p)]]
Notify(wait, pe) ==
  [p \in Vertices |-> [q \in PE |->
     lrts2Notify[p][q] \/ (q = pe /\ \E i \in PE : wait[i] = p)]]

(* Faulty variants: the number of a job is the new count of jobs; the PE   *)
(* is not marked busy.                                                     *)
SetJobIDAfterCount(v, pe) ==
  /\ jobID' = [jobID EXCEPT ![v] = nJobPerPE[pe] + 1]
  /\ nJobPerPE' = [nJobPerPE EXCEPT ![pe] = @ + 1]
OccupyForgotten(pe, end) == UNCHANGED readyTime

SetJobID(v, pe) ==
  /\ jobID' = [jobID EXCEPT ![v] = nJobPerPE[pe]]
  /\ nJobPerPE' = [nJobPerPE EXCEPT ![pe] = @ + 1]
Occupy(pe, end) ==
  readyTime' = [readyTime EXCEPT ![pe] = IF end > @ THEN end ELSE @]

(* mapVertex and addJobToSchedule.  A source that is not mapped yet would  *)
(* index the constraints with -1: SourcesAreMapped says it cannot happen.  *)
MapVertex(v, pe) ==
  /\ schedLvl[v] # -1 /\ IsNext(v) /\ ~thrown
  /\ pe \in CanExecute(v)
  /\ \A p \in Sources(v) : mappedPE[p] # -1
  /\ LET wait == [q \in PE |-> LastSource(v, q)] IN
       /\ waitVertex' = [waitVertex EXCEPT ![v] = wait]
       /\ jobs2Wait' = [jobs2Wait EXCEPT ![v] =
                          [q \in PE |-> IF wait[q] = -1 THEN -1 ELSE jobID[wait[q]]]]
       /\ lrts2Notify' = Notify(wait, pe)
  /\ LET start == MaxOrZero({readyTime[pe], MinimumStartTime(v)}) IN
     /\ startTime' = [startTime EXCEPT ![v] = start]
     /\ endTime' = [endTime EXCEPT ![v] = start + execTime[v][pe]]
     /\ Occupy(pe, start + execTime[v][pe])
  /\ mappedPE' = [mappedPE EXCEPT ![v] = pe]
  /\ SetJobID(v, pe)
  /\ jobs' = Append(jobs, v)
  /\ list' = list \ {v}
  /\ UNCHANGED <<input, schedLvl, thrown>>

(* "No slave found": the exception ends the scheduling.                    *)
NoSlaveFound(v) ==
  /\ schedLvl[v] # -1 /\ IsNext(v) /\ ~thrown
  /\ CanExecute(v) = {}
  /\ thrown' = TRUE
  /\ UNCHANGED <<input, schedLvl, list, jobs, mappedPE, jobID, waitVertex, jobs2Wait,
                 lrts2Notify, startTime, endTime, nJobPerPE, readyTime>>

Next ==
  \/ ComputeScheduleLevels
  \/ \E v \in Vertices : NullExecutionTime(v) \/ NoSlaveFound(v)
  \/ \E v \in Vertices, pe \in PE : MapVertex(v, pe)

Spec == Init /\ [][Next]_vars

-----------------------------------------------------------------------------
(* The schedule so far, its jobs numbered in the order of mapping.         *)
Jobs == 1..Len(jobs)
preds == [j \in Jobs |-> {i \in Jobs : jobs[i] \in Sources(jobs[j])}]
OfJobs(f) == [j \in Jobs |-> f[jobs[j]]]

(* What an LRT relies on (the assumptions of module StaticRuntime) holds   *)
(* of every schedule: jobs are on enabled PEs and come after their sources,*)
(* the jobs of a PE are numbered without gap, a job waits for the last     *)
(* source on each PE and for nothing else, and who is waited for notifies  *)
(* the PE of who waits.                                                    *)
ScheduleIsSound ==
  LET mapped == OfJobs(mappedPE)
      id == OfJobs(jobID)
      wait == OfJobs(jobs2Wait)
  IN /\ mapped \in [Jobs -> Enabled]
     /\ \A j \in Jobs : \A p \in preds[j] : p < j
     /\ ConsecutiveIDs(Jobs, PE, mapped, id, nJobPerPE)
     /\ WaitsCoverPreds(Jobs, preds, mapped, id, wait)
     /\ WaitsAreForPreds(Jobs, PE, preds, mapped, id, wait)
     /\ NotifiesMatchWaits(Jobs, PE, mapped, id, wait, OfJobs(lrts2Notify))

(* The order of the levels is topological: the sources of the next vertex  *)
(* are mapped, the ones that send it nothing included.                     *)
SourcesAreMapped ==
  \A v \in Vertices : schedLvl[v] # -1 /\ IsNext(v) =>
    \A p \in AllSources(v) : mappedPE[p] # -1

(* "Check core concurrency" and "Check Communications" of                  *)
(* SRDAGSchedule::check (SRDAGSchedule.cpp:103-129): no two jobs of a PE   *)
(* overlap in time, and a job starts after its data have been produced.    *)
TimesAreSound ==
  /\ \A i, j \in Jobs :
       i < j /\ mappedPE[jobs[i]] = mappedPE[jobs[j]] =>
         endTime[jobs[i]] <= startTime[jobs[j]]
  /\ \A j \in Jobs : \A p \in Sources(jobs[j]) : endTime[p] <= startTime[jobs[j]]
=============================================================================

# Spider's runtime in TLA+

Spider (in this repository called COMPA-Runtime) executes dataflow graphs on several processing
elements. An application describes a PiSDF graph; Spider turns it into a single-rate graph (SRDAG),
maps the vertices on processing elements (PEs), and lets one *local runtime* (LRT) per PE execute
its jobs. The *global runtime* (GRT), the application's own thread, does all of the planning and also
executes the jobs of one PE. This directory specifies and verifies the parts that make this
correct: the queues that the threads share, the protocol by which LRTs order their jobs in static and
in dynamic graphs, the life of the threads, the schedules that the protocol relies on, and the way from
a PiSDF graph to the single-rate graph and its memory.

Paths below are relative to `src/master/libspider`.

## 1. Inventory

### The system and how its parts interact

```
 application --iterate--> Spider (spider/spider.cpp)
                            |  static graph: plan once          dynamic graph: plan in rounds
                            v                                   (jit_ms, GraphTransfo.cpp)
        graph transformation -> SRDAG -> memory allocation -> Scheduler -> SRDAGSchedule
                                                                             | execute
                                                                             v
   GRT ---------------- Launcher: JOB_ADD..., LRT_END_ITERATION ----> notification queue of LRT i
    | run(false)            (job descriptions: control message queue)          | checkNotifications
    v                                                                          v
  LRT grt  <------------ JOB_UPDATE_JOBSTAMP between LRTs ------------->   LRT i (run(true))
    |                                                                          |
    +-- rstJobIxRecv <---- LRT_FINISHED_ITERATION, TRACE, PARAM: queue nLrt <--+
```

| Component | State it keeps | Operations | Hard behaviour | What makes it correct |
|---|---|---|---|---|
| Notification queue (`platforms/platform_pthread/NotificationQueue`) | `std::queue`, mutex, counting semaphore | push, pop (blocking or not) by many pushers and one reader | post after unlock; non-blocking pop | FIFO, no lost item, `front()` never on an empty queue |
| Control message queue (`ControlMessageQueue`) | vector of messages, queue of free indexes, two mutexes | push, pop by index | read of the vector without its mutex; reuse of slots | a slot has one user, no slot leaks, a pop gets its own message |
| LRT (`lrt/lrt.cpp`) | job queue and index, own stamp `jobIx_`, `jobStamps_`, `lastJobID_`, `run_` | checkNotifications, compareLRTJobStamps, runJob, end of iteration, stop | stamps in flight between LRTs, blocking pops, reset between iterations | a job runs after the jobs whose data it reads; iterations do not overlap; nobody waits for ever |
| Launcher (`spider/launcher`) | parameters still to come, messages launched | sendJob, sendEndNotification, broadcast, resolveParams | push-back loops on a shared queue | each job is sent once, each parameter is received |
| SRDAGSchedule, SRDAGScheduleJob, Schedule (`spider/scheduling`) | jobs in order, jobs and ready time per PE, constraints of a job | addJob, execute, executeAndRun, restartSchedule | job IDs and constraints must be those that the LRTs count by | a wait for every source, a notification for every wait |
| Scheduler and variants (`spider/scheduling/Scheduler*`) | levels, list of vertices | schedule, scheduleOnlyConfig, mapVertex | order of mapping; execution times of 0, disabled PEs | topological order, no overlap in time |
| Spider (`spider/spider.cpp`) | graph, schedule, allocator, scheduler | init, iterate, printGantt, clean | order of set-up and tear-down | iterate executes each job once |
| pthread platform (`platforms/platform_pthread/platformPThread.cpp`) | threads, barriers, queues | start, rstJobIxRecv, destructor | barriers, counting ends of iteration | start and stop terminate |
| jit_ms (`spider/graphTransfo/GraphTransfo.cpp`) | transformation jobs, schedule | rounds of configuration jobs, parameters, expansion | delayed broadcast of stamps, parameters | each round sees the parameters of the last |
| SRDAG graph (`spider/graphs/SRDAG`) | vertices, edges, states | updateState, delVertex, delEdge | recursion over states | a vertex is executable when its sources are |
| Repetition vector (`ComputeBRV`, `CommonBRV`, `LCM`) | none, pure | computeBRV | order of the walk, interfaces | the smallest solution of the balance equations, for every consistent graph |
| Graph transformation (`GraphTransfo`, `AddVertices`, `LinkVertices`, `Optims`) | jobs, SRDAG | expansion of hierarchical vertices, 11 optimisations | arithmetic of rates, ports that shift | each instance reads the tokens that its FIFO gives it |
| Memory allocation (`spider/scheduling/MemAlloc`) | bump pointer | alloc, reserved alloc | aliasing of fork, join and broadcast buffers | an address holds one token of the iteration |
| Architecture (`spider/graphs/Archi`) | PEs, enabled ones, ID maps | activate, deactivate | counts used as index ranges | counts agree with the set |
| DataQueues, trace queue, byte queue, containers, stacks, monitors | see source | see source | mostly unused or sequential | see section 7 |

Out of scope: `apps`, `old_apps`, `omp` (examples and vendored code), the expression parser, papify,
the Keystone and Linux platforms, logging.

The messages CLEAR_QUEUE, LAST_ID, RST_ITERATION, REPEAT_ITERATION, PAUSE and RESUME have handlers
and are sent by no code of the runtime; nothing models them.

The hazards that guide the properties are listed, each at its line, in `PROJECT.json`.

## 2. Modules

| Module | What it models |
|---|---|
| `MessageChannel` | abstract: a FIFO channel with many senders and one receiver |
| `NotificationQueue` | push and pop between mutex and semaphore; implements `MessageChannel` |
| `ControlMessageQueue` | slots, free indexes, vector reallocation, unlocked read |
| `ScheduleConstraints` | what a schedule owes to the LRTs: four operators, used as properties of the scheduler and as assumptions of the runtime |
| `IteratedDataflow` | abstract: what `Spider::iterate` promises |
| `StaticRuntime` | GRT, LRTs, queues and stamps over the iterations of a static graph; implements `IteratedDataflow` |
| `JitRuntime` | the same LRTs executing a dynamic graph in rounds, on an INSTANCE of `StaticRuntime`; implements `IteratedDataflow` |
| `Platform` | threads, barriers, registration, tear-down, changes of PEs, around abstract iterations |
| `StaticRuntimeHistory`, `JitRuntimeHistory`, `PlatformHistory` | the three above with history variables, which record the one event after which the code guarantees less; the properties up to that event |
| `SRDAGScheduler` | levels, order, mapping and constraints; establishes `ScheduleConstraints` |
| `RepetitionVector` | computeBRV as operators, next to the balance equations |
| `SingleRate` | the transformation of a hierarchical graph and its optimisations, next to the FIFOs of the PiSDF graph |
| `MemAlloc` | the two allocators on the graphs that `SingleRate` makes |
| `MC*` | instances for TLC (`Platform` and `PlatformHistory` need none; `MCSingleRate` serves `MemAlloc`, `SingleRate` and `RepetitionVector`) |
| `NotificationQueue_proofs`, `ControlMessageQueue_proofs` | theorems about the queues |
| `StaticRuntimeOrder_proofs` | types and credits of the runtime, the invariant of an iteration, and the LRTs' steps that keep it until the GRT misses work |
| `StaticRuntimeIteration_proofs` | the ends of passes and iterations, the GRT's steps, and the theorems of `StaticRuntimeHistory`: order, quiet between iterations, refinement, when work is missed |
| `SRDAGScheduler_proofs` | the schedules of any graph keep what `StaticRuntime` assumes |
| `JitRuntime_proofs` | parameters are known when a round is planned, and traces are kept |
| `JitRuntimeOrder_proofs` | the theorems of `JitRuntimeHistory`: order of the jobs over the rounds, refinement, when work is missed |
| `Platform_proofs` | the barrier keeps the threads in step; iterate waits, as `PlatformHistory` says |

The composition is by contract. `StaticRuntime` takes a schedule as CONSTANTS and assumes exactly the
operators of `ScheduleConstraints` (`ScheduleAssumption`); `SRDAGScheduler` has the same formula over its
own variables as the invariant `ScheduleIsSound`, which is proved for every graph. `StaticRuntime` uses a notification queue as a sequence with a number
of credits and a late post; `NotificationQueue` establishes that view (`CreditAccounting`,
`ImplementsChannel`). `JitRuntime` takes the handlers, queues and passes of `StaticRuntime` over as they are and adds
what the dynamic mode adds; it assumes the first two operators, `ConsecutiveIDs` and `WaitsCoverPreds`, of the jobs of all rounds
together, as the schedule grows and its job IDs go on from round to round. `Platform` replaces an
iteration by its outcome, which `StaticRuntime` establishes. `MemAlloc` extends `SingleRate`, which extends
`RepetitionVector`: one behaviour goes from a PiSDF graph to addresses.

### How state and actions correspond to the code

*NotificationQueue.* `queue`, `queueSize`, `queueMutex`, `queueCounter` are the fields. A push is
`PushLock`, `PushBody`, `PushUnlock`, `PushPost`; a pop is `PopAcquire` (sem_wait, or a sem_trywait that
succeeds) or `PopReturnsFalse`, then `PopLock`, `PopBody`, `PopUnlock`. An item is `<<pusher, number>>`, so
that order and loss can be spoken of. Left out: `clear()`, which has no caller, and interrupted waits.

*ControlMessageQueue.* `msgQueue` with `capacity` and `buffer` (how often the vector has moved) is the
vector; `indexesQueue` the free indexes. `indexesQueueMutex_` guards one operation at a time, which is
thus one step. `PopLoadBuffer` and `PopLoadSlot` are the two loads of `msgQueue_[id]`: when a `push_back`
moved the buffer in between, the value read is the old one or garbage, nondeterministically. `announced`
are messages whose index is on its way to the reader.

*StaticRuntime.* `notifQueue[q]`, `credits[q]`, `unposted[l]` are the notification queues; the per-LRT variables
carry the names of the fields of `LRT`; `pc` says where the thread is. One pass of `LRT::run` is
`HandleNotification`* (one message per step), then `StartJob`, `FinishJob`, `NotifyLRTJobStamp`*, `PassWithJob`, or
`PassWithoutJob`. `EndPass` holds what follows a job in the code: the end of the iteration (finished message,
reset of the stamps, `clearJobQueue`) and the decision to block, go on or, for the GRT, leave `run`. The GRT's
actions are `Iterate`, `SendJob`, `SendEndNotification`, `RunUntilNoMoreJobs`, the LRT actions of `grt`,
`ReceiveFinished`/`PushBackTrace` (rstJobIxRecv), `IterateReturns`; and `Destroy`, `SendStop`, `Barrier` for the
destructor. A job message is the number of its job: the slot by which it travels is the subject of
`ControlMessageQueue`. `ran` is a history variable. Jobs without output parameters, as static graphs have them.

*SRDAGScheduler.* `ComputeScheduleLevels` is the loop over `computeScheduleLevel`; `MapVertex` is
`computeMinimumStartTime`, the choice of a PE, `addJobToSchedule` and `SRDAGSchedule::addJob`. The choice of a PE
is free among the enabled ones that execute the vertex, whose *virtual* ID `ListScheduler` looks up where the levels look up the spider ID
(`virtualID`). An execution time of 0 ends the scheduling with an exception, as does a vertex that no enabled PE executes
(`NullExecutionTime`, `NoSlaveFound`). Ties of the sort are left open, so every cost
function and every sort gives one of the behaviours. Vertices start as SRDAG_EXEC, as in a static graph.

*JitRuntime.* `Plan` is one turn of the loop of `jit_ms` up to the schedule of a round; `Announce` sends
`JOB_DELAY_BROADCAST_JOBSTAMP` to the LRTs `0..getNActivatedPE()-1`; `SendJob` the round's jobs with the LRTs to notify known by
then (`ListWhenSent`); `RunConfigJobs`, `ResolveParams` and `Resolved` are the rest of the turn. The LRTs' passes differ
from `StaticRuntime`'s in what they do without a job left: `DoneWithCurrentJobs`, the broadcast of the stamp
(`Broadcasted`), and `SendParam` after a configuration job. Which vertices a round holds, and that a job reads only from
its round and earlier ones, are constants.

*Platform.* `pc` follows `lrtPthreadRunner` and, for the GRT's thread, the constructor, the application and the destructor.
The three waits at the barrier are `Arrive` and `Leave`. `status` says of every object that threads share whether it is
unset, live or freed. `ChangePE` is activatePE/deactivatePE; `Clean` frees the architecture before the destructor runs,
so that `SendStop` may then ask a freed `Archi` for the GRT.

*The history modules.* Each adds variables that no action reads, and no action. `missed`: the GRT has left `run` (in the dynamic mode: its
last round) with a `JOB_ADD` or the `LRT_END_ITERATION` unread in its own queue; `hidden`: its last unsuccessful try-pop was
made while another LRT had pushed to that queue and not yet posted. `stale`: an iteration has begun with a job stamp held or under way.
`miscounted`: iterate has been called with another number of PEs enabled than the schedule has PEs with jobs. The code excludes none of them (section 4);
what it guarantees without any assumption on threads or applications is stated up to them.

*RepetitionVector.* Operators for `fillVertexSet`, `fillReps`, the LCM of the denominators, `updateBRV` and
`checkConsistency`, walking vertices and edges in the order of the code. The reference definition next to them is the set of
solutions of the balance equations up to `MaxRepetition`.

*SingleRate.* `NextJob`, `ComputeVector`, `AddVertices`, `LinkEdge` and `EndLink` replace one hierarchical vertex by the
instances of its graph, edge by edge. `Optimise` is one rewrite of one optimisation, at any place where it matches;
`NextOptimisation` goes on when none is left. Vertices are named after what they come from, so that two orders of
rewrites that give the same graph give the same state. `Read` follows a token through the special actors of the
single-rate graph, `Fifo` through the edges and interfaces of the PiSDF graph: two recursive functions that have nothing
in common but `Through`, what a special actor copies.

*MemAlloc.* `Alloc` runs one of the allocators over the finished graph, `alloc_` of each edge being its result. `Share` is the
body that allocFork, allocJoin and allocBroadcast have in common; a token is one unit of memory, pages hold `MinAlloc`.

Every module holds, just before a definition that has one, a *faulty variant* of it (`...Forgotten`,
`...OffByOne`). They are the mutants listed in `PROJECT.json`: with the variant in place of the definition, TLC
finds the named property violated.

## 3. Runs

| Run | Instance | Shows |
|---|---|---|
| `notification_queue` | 3 threads, 2 pushes each, fairness | semaphore accounting, no `front()` on empty, FIFO refinement, when a trypop may answer "empty", every item is received |
| `control_message_queue` | 3 threads, 4 messages | slots neither shared nor lost, messages intact, no needless growth |
| `control_message_queue_unlocked` | same | **violation**: "thread safe in read only" |
| `static_runtime` | braid of 6 jobs on 3 LRTs, 2 iterations, posts of *every* LRT late, fairness | until the GRT misses work: order of the data, true stamps, quiet between iterations, sanity check, refinement of `IteratedDataflow`, iterate and the destructor return; and it misses work only after a try-pop that a late post has deceived |
| `static_runtime_idle_lrt` | one activated LRT without jobs | **violation**: iterate never returns |
| `jit_runtime` | 3 rounds, 2 configuration jobs, 2 LRTs, 2 iterations, traces on, the GRT's posts late, fairness | parameters known in each round, stamps reset, no trace lost in the push-backs, refinement of `IteratedDataflow`, iterate returns |
| `jit_runtime_history` | the instance of `jit_runtime_stale`, posts of every LRT late | stamps are true and the dataflow is implemented until the GRT misses work or the second iteration begins with a stamp left over |
| `jit_runtime_stale` | 2 rounds on 3 LRTs, 2 iterations | **violation**: a broadcast stamp survives the iteration |
| `platform` | 3 threads, GRT is LRT 1, 3 iterations, PEs changed before and between them, an architecture lost or kept when freed, fairness | what is used after its free is the architecture and nothing else; iterate waits for every LRT, and init, iterate and clean return, until the enabled PEs are not as many as those with jobs |
| `srdag_scheduler` | all graphs of 4 vertices (one edge may be empty), 3 PEs of which one is disabled and two have swapped virtual IDs, 20 tables of execution times and of the PEs allowed | the contract `ScheduleConstraints`, topological order, no overlap, data present |
| `graph_transformation` | 684 graphs: pairs, loops, chains, cycles and parallel edges with rates 1..3 and delays; forks, joins, broadcasts, round buffers; rows of these; nested graphs | the repetition vector is right, every token read is the specified one after each rewrite, optimisations end, shared memory agrees |
| `special_actor_memory` | the pairs | **violation**: `PlacesAlwaysAgree` under the special actor allocator |

Configurations beside the runs show further disagreements, or the same properties elsewhere:

| Configuration (module) | TLC finds |
|---|---|
| `NotificationQueueTryPop.cfg` (`MCNotificationQueue`) | `TryPopReadsIfAny` violated: the header's contract of a non-blocking pop |
| `StaticRuntimeMissed.cfg` (`MCStaticRuntime`) | `SanityCheckHolds` violated in the second iteration: the braid with all posts late |
| `StaticRuntimeTraces.cfg` (`MCStaticRuntime`) | no error: 4 jobs on 3 LRTs with traces, which rstJobIxRecv pushes back to the queue it counts in; posts of LRT 0 and 2 late; `IterationComplete` |
| `StaticRuntimeLazy.cfg` (`MCStaticRuntime`) | no error: 5 jobs, the GRT without one, all posts late |
| `JitRuntimeFromGrt.cfg` (`MCJitRuntime`) | `IterateTerminates` violated: an LRT waits for a stamp of the GRT from an earlier round |
| `JitRuntimeForgotten.cfg` (`MCJitRuntime`) | `BroadcastAfterLastJob` violated: the broadcast is done before the job it should announce |
| `JitRuntimeDisabled.cfg` (`MCJitRuntime`) | `AnnouncedToActivated` violated: a disabled PE in the middle leaves the last LRT out |
| `JitRuntimeOvertaken.cfg` (`MCJitRuntime`) | `ImplementsDataflow` violated in the second iteration of `jit_runtime_stale`'s instance: the stamp left over lets a job start before its source. With one iteration there is no error |
| `PlatformFreedArchi.cfg` (`Platform`) | `CallsReturn` violated: with the architecture lost, `LRT_STOP` goes to the wrong LRTs and clean hangs |
| `PlatformChangedPEs.cfg` (`Platform`) | `IterateWaits` violated: PEs changed after the schedule of the static graph was made |
| `SingleRateApart.cfg` (`MCSingleRate`) | `ConsistentIsAccepted` violated: a consistent graph whose rates grow from two bodies |
| `SingleRateMisscaled.cfg` (`MCSingleRate`) | the same: the scaling for interfaces misses a body |

### Bounds

Two pushes per thread are enough for one push to owe its post while another completes, on both sides of a
pop. Four control messages let the vector move twice and an index be reused while a third thread pushes.
Two iterations are what a leftover needs to do harm. The graphs have
LRTs that wait for each other in both directions, two stamps between the same pair,
and an LRT that has jobs but waits for nobody. `LazyPosters` names the threads that may be descheduled between
unlock and `sem_post`: all of them in `static_runtime` and `jit_runtime_history`, the GRT in `jit_runtime`, whose iterations must end.
Three rounds let a job wait for one of two rounds before, and a round follow a round that is
still being broadcast. Two threads beside the GRT's let PEs be swapped without a change of their number, and a lookup pass entries of other threads; four threads (744,004 states with two iterations) show nothing else. Four vertices let a vertex
have two sources on one PE and one on another, and a wait that covers an earlier source.

Rates up to 3 have every relation that linking tells apart: equal, dividing, and cut across two instances; delays up
to 3 are less than, equal to and more than what one firing takes. Each optimisation finds matches, several at a time,
in some family, and the order of the matches is free. `MaxRepetition` = 9 bounds the search for solutions that a
rejected graph must not have. `MinAlloc` = 4 makes edges smaller and larger than a page; `MemSize` = 40 lets some graphs
run out of memory. The list of vertices that an allocator walks has one order per graph (that of a Set), which the model
fixes. Deadlock is checked wherever the system does not stop by itself; the queues' runs, the scheduler's and the
transformation's end (all messages handled, all vertices mapped, memory allocated), and `static_runtime`, `jit_runtime_history` and
`platform` go on after the event of their history variable, where threads may wait for ever.

### Fairness

`NotificationQueue`: a thread inside push or pop is scheduled (weak fairness); where it competes for the mutex or the
semaphore, strong fairness, as a pthread mutex gives in practice; the owner keeps popping as `LRT::run` does. Nobody
has to push. `StaticRuntime`: weak fairness of each thread's next step, of its late post, and of the GRT within
iterate and within the destructor. The application need not call either. `JitRuntime`: the same. `Platform`: weak fairness
of every thread, the application's calls excepted. What is live in `static_runtime` and `platform` is so up to the missed work, or the miscounted call:
after it the code itself hangs. `SingleRate` and `MemAlloc`: weak fairness of `Optims`, a loop in one thread that
nothing interrupts.

## 4. Findings

* **A non-blocking pop hides completed pushes** (`NotificationQueue.cpp:64`): the post comes after the unlock, so the
  counter may not yet show an item that is in front of one whose push has returned.
* **The GRT can miss messages of its own iteration** (`lrt.cpp:518`, `:569`), as a consequence: it sends itself its jobs and
  `LRT_END_ITERATION` before `run(false)`, and drains without blocking. An LRT that has put a stamp into the GRT's queue
  and not yet posted it hides the last of these messages. The GRT then leaves `run` without the reset, and
  `jobQueueSanityCheck` throws in the next iteration. This is the only way in which
  the order of a static graph gets lost: `OrderUntilMissed`, `EndUntilMissed` and `MissedForALatePost` say so, and are proved; and the only
  one in which iterate hangs on the instance of `static_runtime` (`IterateReturnsUntilMissed`).
* **An idle LRT blocks iterate** (`lrt.cpp:547`): it gets `-1` as last job ID, never reports, and is waited for.
* **The unlocked read of the control message queue** (`ControlMessageQueue.cpp:56`) races with the `push_back` of another thread.
* **A broadcast stamp survives its iteration** (`lrt.cpp:567`): an LRT sends the parameters of its configuration job before its
  broadcast. Preempted between the two, it broadcasts to LRTs that have already finished the iteration and reset their stamps;
  they take the stamp for one of the next iteration.
* **Stamps across rounds may never come**: the GRT is left out of the broadcast (`Launcher.cpp:213`), so a job that waits for a
  GRT's job of an earlier round waits for ever; an LRT that reads the announcement before its jobs of the round forgets it
  (`lrt.cpp:358`); and the loop over `getNActivatedPE()` LRTs leaves out the last one when a PE before it is disabled
  (`Launcher.cpp:212`). The run `jit_runtime` has a graph in which nobody depends on these.
* **PEs changed after the first iteration of a static graph** (`Archi.h:255`) change how many ends of iteration are waited for,
  not how many are sent: iterate returns early, or never. **`Spider::clean` frees the architecture first** (`spider.cpp:240`): with a
  stack that gives its memory back, the destructor stops the wrong LRTs. With static stacks the destructor returns (`ReturnsUntilMiscounted`).
* **The repetition vector of some consistent graphs is refused** (`LCM.cpp:73`): an edge between two bodies that have rates already
  does not make them agree, so a graph whose bodies get their rates in two groups fails `checkConsistency`. And `updateBRV` (`CommonBRV.cpp:102`)
  applies the factor for interfaces to the first vertices of the walk, whether these are bodies or interfaces.
  `GrowsFromOneBody` and `ScalesTheBodies` name the graphs without these; for them `RepetitionVectorIsRight` holds.
* **The special actor allocator overlaps edges** (`SpecialActorMemAlloc.cpp:57`, `:87`): a join takes the place of an input that a fork has
  placed as its own place, without subtracting the inputs before it. A delay of one token between two bodies of rate two is
  enough: the initial token and the first token of the source get one address. `IsSimple` names the graphs where no special
  actor is placed by another one's offset; for them, and for the dummy allocator always, `SharedPlacesAgree` holds.

## 5. Proofs

All theorems hold for every value of the constants that satisfies the modules' ASSUMEs.

* `NotificationQueue_proofs`: types, `MutualExclusion`, `CreditAccounting`, `PopFindsItem`, `EmptyAnswerExcused`, and that each
  step maps to a step of `MessageChannel` or a stutter. The inductive invariant is types, mutual exclusion and the
  equation items = counter + posts owed + credits held; mutual exclusion alone does not bound the counter, and
  the equation needs mutual exclusion to be kept.
* `ControlMessageQueue_proofs`: `NoSharing`, `NoLeak`, `AnnouncedIsIntact`, `NeverAnotherMessage`. The invariant adds what a thread
  inside a call knows (`CallsAreSound`, `StoredIsIntact`): the slot in its hands is in the vector, holds its message
  after the store, and nobody grows the vector without the mutex. `NoNeedlessGrowth` then follows by counting: a push
  grows the vector only with no index free, so by `NoLeak` each slot belongs to a message under way and the vector is
  no longer than the messages are many.
* `StaticRuntimeOrder_proofs`, first part: types. Typing is not inductive by itself: the head of a queue is read when the
  semaphore allows it, hence `CreditsMatch` (items = credits + posts owed, by cardinality of the threads that owe
  one), and a running job is looked up by an index, hence `ExecutingIsQueued`.
* Its second part and `StaticRuntimeIteration_proofs`: until the GRT misses work, `PrecedenceRespected`, `StampsAreTrue`, `IterationComplete`,
  `QuietBetweenIterations`, `SanityCheckHolds` and `NeverWaitsForItself` (`OrderUntilMissed`, `EndUntilMissed`), `StampsAdvanceUntilMissed` and the refinement
  `DataflowUntilMissed`; and that work is missed for a late post only (`MissedForALatePost`). For every number of LRTs and iterations,
  every schedule that keeps `ScheduleConstraints` and every set of late posters.
* `SRDAGScheduler_proofs`: `ScheduleIsSound` and `TimesAreSound`, for every graph, every table of times, virtual IDs and any choice of PEs;
  `SourcesAreMapped`, for every acyclic one.
* `JitRuntime_proofs`: `TypeOK`, `ParametersAreKnown` and, for LRTs that trace, `TracesAreKept`, for every number of LRTs, rounds and
  iterations, every schedule and every set of late posters.
* `JitRuntimeOrder_proofs`: `StampsTrueUntilLeftover`, the refinement `DataflowUntilLeftover` of the dynamic mode and `MissedForALatePost`,
  for every graph, rounds, schedule and set of late posters.
* `Platform_proofs`: `TypeOK`, `OnlyArchiIsLost` and `WaitsUntilMiscounted`, for every number of LRTs and iterations, wherever the
  architecture lies and whenever PEs change.

**The order of an iteration.** The two modules about it share one inductive invariant, `OInv`. `PrecedenceRespected` follows from true stamps within an iteration; the
difficulty is that stamps and jobs of an iteration must be gone when the next one reuses the same numbers, while LRTs end
their iteration at different times and still receive messages. The argument:

* An LRT takes part in an iteration until its jobs have all run and it has cleared its state. It is then *rested*, for
  the rest of the iteration (`Progress`).
* Its job queue is the prefix of its jobs that it has received, and the `JOB_ADD`s in its notification queue are exactly the jobs
  sent and not received, in order (`JobQueueInOrder`, `AddsInOrder`).
* Every stamp on its way to an LRT, or about to be sent, is news: larger than the one the LRT holds, true, and awaited by one of
  its jobs that has not started (`UpdatesAreNews`, `ToNotifyAreNews`). A rested LRT has no such job, so no stamp can reach it,
  and none outlives the iteration. This is where `NotifiesMatchWaits` of the schedule is used.
* A job that has started has nothing left to wait for (`WaitsAreOver`).
* `LRT_FINISHED_ITERATION` comes from rested LRTs, one each; those that the GRT has counted are a set of rested LRTs, disjoint
  from the senders still in its queue, whose size is `nFinishedPE` (`FinishedAreRested`). When the count is complete all are rested.
* `GrtPhases` says what this means for each state of the GRT, which both sends the schedule and runs jobs.

**Between two iterations.** `OInv` says nothing of the end of iteration, of which each LRT must get one and read it, nor of the GRT's own pass. `QInv`
does: `LRT_END_ITERATION` is sent to an LRT at most once in an iteration, and after it, it is in the queue or the LRT has read it, never twice (`EndsOnce`); an
LRT that was counted as finished is *over*: it has neither a last job ID nor an end to read (`FinishedAreOver`); the GRT leaves `run` only when
it is over itself, or has no jobs (`GrtHasItsJobs`); and nobody else's messages are in a queue (`Kinds`). At the last count every LRT
is over and its queue empty, but for LRTs that are not enabled: nobody waits for them, so one may still have to read its
`LRT_END_ITERATION`, which `QuietBetweenIterations` therefore allows. TLC checks `QInv`'s consequence (`EndUntilMissed`) on an instance.

**The refinement.** `DataflowUntilMissed` maps `started[j]` to the runs of a job, the one under way included. `RunRefines` and `GrtRefines` go through
the actions: `StartJob` starts a job (its sources have run in this iteration by `PrecedenceRespected`, and it has not, by `Progress`), `FinishJob`
ends it, `Iterate` begins an iteration (all jobs have run by `IterationComplete`), and everything else stutters.

None of this needs an assumption on who posts when. `OInv` and `QInv` are kept by every step but one: the one in which the GRT leaves `run` and
its own work is unread (`GrtMisses`), possible because it drains its queue without blocking and a late post hides what is there. The inductive
invariant is therefore `missed \/ IInv`; the case of the GRT's `EndPass` is the one place where it matters (`GrtHasItsJobs`: it got its
jobs and its `LRT_END_ITERATION` before it left). `StaticRuntimeMissed.cfg` shows that `SanityCheckHolds` is lost afterwards, so this cannot be
improved on. What may cause the event is the subject of `MissedHolds`: at the GRT's last try-pop its semaphore was 0 with items in the queue, so by
`CreditsMatch` somebody owed a post to that queue; the GRT owed none, and what it had left unread then is still unread.

**The schedule.** `MappingInv` says of a schedule in the making that its jobs are the vertices mapped so far, sources first; that job IDs count them per
PE without gap, in this order; that a vertex waits, on each PE, for the last of its sources mapped there, and notifies exactly the PEs on
which a vertex waits for it; and that the ready time of a PE is not before the end of its last job. It does not depend on the levels. That the list
ordered by levels never puts a vertex before its sources does (`SourcesAreMapped`), and levels are a recursion over the graph.
`LevelsExist` proves that this recursion has a solution on a graph without cycle: take a largest set of vertices, closed under successors, on which it
has one; if that is not all, the rest has a vertex whose successors are all in the set, and the set can be enlarged. The largest set exists by well-foundedness
of <, a fact of the library that takes no operator as parameter. The hypothesis is `InputsAreSound`: graphs have no cycle, since a graph with one is not
executable, and every vertex may run on some PE. A vertex that may run nowhere counts with `(int) UINT_MAX` = -1, which can put its sources after it. That no
vertex takes no time, which would give it the level of its source and leave the order of the two to the sort, is no hypothesis:
`computeScheduleLevel` throws (`HasNullTime`; the mutant `NullTimeAccepted` shows what for), for every vertex that has a source. Both parts are true of the instance of `srdag_scheduler`
(`InputsAssumption`).

**The rounds of the dynamic mode.** `resolveParams` counts messages down from `curNParam_`, in any order and whoever they come from, and pushes back those of another kind. `ParametersAreKnown` needs that the counter is the number of
configuration jobs whose parameters are still to come (`ParametersCounted`), and that no two messages are of the same job. The latter
is a fact about its whole way (`InOnePlace`): a `JOB_ADD` in a queue, an entry of a job queue whose parameters are not sent
yet, or a `JOB_SENT_PARAM`, only one of these and only once. Unlike the order within an iteration it needs no
hypothesis on posts or on the schedule: a configuration job that comes back at all comes back once. That a round is planned only when the counter is zero is
`Rounds`; between rounds the jobs sent are all those of the rounds planned. For `TracesAreKept` the `TRACE_LRT`s of each job in the
trace queue are counted, and are as many as the runs of that job; messages pushed back change places but not the count. `JitRuntime_proofs` uses types of the
parameters only (`PlatformAssumption`, `ScheduleTypes`, `RoundAssumption`), and not the constraints of `ScheduleConstraints`. TLC evaluates all of these assumptions on each instance.

**The order of the rounds.** The refinement says that a job starts after its sources and after the configuration jobs of earlier rounds, and that an
iteration begins when the last one is complete. The argument of the static mode does not carry over: there, a stamp is sent only to LRTs that wait for it, so
none outlives the iteration. A broadcast goes to every LRT, whether it waits or not, and may come at any time. `OInv` therefore says less of stamps,
and it is enough:

* Every stamp, held, in a queue, or about to be notified or broadcast, is *true*: the job it names and those before it on its LRT have run in this iteration
  (`HeldAreTrue`, `MessagesAreSound`, `StampIsTrue`). Within an iteration nothing makes it false. With `WaitsCoverPreds` this gives the order of the data.
* An LRT is in the middle of a job only within an iteration, its job queue is what it has received, and the `JOB_ADD`s in its queue are what it has still to get
  (`JobQueueInOrder`, `AddsAreOrdered`); the last job ID it knows is that of all its jobs (`LastIDs`).
* The configuration jobs of the rounds planned have run once their parameters are back (`ConfigsHaveRun`), which orders the rounds.
* An LRT whose end was counted is rested, all its jobs have run (`FinishedAreCounted`); and for each state of the GRT, what it has sent and done (`GrtPhases`).

Two steps may break `OInv`. `Iterate` makes every stamp of the last iteration false (`stale`), and the GRT may end its last round with work of its own unread
(`missed`), as in the static mode. The code excludes neither: see the findings and run `jit_runtime_stale`. The inductive invariant is
types, the invariant of the parameters, and `OInv` unless one of the two has happened (`LeftOver`). Before the first iteration there is no stamp
(`Fresh`), which is why `stale` counts from the second iteration on: an application that calls `iterate` once has the order of its jobs whatever its graph
does with broadcasts. The theorems say that a stamp left over and missed work are the *only* ways in which the order can get lost;
`JitRuntimeOvertaken.cfg` shows that the first is one. Where `StampsAreReset` holds, as run `jit_runtime` checks on an instance with two
iterations, only the second is left.

**The platform.** The barrier counts threads and does not know them. `PhaseInv` says that all threads are between the same two waits: a thread that the
barrier has released, and that has not left it yet, counts for the next phase, so there is never one thread two phases ahead. What
is set up before a wait is then live after it for all. There is one exception, the architecture, which `Spider::clean` frees first: `OnlyArchiIsLost` says that
it is the only object, and the destructor in the GRT's thread the only place, where anything is used after it was freed. With static stacks its memory outlives the
free, with others not; `Clean` leaves it open, and `PlatformFreedArchi.cfg` shows what happens when it does not. `CallInv` relates, within an iteration, the ends
that the GRT counts to the LRTs that have sent one. It needs that as many PEs are enabled as have jobs, not that they are the same: PEs may be
swapped between two iterations and iterate still waits for the right LRTs. `WaitsUntilMiscounted` says so up to the first call with other
numbers, after which `PlatformChangedPEs.cfg` shows `IterateWaits` fail.

Only model-checked: all liveness (TLAPS proves none under fairness), `StampsAreReset` of
`JitRuntime`, which holds of some graphs only, and all of `RepetitionVector`, `SingleRate` and `MemAlloc`. Rates, `Read` and
`Fifo` are folds and recursive functions; that they agree on every graph needs an induction over the rewrites whose
invariant would be as large as the transformation.

## 6. Plan

The modules of the plan are written, but for what section 7 names. Theorems that would come next: a condition on the rounds and the mapping under which `StampsAreReset`
holds; that `AllocEdge` keeps what is placed disjoint, from which `SharedPlacesAgree` follows for the dummy allocator.

## 7. Not modelled

* Graphs: configuration actors in the transformation and `scheduleOnlyConfig`'s choice of vertices (a constant of `JitRuntime`);
  setters and getters of delays; persistent delays and their reserved memory; delays or rates of zero on the edge of an
  interface (`NullEdgesAssumption` excludes the latter by name); edges from interface to interface; the limit `MAX_IO_EDGES`; forks without outputs and joins without inputs; the
  topology matrix method; overflow of rates, and `getAlignSize`'s rounding in `float`.
* Runtime: messages that no code sends (section 1), interrupted waits, papify, SIGINT, export and printing. `printGantt` reads
  the traces between two iterations and draws them. An actor that writes to its inputs, which broadcasts and shared memory exclude.
* Mapping variants: their assignments are among those of `SRDAGScheduler`; their counters and costs are not modelled.
* `DataQueues`, the byte queue, the trace queue: used by nobody. Containers, stacks and monitors: sequential, no protocol.
* The SRDAG-less mode: reached by no call of `iterate`.

Most lines of this repository are the data tables and vendored code of `apps`, `old_apps` and `omp`; what the modules model is
the part of `src/master/libspider` that is executed when a graph runs on the pthread platform.

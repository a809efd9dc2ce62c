-------------------------- MODULE NotificationQueue --------------------------
(***************************************************************************)
(* NotificationQueue<T> of platform_pthread: a std::queue guarded by a     *)
(* mutex, with a counting semaphore that a reader takes before it touches  *)
(* the queue.  Every thread of the platform may push; a queue is read by   *)
(* its owner only (LRT i reads queue i, the GRT reads queue nLrt), and the *)
(* GRT also pushes to queues it reads itself.                              *)
(*                                                                         *)
(* A push releases the mutex BEFORE it posts the semaphore, so the steps   *)
(* of push and pop are kept apart: taking the mutex, the body of the       *)
(* critical section, releasing it, and the two semaphore calls.            *)
(***************************************************************************)
EXTENDS Naturals, Sequences, FiniteSets

CONSTANTS Threads,   \* every thread of the platform
          Owner,     \* the thread that pops this queue
          NoThread,  \* the free mutex
          MaxPush    \* bound: how many items a thread pushes

ASSUME ThreadsAssumption ==
  /\ IsFiniteSet(Threads)
  /\ Owner \in Threads
  /\ NoThread \notin Threads
  /\ MaxPush \in Nat

VARIABLES queue,        \* queue_
          queueSize,    \* queueSize_
          queueMutex,   \* the holder of queueMutex_, or NoThread
          queueCounter, \* the value of the semaphore queueCounter_
          pc,           \* where each thread is inside push or pop
          pushed,       \* pushed[t]: items thread t has put in the queue
          received      \* items pop has handed to the owner

vars == <<queue, queueSize, queueMutex, queueCounter, pc, pushed, received>>

PushSteps == {"push_body", "push_unlock", "push_post"}
PopSteps == {"pop_lock", "pop_body", "pop_unlock"}

(* NotificationQueue(): empty, and the semaphore starts at 0. *)
Init ==
  /\ queue = <<>>
  /\ queueSize = 0
  /\ queueMutex = NoThread
  /\ queueCounter = 0
  /\ pc = [t \in Threads |-> "idle"]
  /\ pushed = [t \in Threads |-> 0]
  /\ received = <<>>

-----------------------------------------------------------------------------
(* push *)

PushLock(t) ==
  /\ pc[t] = "idle" /\ pushed[t] < MaxPush
  /\ queueMutex = NoThread
  /\ queueMutex' = t
  /\ pc' = [pc EXCEPT ![t] = "push_body"]
  /\ UNCHANGED <<queue, queueSize, queueCounter, pushed, received>>

PushBody(t) ==
  /\ pc[t] = "push_body"
  /\ queue' = Append(queue, <<t, pushed[t] + 1>>)
  /\ queueSize' = queueSize + 1
  /\ pushed' = [pushed EXCEPT ![t] = @ + 1]
  /\ pc' = [pc EXCEPT ![t] = "push_unlock"]
  /\ UNCHANGED <<queueMutex, queueCounter, received>>

PushUnlock(t) ==
  /\ pc[t] = "push_unlock"
  /\ queueMutex' = NoThread
  /\ pc' = [pc EXCEPT ![t] = "push_post"]
  /\ UNCHANGED <<queue, queueSize, queueCounter, pushed, received>>

(* Faulty variant: the push returns without posting the semaphore.         *)
PushPostForgotten(t) ==
  /\ pc[t] = "push_post"
  /\ pc' = [pc EXCEPT ![t] = "idle"]
  /\ UNCHANGED <<queue, queueSize, queueMutex, queueCounter, pushed, received>>

PushPost(t) ==
  /\ pc[t] = "push_post"
  /\ queueCounter' = queueCounter + 1
  /\ pc' = [pc EXCEPT ![t] = "idle"]
  /\ UNCHANGED <<queue, queueSize, queueMutex, pushed, received>>

-----------------------------------------------------------------------------
(* pop *)

(* Faulty variant: the result of sem_trywait is ignored.                   *)
PopAcquireUnchecked(t) ==
  /\ t = Owner /\ pc[t] = "idle"
  /\ queueCounter' = queueCounter - 1
  /\ pc' = [pc EXCEPT ![t] = "pop_lock"]
  /\ UNCHANGED <<queue, queueSize, queueMutex, pushed, received>>

(* sem_wait of a blocking pop, or a sem_trywait that succeeds. *)
PopAcquire(t) ==
  /\ t = Owner /\ pc[t] = "idle"
  /\ queueCounter > 0
  /\ queueCounter' = queueCounter - 1
  /\ pc' = [pc EXCEPT ![t] = "pop_lock"]
  /\ UNCHANGED <<queue, queueSize, queueMutex, pushed, received>>

(* A sem_trywait that fails: pop(data, false) returns false.  It changes   *)
(* nothing, and is kept as an action so that properties can speak of it.   *)
PopReturnsFalse(t) ==
  /\ t = Owner /\ pc[t] = "idle"
  /\ queueCounter = 0
  /\ pc' = [pc EXCEPT ![t] = "returned_false"]
  /\ UNCHANGED <<queue, queueSize, queueMutex, queueCounter, pushed, received>>

(* The caller goes on after an answer "false". *)
PopCallerResumes(t) ==
  /\ pc[t] = "returned_false"
  /\ pc' = [pc EXCEPT ![t] = "idle"]
  /\ UNCHANGED <<queue, queueSize, queueMutex, queueCounter, pushed, received>>

(* Faulty variant: pop does not take the mutex the pushers take.           *)
PopLockForgotten(t) ==
  /\ pc[t] = "pop_lock"
  /\ pc' = [pc EXCEPT ![t] = "pop_body"]
  /\ UNCHANGED <<queue, queueSize, queueMutex, queueCounter, pushed, received>>

PopLock(t) ==
  /\ pc[t] = "pop_lock"
  /\ queueMutex = NoThread
  /\ queueMutex' = t
  /\ pc' = [pc EXCEPT ![t] = "pop_body"]
  /\ UNCHANGED <<queue, queueSize, queueCounter, pushed, received>>

(* Faulty variant: front() without pop().                                  *)
PopBodyKeepsItem(t) ==
  /\ pc[t] = "pop_body"
  /\ queue # <<>>
  /\ received' = Append(received, Head(queue))
  /\ pc' = [pc EXCEPT ![t] = "pop_unlock"]
  /\ UNCHANGED <<queue, queueSize, queueMutex, queueCounter, pushed>>

(* front() and pop() of an empty std::queue are undefined: the action is   *)
(* guarded, and PopFindsItem says that the guard never blocks it.          *)
PopBody(t) ==
  /\ pc[t] = "pop_body"
  /\ queue # <<>>
  /\ received' = Append(received, Head(queue))
  /\ queue' = Tail(queue)
  /\ queueSize' = queueSize - 1
  /\ pc' = [pc EXCEPT ![t] = "pop_unlock"]
  /\ UNCHANGED <<queueMutex, queueCounter, pushed>>

PopUnlock(t) ==
  /\ pc[t] = "pop_unlock"
  /\ queueMutex' = NoThread
  /\ pc' = [pc EXCEPT ![t] = "idle"]
  /\ UNCHANGED <<queue, queueSize, queueCounter, pushed, received>>

-----------------------------------------------------------------------------
Push(t) == PushLock(t) \/ PushBody(t) \/ PushUnlock(t) \/ PushPost(t)

Pop(t) == \/ PopAcquire(t) \/ PopReturnsFalse(t) \/ PopCallerResumes(t)
          \/ PopLock(t) \/ PopBody(t) \/ PopUnlock(t)

Next == \E t \in Threads : Push(t) \/ Pop(t)

Spec == Init /\ [][Next]_vars

(***************************************************************************)
(* Threads are not starved by the kernel inside push and pop, and the      *)
(* owner keeps calling the blocking pop.  Strong fairness where a thread   *)
(* waits for the mutex, which others may keep taking.  Nobody has to push. *)
(***************************************************************************)
Fairness ==
  /\ \A t \in Threads :
       WF_vars(PushBody(t) \/ PushUnlock(t) \/ PushPost(t))
  /\ SF_vars(PopAcquire(Owner))
  /\ WF_vars(PopCallerResumes(Owner))
  /\ SF_vars(PopLock(Owner))
  /\ WF_vars(PopBody(Owner) \/ PopUnlock(Owner))

FairSpec == Spec /\ Fairness

-----------------------------------------------------------------------------
(* Threads that have added an item and not yet posted the semaphore, and   *)
(* threads that have taken the semaphore and not yet removed an item.      *)
Posting == {t \in Threads : pc[t] \in {"push_unlock", "push_post"}}
Taking == {t \in Threads : pc[t] \in {"pop_lock", "pop_body"}}
Inside == {t \in Threads :
             pc[t] \in {"push_body", "push_unlock", "pop_body", "pop_unlock"}}

Item == Threads \X Nat

(* Types of the state of the queue and of its callers. *)
TypeOK ==
  /\ queue \in Seq(Item)
  /\ queueSize \in Nat
  /\ queueMutex \in Threads \cup {NoThread}
  /\ queueCounter \in Nat
  /\ pc \in [Threads -> {"idle", "returned_false"} \cup PushSteps \cup PopSteps]
  /\ pushed \in [Threads -> Nat]
  /\ received \in Seq(Item)

(* The std::queue and its size are touched by one thread at a time, the    *)
(* one that holds queueMutex_ (both lock_guard scopes).                    *)
MutualExclusion ==
  Inside = IF queueMutex = NoThread THEN {} ELSE {queueMutex}

(* The semaphore counts exactly the items whose push has completed and     *)
(* that no pop has claimed: items = credits + pushes that have not posted  *)
(* yet + pops that have a credit and not yet an item.                      *)
CreditAccounting ==
  /\ queueSize = Len(queue)
  /\ Len(queue) = queueCounter + Cardinality(Posting) + Cardinality(Taking)

(* A pop that got past the semaphore finds an item: front() is never       *)
(* called on an empty std::queue.                                          *)
PopFindsItem == \A t \in Threads : pc[t] = "pop_body" => queue # <<>>

(* A trypop answers "empty" only while at least as many pushes are still   *)
(* on their way to sem_post as there are items in the queue.               *)
EmptyAnswerExcused ==
  [][\A t \in Threads :
       PopReturnsFalse(t) => Len(queue) <= Cardinality(Posting)]_vars

(* The queue is a first-in first-out channel: a push takes effect when it  *)
(* appends, a pop when it removes; nothing is lost, duplicated or passed.  *)
Channel == INSTANCE MessageChannel
             WITH chan <- queue, delivered <- received, sent <- pushed
ImplementsChannel == Channel!Spec

(* Every item pushed reaches the owner, if the owner keeps popping: a post *)
(* that comes late is a post all the same.                                 *)
EveryItemReceived ==
  \A t \in Threads : \A k \in 1..MaxPush :
    (pushed[t] >= k) ~> (\E i \in DOMAIN received : received[i] = <<t, k>>)

(* The header's contract, "Read one value in the queue if it contains any" *)
(* (NotificationQueue.h:83): after a trypop that answers false there is no *)
(* item left whose push had already returned to its caller.  It does not   *)
(* hold: the post that another push still owes is missing from the counter *)
(* although its item is in front, so the last completed item is hidden.    *)
PushReturned(item) ==
  \/ item[2] < pushed[item[1]]
  \/ item[1] \notin Posting

TryPopReadsIfAny ==
  [][\A t \in Threads :
       PopReturnsFalse(t) => \A i \in DOMAIN queue : ~PushReturned(queue[i])]_vars
=============================================================================

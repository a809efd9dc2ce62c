------------------------- MODULE ControlMessageQueue -------------------------
(***************************************************************************)
(* ControlMessageQueue<T> of platform_pthread: a vector of messages, each  *)
(* in a slot whose index the push returns, and a queue of the indexes that *)
(* can be reused.  The index travels to its reader in a notification; here *)
(* it waits in "announced" until some thread pops it, once.                *)
(*                                                                         *)
(* indexesQueueMutex_ guards one queue operation at a time, so such an     *)
(* operation is one step.  The body of push runs under msgQueueMutex_, pop *)
(* reads the vector without any mutex: it loads the address of the buffer, *)
(* then the slot, and a push_back of another thread may move the vector to *)
(* a larger buffer, and free the old one, between the two loads.           *)
(***************************************************************************)
EXTENDS Integers, Sequences, FiniteSets

CONSTANTS Threads,   \* threads that push and pop
          NoThread,  \* the free mutex
          MaxPush    \* bound: how many messages are pushed in all

ASSUME ThreadsAssumption ==
  /\ NoThread \notin Threads
  /\ IsFiniteSet(Threads)
  /\ MaxPush \in Nat

VARIABLES msgQueue,      \* msgQueue_: slot i of the vector is msgQueue[i + 1]
          capacity,      \* capacity of the vector's buffer
          buffer,        \* how often the vector has moved to a new buffer
          indexesQueue,  \* indexesQueue_: free slots, next to be reused first
          msgQueueMutex, \* the holder of msgQueueMutex_, or NoThread
          announced,     \* messages pushed and not yet popped, with their slot
          pc,            \* where each thread is inside push or pop
          slot,          \* the index a thread works on; -1: none free
          base,          \* the buffer a pop loaded the address of
          wanted,        \* the message that the thread pushes or pops
          got,           \* the message a pop has read
          pushed,        \* how many messages have been pushed
          peak           \* the most messages ever outstanding at a time

vars == <<msgQueue, capacity, buffer, indexesQueue, msgQueueMutex, announced,
          pc, slot, base, wanted, got, pushed, peak>>
vector == <<msgQueue, capacity, buffer>>

(* Messages are numbered in the order in which their pushes begin.         *)
Message == Nat \ {0}
Garbage == 0
PushSteps == {"push_lock", "push_store", "push_return"}
PopSteps == {"pop_load", "pop_free"}

Init ==
  /\ msgQueue = <<>> /\ capacity = 0 /\ buffer = 0
  /\ indexesQueue = <<>>
  /\ msgQueueMutex = NoThread
  /\ announced = {}
  /\ pc = [t \in Threads |-> "idle"]
  /\ slot = [t \in Threads |-> -1]
  /\ base = [t \in Threads |-> 0]
  /\ wanted = [t \in Threads |-> Garbage]
  /\ got = [t \in Threads |-> Garbage]
  /\ pushed = 0
  /\ peak = 0

(* The locals of a call die with it.                                       *)
EndCall(t) ==
  /\ pc' = [pc EXCEPT ![t] = "idle"]
  /\ slot' = [slot EXCEPT ![t] = -1]
  /\ base' = [base EXCEPT ![t] = 0]
  /\ wanted' = [wanted EXCEPT ![t] = Garbage]
  /\ got' = [got EXCEPT ![t] = Garbage]

(* Messages under way: announced, or in the hands of a push or of a pop.   *)
Outstanding == Cardinality(announced) + Cardinality({t \in Threads : pc[t] # "idle"})

-----------------------------------------------------------------------------
(* push *)

BeginPush(t) ==
  /\ pc[t] = "idle" /\ pushed < MaxPush
  /\ pushed' = pushed + 1
  /\ wanted' = [wanted EXCEPT ![t] = pushed + 1]
  /\ pc' = [pc EXCEPT ![t] = "push_lock"]
  /\ peak' = IF Outstanding + 1 > peak THEN Outstanding + 1 ELSE peak
  /\ UNCHANGED <<vector, msgQueueMutex, announced, base, got>>

(* Faulty variants: the free index is read and left in the queue; free     *)
(* indexes are never looked up.                                            *)
PushGetIndexKeepsIt(t) ==
  /\ BeginPush(t)
  /\ slot' = [slot EXCEPT ![t] = IF indexesQueue = <<>> THEN -1 ELSE Head(indexesQueue)]
  /\ UNCHANGED indexesQueue
PushGetIndexNever(t) ==
  /\ BeginPush(t)
  /\ slot' = [slot EXCEPT ![t] = -1]
  /\ UNCHANGED indexesQueue

(* getNextFreeIndex *)
PushGetIndex(t) ==
  /\ BeginPush(t)
  /\ \/ /\ indexesQueue = <<>>
        /\ slot' = [slot EXCEPT ![t] = -1]
        /\ UNCHANGED indexesQueue
     \/ /\ indexesQueue # <<>>
        /\ slot' = [slot EXCEPT ![t] = Head(indexesQueue)]
        /\ indexesQueue' = Tail(indexesQueue)

PushLock(t) ==
  /\ pc[t] = "push_lock"
  /\ msgQueueMutex = NoThread
  /\ msgQueueMutex' = t
  /\ pc' = [pc EXCEPT ![t] = "push_store"]
  /\ UNCHANGED <<vector, indexesQueue, announced, slot, base, wanted, got, pushed, peak>>

PushInFreeSlot(t) ==
  /\ pc[t] = "push_store" /\ slot[t] >= 0
  /\ msgQueue' = [msgQueue EXCEPT ![slot[t] + 1] = wanted[t]]
  /\ pc' = [pc EXCEPT ![t] = "push_return"]
  /\ UNCHANGED <<capacity, buffer, indexesQueue, msgQueueMutex, announced, slot, base,
                 wanted, got, pushed, peak>>

(* Faulty variant: the index returned is the size of the vector.           *)
PushBackWrongIndex(t) ==
  /\ pc[t] = "push_store" /\ slot[t] < 0
  /\ msgQueue' = Append(msgQueue, wanted[t])
  /\ capacity' = IF Len(msgQueue) = capacity THEN 2 * capacity + 1 ELSE capacity
  /\ slot' = [slot EXCEPT ![t] = Len(msgQueue')]
  /\ pc' = [pc EXCEPT ![t] = "push_return"]
  /\ UNCHANGED <<buffer, indexesQueue, msgQueueMutex, announced, base, wanted, got, pushed, peak>>

(* push_back: a full vector moves to a buffer of twice its size.           *)
PushBack(t) ==
  /\ pc[t] = "push_store" /\ slot[t] < 0
  /\ msgQueue' = Append(msgQueue, wanted[t])
  /\ \/ Len(msgQueue) < capacity /\ UNCHANGED <<capacity, buffer>>
     \/ /\ Len(msgQueue) = capacity
        /\ capacity' = IF capacity = 0 THEN 1 ELSE 2 * capacity
        /\ buffer' = buffer + 1
  /\ slot' = [slot EXCEPT ![t] = Len(msgQueue)]
  /\ pc' = [pc EXCEPT ![t] = "push_return"]
  /\ UNCHANGED <<indexesQueue, msgQueueMutex, announced, base, wanted, got, pushed, peak>>

(* The index is returned and sent to the reader of the message.            *)
PushReturn(t) ==
  /\ pc[t] = "push_return"
  /\ msgQueueMutex' = NoThread
  /\ announced' = announced \cup {[id |-> slot[t], message |-> wanted[t]]}
  /\ EndCall(t)
  /\ UNCHANGED <<vector, indexesQueue, pushed, peak>>

-----------------------------------------------------------------------------
(* pop; an index that was announced is never negative, so the early return *)
(* for id < 0 is never taken.                                              *)

PopLoadBuffer(t) ==
  /\ pc[t] = "idle"
  /\ \E a \in announced :
       /\ announced' = announced \ {a}
       /\ slot' = [slot EXCEPT ![t] = a.id]
       /\ wanted' = [wanted EXCEPT ![t] = a.message]
  /\ base' = [base EXCEPT ![t] = buffer]
  /\ pc' = [pc EXCEPT ![t] = "pop_load"]
  /\ UNCHANGED <<vector, indexesQueue, msgQueueMutex, got, pushed, peak>>

(* A buffer that was freed may still hold the message, or anything else.   *)
PopLoadSlot(t) ==
  /\ pc[t] = "pop_load"
  /\ \/ got' = [got EXCEPT ![t] = msgQueue[slot[t] + 1]]
     \/ base[t] # buffer /\ got' = [got EXCEPT ![t] = Garbage]
  /\ pc' = [pc EXCEPT ![t] = "pop_free"]
  /\ UNCHANGED <<vector, indexesQueue, msgQueueMutex, announced, slot, base, wanted,
                 pushed, peak>>

(* Faulty variants: the slot is freed twice; it is not freed.              *)
PopFreeTwice(t) ==
  /\ pc[t] = "pop_free"
  /\ indexesQueue' = indexesQueue \o <<slot[t], slot[t]>>
  /\ EndCall(t)
  /\ UNCHANGED <<vector, msgQueueMutex, announced, pushed, peak>>
PopFreeForgotten(t) ==
  /\ pc[t] = "pop_free"
  /\ EndCall(t)
  /\ UNCHANGED <<vector, indexesQueue, msgQueueMutex, announced, pushed, peak>>

(* setNextFreeIndex, and the return to the caller.                         *)
PopFree(t) ==
  /\ pc[t] = "pop_free"
  /\ indexesQueue' = Append(indexesQueue, slot[t])
  /\ EndCall(t)
  /\ UNCHANGED <<vector, msgQueueMutex, announced, pushed, peak>>

-----------------------------------------------------------------------------
Push(t) == \/ PushGetIndex(t) \/ PushLock(t) \/ PushInFreeSlot(t)
           \/ PushBack(t) \/ PushReturn(t)
Pop(t) == PopLoadBuffer(t) \/ PopLoadSlot(t) \/ PopFree(t)

Next == \E t \in Threads : Push(t) \/ Pop(t)

Spec == Init /\ [][Next]_vars

-----------------------------------------------------------------------------
Slots == 0 .. Len(msgQueue) - 1

(* A thread that works on a slot nobody else may use.                      *)
Working(t) == pc[t] # "idle" /\ slot[t] >= 0
(* A thread that found no free slot and has not yet grown the vector.      *)
Growing == {t \in Threads : pc[t] \in {"push_lock", "push_store"} /\ slot[t] < 0}

(* Types of the state of the queue and of its callers.                     *)
TypeOK ==
  /\ msgQueue \in Seq(Message)
  /\ capacity \in Nat /\ buffer \in Nat
  /\ Len(msgQueue) <= capacity
  /\ indexesQueue \in Seq(Slots)
  /\ msgQueueMutex \in Threads \cup {NoThread}
  /\ announced \subseteq [id : Slots, message : Message]
  /\ pc \in [Threads -> {"idle"} \cup PushSteps \cup PopSteps]
  /\ slot \in [Threads -> Slots \cup {-1}]
  /\ base \in [Threads -> Nat]
  /\ wanted \in [Threads -> Message \cup {Garbage}]
  /\ got \in [Threads -> Message \cup {Garbage}]
  /\ pushed \in Nat
  /\ peak \in Nat

(* No slot has two users: a slot is once in the queue of free indexes, or  *)
(* holds one announced message, or is worked on by one thread.             *)
FreeOnce == \A i, j \in DOMAIN indexesQueue : indexesQueue[i] = indexesQueue[j] => i = j
AnnouncedOnce == \A a, b \in announced : a.id = b.id => a = b
WorkedOnOnce == \A t, u \in Threads : Working(t) /\ Working(u) /\ slot[t] = slot[u] => t = u
FreeIsUnused ==
  \A i \in DOMAIN indexesQueue :
    /\ \A a \in announced : a.id # indexesQueue[i]
    /\ \A t \in Threads : Working(t) => slot[t] # indexesQueue[i]
AnnouncedIsUnused ==
  \A a \in announced, t \in Threads : Working(t) => slot[t] # a.id

NoSharing ==
  FreeOnce /\ AnnouncedOnce /\ WorkedOnOnce /\ FreeIsUnused /\ AnnouncedIsUnused

(* No slot is lost: it is free, announced, or worked on.                   *)
NoLeak ==
  \A i \in Slots :
    \/ \E k \in DOMAIN indexesQueue : indexesQueue[k] = i
    \/ \E a \in announced : a.id = i
    \/ \E t \in Threads : Working(t) /\ slot[t] = i

(* An announced message stays in its slot until it is popped, whatever the *)
(* other threads push, pop and grow meanwhile.                             *)
AnnouncedIsIntact ==
  /\ \A a \in announced : msgQueue[a.id + 1] = a.message
  /\ \A t \in Threads : pc[t] = "pop_load" => msgQueue[slot[t] + 1] = wanted[t]

(* A reader never obtains somebody else's message.                         *)
NeverAnotherMessage ==
  \A t \in Threads : pc[t] = "pop_free" => got[t] \in {wanted[t], Garbage}

(* Slots are reused: the vector never outgrows the largest number of       *)
(* messages that were outstanding at one time.                             *)
NoNeedlessGrowth == Len(msgQueue) + Cardinality(Growing) <= peak

(* "No need to lock msgQueueMutex as the id is unique and access to        *)
(* std::vector is thread safe in read only" (ControlMessageQueue.cpp:55):  *)
(* a pop reads the message that was pushed.  It does not hold, because a   *)
(* concurrent push_back is a write that moves the vector.                  *)
UnlockedReadIsSafe ==
  \A t \in Threads : pc[t] = "pop_free" => got[t] = wanted[t]
=============================================================================

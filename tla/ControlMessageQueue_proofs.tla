--------------------- MODULE ControlMessageQueue_proofs ---------------------
(***************************************************************************)
(* Proofs about ControlMessageQueue, for any finite set of threads and any *)
(* number of messages: a slot has one user, no slot is lost, and a message *)
(* stays in its slot until its reader takes it.                            *)
(***************************************************************************)
EXTENDS ControlMessageQueue, FiniteSetTheorems, SequenceTheorems, TLAPS

(* A thread inside push or pop has a message; past the store it has a      *)
(* slot, and only finitely many messages are ever announced.               *)
CallsAreSound ==
  /\ IsFiniteSet(announced)
  /\ \A t \in Threads :
       /\ pc[t] # "idle" => wanted[t] \in Message
       /\ pc[t] \in {"push_return", "pop_load", "pop_free"} => slot[t] >= 0

(* A push that has stored its message finds it in its slot.                *)
StoredIsIntact ==
  \A t \in Threads : pc[t] = "push_return" => msgQueue[slot[t] + 1] = wanted[t]

(* The inductive invariant. *)
IInv ==
  /\ TypeOK /\ CallsAreSound /\ NoSharing /\ NoLeak
  /\ StoredIsIntact /\ AnnouncedIsIntact /\ NeverAnotherMessage

LEMMA InitIInv == Init => IInv
<1> SUFFICES ASSUME Init PROVE IInv
  OBVIOUS
<1>1. Len(msgQueue) = 0 /\ Slots = {}
  BY DEF Init, Slots
<1>2. TypeOK
  BY <1>1 DEF Init, TypeOK, PushSteps, PopSteps, Message
<1>3. CallsAreSound /\ StoredIsIntact /\ AnnouncedIsIntact /\ NeverAnotherMessage
  BY FS_EmptySet
  DEF Init, CallsAreSound, StoredIsIntact, AnnouncedIsIntact, NeverAnotherMessage
<1>4. NoSharing
  BY DEF Init, NoSharing, FreeOnce, AnnouncedOnce, WorkedOnOnce, FreeIsUnused,
         AnnouncedIsUnused, Working
<1>5. NoLeak
  BY <1>1 DEF NoLeak
<1> QED
  BY <1>2, <1>3, <1>4, <1>5 DEF IInv

(* The number of messages under way is a number. *)
LEMMA OutstandingType ==
  ASSUME CallsAreSound
  PROVE  Outstanding \in Nat
<1>1. IsFiniteSet({t \in Threads : pc[t] # "idle"})
  BY ThreadsAssumption, FS_Subset
<1> QED
  BY <1>1, FS_CardinalityType DEF Outstanding, CallsAreSound

(* Each step keeps the types; slots of a vector that grows stay slots.     *)
LEMMA NextTypeOK ==
  ASSUME IInv, [Next]_vars
  PROVE  TypeOK' /\ CallsAreSound'
<1> USE ThreadsAssumption
    DEF IInv, TypeOK, CallsAreSound, PushSteps, PopSteps, Message, Garbage, vector
<1>0. Len(msgQueue) \in Nat
  BY LenProperties
<1>1. ASSUME NEW t \in Threads, PushGetIndex(t) PROVE TypeOK' /\ CallsAreSound'
  <2>1. peak' \in Nat
    BY <1>1, OutstandingType DEF PushGetIndex, BeginPush
  <2>2. /\ indexesQueue' \in Seq(Slots)
        /\ slot' \in [Threads -> Slots \cup {-1}]
    <3>1. CASE indexesQueue = <<>>
      BY <1>1, <3>1 DEF PushGetIndex
    <3>2. CASE indexesQueue # <<>>
      <4>1. Head(indexesQueue) \in Slots /\ Tail(indexesQueue) \in Seq(Slots)
        BY <3>2, HeadTailProperties
      <4> QED
        BY <1>1, <3>2, <4>1 DEF PushGetIndex
    <3> QED
      BY <3>1, <3>2
  <2>3. Slots' = Slots
    BY <1>1 DEF PushGetIndex, BeginPush, Slots
  <2> QED
    BY <1>1, <2>1, <2>2, <2>3 DEF PushGetIndex, BeginPush
<1>2. ASSUME NEW t \in Threads, PushLock(t) PROVE TypeOK' /\ CallsAreSound'
  BY <1>2 DEF PushLock, Slots
<1>3. ASSUME NEW t \in Threads, PushInFreeSlot(t) PROVE TypeOK' /\ CallsAreSound'
  <2>0. slot[t] \in Slots
    BY <1>3 DEF PushInFreeSlot
  <2>1. slot[t] + 1 \in 1..Len(msgQueue)
    BY <2>0, <1>0 DEF Slots
  <2>2. msgQueue' \in Seq(Message) /\ Len(msgQueue') = Len(msgQueue)
    BY <1>3, <2>1, ExceptSeq DEF PushInFreeSlot
  <2> QED
    BY <1>3, <2>2 DEF PushInFreeSlot, Slots
<1>4. ASSUME NEW t \in Threads, PushBack(t) PROVE TypeOK' /\ CallsAreSound'
  <2>1. msgQueue' \in Seq(Message) /\ Len(msgQueue') = Len(msgQueue) + 1
    BY <1>4, AppendProperties DEF PushBack
  <2>2. Slots \subseteq Slots' /\ Len(msgQueue) \in Slots'
    BY <2>1, <1>0 DEF Slots
  <2>3. indexesQueue' \in Seq(Slots')
    BY <1>4, <2>2, SeqDef DEF PushBack
  <2>4. announced' \subseteq [id : Slots', message : Message]
    BY <1>4, <2>2 DEF PushBack
  <2>5. capacity' \in Nat /\ buffer' \in Nat /\ Len(msgQueue') <= capacity'
    BY <1>4, <2>1, <1>0 DEF PushBack
  <2>6. slot' \in [Threads -> Slots' \cup {-1}] /\ slot'[t] >= 0
    BY <1>4, <2>2, <1>0 DEF PushBack
  <2> QED
    BY <1>4, <2>1, <2>3, <2>4, <2>5, <2>6 DEF PushBack
<1>5. ASSUME NEW t \in Threads, PushReturn(t) PROVE TypeOK' /\ CallsAreSound'
  <2>1. [id |-> slot[t], message |-> wanted[t]] \in [id : Slots, message : Message]
    BY <1>5 DEF PushReturn, Slots
  <2>2. announced' \subseteq [id : Slots, message : Message] /\ IsFiniteSet(announced')
    BY <1>5, <2>1, FS_AddElement DEF PushReturn
  <2> QED
    BY <1>5, <2>2 DEF PushReturn, EndCall, Slots
<1>6. ASSUME NEW t \in Threads, PopLoadBuffer(t) PROVE TypeOK' /\ CallsAreSound'
  <2>1. announced' \subseteq announced /\ IsFiniteSet(announced')
    BY <1>6, FS_Subset DEF PopLoadBuffer
  <2>2. /\ slot' \in [Threads -> Slots \cup {-1}] /\ slot'[t] >= 0
        /\ wanted' \in [Threads -> Message \cup {Garbage}] /\ wanted'[t] \in Message
    BY <1>6, <1>0 DEF PopLoadBuffer, Slots
  <2>3. announced' \subseteq [id : Slots, message : Message]
    BY <2>1
  <2>4. \A u \in Threads \ {t} : slot'[u] = slot[u] /\ wanted'[u] = wanted[u] /\ pc'[u] = pc[u]
    BY <1>6 DEF PopLoadBuffer
  <2>5. CallsAreSound'
    BY <1>6, <2>1, <2>2, <2>4
  <2>6. Slots' = Slots
    BY <1>6 DEF PopLoadBuffer, Slots
  <2> QED
    BY <1>6, <2>1, <2>2, <2>3, <2>5, <2>6 DEF PopLoadBuffer
<1>7. ASSUME NEW t \in Threads, PopLoadSlot(t) PROVE TypeOK' /\ CallsAreSound'
  <2>0. slot[t] \in Slots
    BY <1>7 DEF PopLoadSlot
  <2>1. slot[t] + 1 \in 1..Len(msgQueue)
    BY <2>0, <1>0 DEF Slots
  <2>2. msgQueue[slot[t] + 1] \in Message
    BY <2>1, ElementOfSeq
  <2> QED
    BY <1>7, <2>2 DEF PopLoadSlot, Slots
<1>8. ASSUME NEW t \in Threads, PopFree(t) PROVE TypeOK' /\ CallsAreSound'
  <2>1. slot[t] \in Slots
    BY <1>8, <1>0 DEF PopFree, Slots
  <2>2. indexesQueue' \in Seq(Slots)
    BY <1>8, <2>1, AppendProperties DEF PopFree
  <2> QED
    BY <1>8, <2>2 DEF PopFree, EndCall, Slots
<1>9. CASE UNCHANGED vars
  BY <1>9 DEF vars, Slots
<1> QED
  BY <1>1, <1>2, <1>3, <1>4, <1>5, <1>6, <1>7, <1>8, <1>9 DEF Next, Push, Pop

(* Taking the first free index: the others keep their order.               *)
LEMMA TakeFirstIndex ==
  ASSUME TypeOK, indexesQueue # <<>>, indexesQueue' = Tail(indexesQueue)
  PROVE  /\ Len(indexesQueue) \in Nat \ {0} /\ Len(indexesQueue') = Len(indexesQueue) - 1
         /\ Head(indexesQueue) = indexesQueue[1] /\ Head(indexesQueue) \in Slots
         /\ \A i \in 1..Len(indexesQueue') : indexesQueue'[i] = indexesQueue[i + 1]
         /\ DOMAIN indexesQueue = 1..Len(indexesQueue)
         /\ DOMAIN indexesQueue' = 1..Len(indexesQueue')
<1>1. indexesQueue \in Seq(Slots)
  BY DEF TypeOK
<1>2. Len(indexesQueue) \in Nat \ {0}
  BY <1>1, EmptySeq, LenProperties
<1>3. indexesQueue' \in Seq(Slots)
  BY <1>1, HeadTailProperties
<1> QED
  BY <1>1, <1>2, <1>3, HeadTailProperties, LenProperties

(* Giving back an index: it becomes the last one.                          *)
LEMMA GiveBackIndex ==
  ASSUME TypeOK, NEW id \in Slots, indexesQueue' = Append(indexesQueue, id)
  PROVE  /\ Len(indexesQueue) \in Nat /\ Len(indexesQueue') = Len(indexesQueue) + 1
         /\ indexesQueue'[Len(indexesQueue) + 1] = id
         /\ \A i \in 1..Len(indexesQueue) : indexesQueue'[i] = indexesQueue[i]
         /\ DOMAIN indexesQueue = 1..Len(indexesQueue)
         /\ DOMAIN indexesQueue' = 1..Len(indexesQueue')
<1>1. indexesQueue \in Seq(Slots)
  BY DEF TypeOK
<1>2. indexesQueue' \in Seq(Slots)
  BY <1>1, AppendProperties
<1> QED
  BY <1>1, <1>2, AppendProperties, LenProperties

(* Each step passes a slot on to one user: the queue of free indexes hands *)
(* it to a push, the push to the announced message, and so on in a circle. *)
LEMMA NextNoSharing ==
  ASSUME IInv, [Next]_vars
  PROVE  NoSharing'
<1> USE DEF IInv, NoSharing, FreeOnce, AnnouncedOnce, WorkedOnOnce, FreeIsUnused,
            AnnouncedIsUnused, Working, vector
<1>0. /\ Len(msgQueue) \in Nat
      /\ \A t \in Threads : slot[t] \in Slots \cup {-1}
      /\ \A i \in DOMAIN indexesQueue : indexesQueue[i] \in Slots
      /\ \A a \in announced : a.id \in Slots
      /\ pc \in [Threads -> {"idle"} \cup PushSteps \cup PopSteps]
      /\ slot \in [Threads -> Slots \cup {-1}]
  BY LenProperties, ElementOfSeq DEF TypeOK
<1>1. ASSUME NEW t \in Threads, PushGetIndex(t) PROVE NoSharing'
  <2>1. CASE indexesQueue = <<>>
    BY <1>0, <1>1, <2>1 DEF PushGetIndex, BeginPush
  <2>2. CASE indexesQueue # <<>>
    <3>1. /\ indexesQueue' = Tail(indexesQueue) /\ pc[t] = "idle" /\ announced' = announced
          /\ slot' = [slot EXCEPT ![t] = Head(indexesQueue)]
          /\ pc' = [pc EXCEPT ![t] = "push_lock"]
      BY <1>1, <2>2 DEF PushGetIndex, BeginPush
    <3>2. /\ Len(indexesQueue) \in Nat \ {0} /\ Len(indexesQueue') = Len(indexesQueue) - 1
          /\ Head(indexesQueue) = indexesQueue[1]
          /\ \A i \in 1..Len(indexesQueue') : indexesQueue'[i] = indexesQueue[i + 1]
          /\ DOMAIN indexesQueue = 1..Len(indexesQueue)
          /\ DOMAIN indexesQueue' = 1..Len(indexesQueue')
      BY <2>2, <3>1, TakeFirstIndex
    <3>3. FreeOnce'
      BY <3>2
    <3>4. AnnouncedOnce'
      BY <3>1
    <3>5. slot'[t] = indexesQueue[1] /\ 1 \in DOMAIN indexesQueue
      BY <1>0, <3>1, <3>2
    <3>6. \A u \in Threads \ {t} : slot'[u] = slot[u] /\ pc'[u] = pc[u]
      BY <1>0, <3>1
    <3>7. WorkedOnOnce' /\ AnnouncedIsUnused'
      BY <3>1, <3>5, <3>6
    <3>8. FreeIsUnused'
      <4>1. \A i \in DOMAIN indexesQueue' : /\ i + 1 \in DOMAIN indexesQueue
                                            /\ indexesQueue'[i] = indexesQueue[i + 1]
                                            /\ i + 1 # 1
        BY <3>2
      <4> QED
        BY <3>1, <3>5, <3>6, <4>1
    <3> QED
      BY <3>3, <3>4, <3>7, <3>8
  <2> QED
    BY <2>1, <2>2
<1>2. ASSUME NEW t \in Threads, PushLock(t) PROVE NoSharing'
  BY <1>0, <1>2 DEF PushLock
<1>3. ASSUME NEW t \in Threads, PushInFreeSlot(t) PROVE NoSharing'
  BY <1>0, <1>3 DEF PushInFreeSlot
<1>4. ASSUME NEW t \in Threads, PushBack(t) PROVE NoSharing'
  <2>1. Len(msgQueue) \notin Slots
    BY <1>0 DEF Slots
  <2> QED
    BY <1>0, <1>4, <2>1 DEF PushBack
<1>5. ASSUME NEW t \in Threads, PushReturn(t) PROVE NoSharing'
  <2>1. Working(t)
    BY <1>5 DEF PushReturn, CallsAreSound
  <2> QED
    BY <1>0, <1>5, <2>1 DEF PushReturn, EndCall
<1>6. ASSUME NEW t \in Threads, PopLoadBuffer(t) PROVE NoSharing'
  <2>1. PICK a \in announced : /\ announced' = announced \ {a}
                               /\ slot' = [slot EXCEPT ![t] = a.id]
    BY <1>6 DEF PopLoadBuffer
  <2> QED
    BY <1>0, <1>6, <2>1 DEF PopLoadBuffer
<1>7. ASSUME NEW t \in Threads, PopLoadSlot(t) PROVE NoSharing'
  BY <1>0, <1>7 DEF PopLoadSlot
<1>8. ASSUME NEW t \in Threads, PopFree(t) PROVE NoSharing'
  <2>1. Working(t) /\ slot[t] \in Slots
    BY <1>0, <1>8 DEF PopFree, CallsAreSound
  <2>2. /\ indexesQueue' = Append(indexesQueue, slot[t]) /\ announced' = announced
        /\ pc' = [pc EXCEPT ![t] = "idle"] /\ slot' = [slot EXCEPT ![t] = -1]
    BY <1>8 DEF PopFree, EndCall
  <2>3. /\ Len(indexesQueue) \in Nat /\ Len(indexesQueue') = Len(indexesQueue) + 1
        /\ indexesQueue'[Len(indexesQueue) + 1] = slot[t]
        /\ \A i \in 1..Len(indexesQueue) : indexesQueue'[i] = indexesQueue[i]
        /\ DOMAIN indexesQueue = 1..Len(indexesQueue)
        /\ DOMAIN indexesQueue' = 1..Len(indexesQueue')
    BY <2>1, <2>2, GiveBackIndex
  <2>4. \A i \in DOMAIN indexesQueue' :
          \/ i \in DOMAIN indexesQueue /\ indexesQueue'[i] = indexesQueue[i]
          \/ i = Len(indexesQueue) + 1 /\ indexesQueue'[i] = slot[t]
    BY <2>3
  <2>5. FreeOnce'
    BY <2>1, <2>4
  <2>6. \A u \in Threads \ {t} : slot'[u] = slot[u] /\ pc'[u] = pc[u]
    BY <1>0, <2>2
  <2>7. pc'[t] = "idle"
    BY <1>0, <2>2
  <2> QED
    BY <2>1, <2>2, <2>4, <2>5, <2>6, <2>7
<1>9. CASE UNCHANGED vars
  BY <1>9 DEF vars
<1> QED
  BY <1>1, <1>2, <1>3, <1>4, <1>5, <1>6, <1>7, <1>8, <1>9 DEF Next, Push, Pop

(* No step drops a slot: it keeps its user or passes on to the next one.   *)
LEMMA NextNoLeak ==
  ASSUME IInv, [Next]_vars
  PROVE  NoLeak'
<1> USE DEF IInv, NoLeak, Working, vector
<1>0. /\ Len(msgQueue) \in Nat
      /\ pc \in [Threads -> {"idle"} \cup PushSteps \cup PopSteps]
      /\ slot \in [Threads -> Slots \cup {-1}]
      /\ \A u \in Threads : slot[u] \in Slots \cup {-1}
      /\ \A i \in Slots : i >= 0
  BY LenProperties DEF TypeOK, Slots
<1>1. ASSUME NEW t \in Threads, PushGetIndex(t) PROVE NoLeak'
  <2>1. CASE indexesQueue = <<>>
    BY <1>0, <1>1, <2>1 DEF PushGetIndex, BeginPush, Slots
  <2>2. CASE indexesQueue # <<>>
    <3>1. /\ indexesQueue' = Tail(indexesQueue) /\ pc[t] = "idle" /\ announced' = announced
          /\ slot' = [slot EXCEPT ![t] = Head(indexesQueue)]
          /\ pc' = [pc EXCEPT ![t] = "push_lock"] /\ Slots' = Slots
      BY <1>1, <2>2 DEF PushGetIndex, BeginPush, Slots
    <3>2. /\ Len(indexesQueue) \in Nat \ {0} /\ Len(indexesQueue') = Len(indexesQueue) - 1
          /\ Head(indexesQueue) = indexesQueue[1] /\ Head(indexesQueue) \in Slots
          /\ \A i \in 1..Len(indexesQueue') : indexesQueue'[i] = indexesQueue[i + 1]
          /\ DOMAIN indexesQueue = 1..Len(indexesQueue)
          /\ DOMAIN indexesQueue' = 1..Len(indexesQueue')
      BY <2>2, <3>1, TakeFirstIndex
    <3>3. \A k \in DOMAIN indexesQueue \ {1} :
             k - 1 \in DOMAIN indexesQueue' /\ indexesQueue'[k - 1] = indexesQueue[k]
      BY <3>2
    <3>4. slot'[t] = indexesQueue[1] /\ pc'[t] = "push_lock" /\ slot'[t] >= 0
      BY <1>0, <3>1, <3>2
    <3>5. \A u \in Threads \ {t} : slot'[u] = slot[u] /\ pc'[u] = pc[u]
      BY <1>0, <3>1
    <3> SUFFICES ASSUME NEW i \in Slots
                 PROVE  \/ \E k \in DOMAIN indexesQueue' : indexesQueue'[k] = i
                        \/ \E a \in announced : a.id = i
                        \/ \E u \in Threads : Working(u)' /\ slot'[u] = i
      BY <3>1
    <3>6. CASE indexesQueue[1] = i
      BY <3>4, <3>6
    <3>7. CASE \E k \in DOMAIN indexesQueue \ {1} : indexesQueue[k] = i
      BY <3>3, <3>7
    <3>8. CASE \E u \in Threads : Working(u) /\ slot[u] = i
      BY <3>1, <3>5, <3>8
    <3> QED
      BY <3>6, <3>7, <3>8
  <2> QED
    BY <2>1, <2>2
<1>2. ASSUME NEW t \in Threads, PushLock(t) PROVE NoLeak'
  BY <1>0, <1>2 DEF PushLock, Slots
<1>3. ASSUME NEW t \in Threads, PushInFreeSlot(t) PROVE NoLeak'
  <2>0. slot[t] \in Slots
    BY <1>0, <1>3 DEF PushInFreeSlot
  <2>1. Len(msgQueue') = Len(msgQueue)
    BY <1>0, <1>3, <2>0, ExceptSeq DEF PushInFreeSlot, TypeOK, Slots
  <2>2. Slots' = Slots
    BY <2>1 DEF Slots
  <2> QED
    BY <1>0, <1>3, <2>2 DEF PushInFreeSlot
<1>4. ASSUME NEW t \in Threads, PushBack(t) PROVE NoLeak'
  <2>1. Len(msgQueue') = Len(msgQueue) + 1
    BY <1>4, AppendProperties DEF PushBack, TypeOK, CallsAreSound
  <2>2. Slots' = Slots \cup {Len(msgQueue)}
    BY <1>0, <2>1 DEF Slots
  <2>3. slot'[t] = Len(msgQueue) /\ pc'[t] = "push_return"
    BY <1>0, <1>4 DEF PushBack
  <2>4. \A u \in Threads \ {t} : slot'[u] = slot[u] /\ pc'[u] = pc[u]
    BY <1>0, <1>4 DEF PushBack
  <2>5. ~Working(t) /\ Len(msgQueue) >= 0 /\ UNCHANGED <<indexesQueue, announced>>
    BY <1>0, <1>4 DEF PushBack, Slots
  <2>6. Working(t)' /\ \A u \in Threads \ {t} : Working(u)' = Working(u)
    BY <2>3, <2>4, <2>5
  <2> SUFFICES ASSUME NEW i \in Slots'
               PROVE  \/ \E k \in DOMAIN indexesQueue' : indexesQueue'[k] = i
                      \/ \E a \in announced' : a.id = i
                      \/ \E u \in Threads : Working(u)' /\ slot'[u] = i
    BY DEF NoLeak
  <2>7. CASE i = Len(msgQueue)
    BY <2>3, <2>6, <2>7
  <2>8. CASE \E u \in Threads : Working(u) /\ slot[u] = i
    BY <2>4, <2>5, <2>6, <2>8
  <2>9. CASE \/ \E k \in DOMAIN indexesQueue : indexesQueue[k] = i
            \/ \E a \in announced : a.id = i
    BY <2>5, <2>9
  <2> QED
    BY <2>2, <2>7, <2>8, <2>9
<1>5. ASSUME NEW t \in Threads, PushReturn(t) PROVE NoLeak'
  <2>1. Slots' = Slots
    BY <1>5 DEF PushReturn, Slots
  <2>2. \A u \in Threads \ {t} : slot'[u] = slot[u] /\ pc'[u] = pc[u]
    BY <1>0, <1>5 DEF PushReturn, EndCall
  <2>3. /\ UNCHANGED indexesQueue
        /\ announced' = announced \cup {[id |-> slot[t], message |-> wanted[t]]}
    BY <1>5 DEF PushReturn
  <2>4. /\ announced \subseteq announced'
        /\ \E a \in announced' : a.id = slot[t]
    <3> DEFINE b == [id |-> slot[t], message |-> wanted[t]]
    <3>1. b.id = slot[t]
      OBVIOUS
    <3> HIDE DEF b
    <3> QED
      BY <2>3, <3>1 DEF b
  <2>5. \A u \in Threads \ {t} : Working(u) => Working(u)'
    BY <2>2
  <2> SUFFICES ASSUME NEW i \in Slots'
               PROVE  \/ \E k \in DOMAIN indexesQueue' : indexesQueue'[k] = i
                      \/ \E a \in announced' : a.id = i
                      \/ \E u \in Threads : Working(u)' /\ slot'[u] = i
    BY DEF NoLeak
  <2>6. CASE slot[t] = i
    BY <2>4, <2>6
  <2>7. CASE \E u \in Threads \ {t} : Working(u) /\ slot[u] = i
    BY <2>2, <2>5, <2>7
  <2>8. CASE \/ \E k \in DOMAIN indexesQueue : indexesQueue[k] = i
            \/ \E a \in announced : a.id = i
    BY <2>3, <2>4, <2>8
  <2> QED
    BY <2>1, <2>6, <2>7, <2>8
<1>6. ASSUME NEW t \in Threads, PopLoadBuffer(t) PROVE NoLeak'
  <2>1. PICK a \in announced : /\ announced' = announced \ {a}
                               /\ slot' = [slot EXCEPT ![t] = a.id]
    BY <1>6 DEF PopLoadBuffer
  <2>2. a.id \in Slots
    BY <2>1 DEF TypeOK
  <2>3. slot'[t] = a.id /\ pc'[t] = "pop_load" /\ Slots' = Slots
    BY <1>0, <1>6, <2>1 DEF PopLoadBuffer, Slots
  <2>4. \A u \in Threads \ {t} : slot'[u] = slot[u] /\ pc'[u] = pc[u]
    BY <1>0, <1>6 DEF PopLoadBuffer
  <2> QED
    BY <1>0, <1>6, <2>1, <2>2, <2>3, <2>4 DEF PopLoadBuffer
<1>7. ASSUME NEW t \in Threads, PopLoadSlot(t) PROVE NoLeak'
  BY <1>0, <1>7 DEF PopLoadSlot, Slots
<1>8. ASSUME NEW t \in Threads, PopFree(t) PROVE NoLeak'
  <2>1. slot[t] \in Slots
    BY <1>0, <1>8 DEF PopFree, CallsAreSound
  <2>2. /\ Len(indexesQueue) \in Nat /\ Len(indexesQueue') = Len(indexesQueue) + 1
        /\ indexesQueue'[Len(indexesQueue) + 1] = slot[t]
        /\ \A i \in 1..Len(indexesQueue) : indexesQueue'[i] = indexesQueue[i]
        /\ DOMAIN indexesQueue = 1..Len(indexesQueue)
        /\ DOMAIN indexesQueue' = 1..Len(indexesQueue')
    BY <1>8, <2>1, GiveBackIndex DEF PopFree
  <2>3. /\ \A k \in DOMAIN indexesQueue : k \in DOMAIN indexesQueue' /\ indexesQueue'[k] = indexesQueue[k]
        /\ Len(indexesQueue) + 1 \in DOMAIN indexesQueue'
    BY <2>2
  <2>4. Slots' = Slots /\ announced' = announced
    BY <1>8 DEF PopFree, Slots
  <2>5. \A u \in Threads \ {t} : slot'[u] = slot[u] /\ pc'[u] = pc[u]
    BY <1>0, <1>8 DEF PopFree, EndCall
  <2> QED
    BY <2>2, <2>3, <2>4, <2>5
<1>9. CASE UNCHANGED vars
  BY <1>9 DEF vars, Slots
<1> QED
  BY <1>1, <1>2, <1>3, <1>4, <1>5, <1>6, <1>7, <1>8, <1>9 DEF Next, Push, Pop

(* Only the user of a slot writes it, so a message stays where it is from  *)
(* the end of its push to the read of its pop.                             *)
LEMMA NextIntact ==
  ASSUME IInv, [Next]_vars
  PROVE  StoredIsIntact' /\ AnnouncedIsIntact' /\ NeverAnotherMessage'
<1> DEFINE Goal == StoredIsIntact /\ AnnouncedIsIntact /\ NeverAnotherMessage
<1> USE DEF IInv, StoredIsIntact, AnnouncedIsIntact, NeverAnotherMessage, vector, PushSteps, PopSteps
<1>0. /\ Len(msgQueue) \in Nat /\ DOMAIN msgQueue = 1..Len(msgQueue)
      /\ pc \in [Threads -> {"idle"} \cup PushSteps \cup PopSteps]
      /\ slot \in [Threads -> Slots \cup {-1}]
      /\ wanted \in [Threads -> Message \cup {Garbage}]
      /\ got \in [Threads -> Message \cup {Garbage}]
      /\ \A u \in Threads : pc[u] \in {"push_return", "pop_load", "pop_free"} =>
           slot[u] \in Slots /\ Working(u)
      /\ \A a \in announced : a.id \in Slots
      /\ \A i \in Slots : i \in Nat /\ i + 1 \in 1..Len(msgQueue)
  BY LenProperties DEF TypeOK, CallsAreSound, Slots, Working
<1>1. ASSUME NEW t \in Threads, PushGetIndex(t) PROVE Goal'
  <2>1. \A u \in Threads \ {t} : slot'[u] = slot[u] /\ pc'[u] = pc[u] /\ wanted'[u] = wanted[u]
    BY <1>0, <1>1 DEF PushGetIndex, BeginPush
  <2>2. pc'[t] = "push_lock" /\ UNCHANGED <<msgQueue, announced, got>>
    BY <1>0, <1>1 DEF PushGetIndex, BeginPush
  <2> QED
    BY <2>1, <2>2
<1>2. ASSUME NEW t \in Threads, PushLock(t) PROVE Goal'
  BY <1>0, <1>2 DEF PushLock
<1>3. ASSUME NEW t \in Threads, PushInFreeSlot(t) PROVE Goal'
  <2>1. slot[t] \in Slots /\ Working(t)
    BY <1>0, <1>3 DEF PushInFreeSlot, Working
  <2>2. /\ msgQueue'[slot[t] + 1] = wanted[t]
        /\ \A i \in Slots \ {slot[t]} : msgQueue'[i + 1] = msgQueue[i + 1]
    BY <1>0, <1>3, <2>1 DEF PushInFreeSlot
  <2>3. \A a \in announced : a.id # slot[t]
    BY <2>1 DEF NoSharing, AnnouncedIsUnused
  <2>4. \A u \in Threads \ {t} : Working(u) => slot[u] # slot[t]
    BY <2>1 DEF NoSharing, WorkedOnOnce
  <2>5. /\ UNCHANGED <<slot, announced, wanted, got>>
        /\ pc'[t] = "push_return" /\ \A u \in Threads \ {t} : pc'[u] = pc[u]
    BY <1>0, <1>3 DEF PushInFreeSlot
  <2>6. AnnouncedIsIntact'
    BY <1>0, <2>2, <2>3, <2>4, <2>5
  <2>7. StoredIsIntact'
    BY <1>0, <2>2, <2>4, <2>5
  <2>8. NeverAnotherMessage'
    BY <2>5
  <2> QED
    BY <2>6, <2>7, <2>8
<1>4. ASSUME NEW t \in Threads, PushBack(t) PROVE Goal'
  <2>1. wanted[t] \in Message /\ msgQueue \in Seq(Message)
    BY <1>4 DEF PushBack, TypeOK, CallsAreSound
  <2>2. /\ \A i \in Slots : msgQueue'[i + 1] = msgQueue[i + 1]
        /\ msgQueue'[Len(msgQueue) + 1] = wanted[t]
    BY <1>0, <1>4, <2>1, AppendProperties DEF PushBack
  <2>3. /\ UNCHANGED <<announced, wanted, got>>
        /\ slot'[t] = Len(msgQueue) /\ pc'[t] = "push_return"
        /\ \A u \in Threads \ {t} : slot'[u] = slot[u] /\ pc'[u] = pc[u]
    BY <1>0, <1>4 DEF PushBack
  <2> QED
    BY <1>0, <2>2, <2>3
<1>5. ASSUME NEW t \in Threads, PushReturn(t) PROVE Goal'
  <2>1. /\ announced' = announced \cup {[id |-> slot[t], message |-> wanted[t]]}
        /\ msgQueue[slot[t] + 1] = wanted[t] /\ msgQueue' = msgQueue
    BY <1>5 DEF PushReturn
  <2>2. /\ pc'[t] = "idle"
        /\ \A u \in Threads \ {t} : /\ slot'[u] = slot[u] /\ pc'[u] = pc[u]
                                    /\ wanted'[u] = wanted[u] /\ got'[u] = got[u]
    BY <1>0, <1>5 DEF PushReturn, EndCall
  <2> QED
    BY <2>1, <2>2
<1>6. ASSUME NEW t \in Threads, PopLoadBuffer(t) PROVE Goal'
  <2>1. PICK a \in announced : /\ announced' = announced \ {a}
                               /\ slot' = [slot EXCEPT ![t] = a.id]
                               /\ wanted' = [wanted EXCEPT ![t] = a.message]
    BY <1>6 DEF PopLoadBuffer
  <2>2. /\ pc'[t] = "pop_load" /\ slot'[t] = a.id /\ wanted'[t] = a.message
        /\ UNCHANGED <<msgQueue, got>>
        /\ \A u \in Threads \ {t} : slot'[u] = slot[u] /\ pc'[u] = pc[u] /\ wanted'[u] = wanted[u]
    BY <1>0, <1>6, <2>1 DEF PopLoadBuffer
  <2> QED
    BY <2>1, <2>2
<1>7. ASSUME NEW t \in Threads, PopLoadSlot(t) PROVE Goal'
  <2>1. msgQueue[slot[t] + 1] = wanted[t]
    BY <1>7 DEF PopLoadSlot
  <2>2. /\ got'[t] \in {wanted[t], Garbage} /\ pc'[t] = "pop_free"
        /\ UNCHANGED <<msgQueue, announced, slot, wanted>>
        /\ \A u \in Threads \ {t} : pc'[u] = pc[u] /\ got'[u] = got[u]
    BY <1>0, <1>7, <2>1 DEF PopLoadSlot
  <2> QED
    BY <2>2
<1>8. ASSUME NEW t \in Threads, PopFree(t) PROVE Goal'
  <2>1. /\ pc'[t] = "idle" /\ UNCHANGED <<msgQueue, announced>>
        /\ \A u \in Threads \ {t} : /\ slot'[u] = slot[u] /\ pc'[u] = pc[u]
                                    /\ wanted'[u] = wanted[u] /\ got'[u] = got[u]
    BY <1>0, <1>8 DEF PopFree, EndCall
  <2> QED
    BY <2>1
<1>9. CASE UNCHANGED vars
  BY <1>9 DEF vars
<1> QED
  BY <1>1, <1>2, <1>3, <1>4, <1>5, <1>6, <1>7, <1>8, <1>9 DEF Next, Push, Pop

-----------------------------------------------------------------------------
LEMMA Invariance == Spec => []IInv
<1>1. IInv /\ [Next]_vars => IInv'
  BY NextTypeOK, NextNoSharing, NextNoLeak, NextIntact DEF IInv
<1> QED
  BY <1>1, InitIInv, PTL DEF Spec

(* The state of the queue and of its callers is always well typed: an      *)
(* announced index is an index of the vector.                              *)
THEOREM TypeCorrect == Spec => []TypeOK
  BY Invariance, PTL DEF IInv

(* No slot of the vector ever has two users (push, pop).                   *)
THEOREM SlotsAreNotShared == Spec => []NoSharing
  BY Invariance, PTL DEF IInv

(* No slot of the vector is ever lost (setNextFreeIndex).                  *)
THEOREM SlotsAreNotLost == Spec => []NoLeak
  BY Invariance, PTL DEF IInv

(* A message stays in its slot until its reader takes it.                  *)
THEOREM MessagesStayIntact == Spec => []AnnouncedIsIntact
  BY Invariance, PTL DEF IInv

(* A reader gets its own message, or what a freed buffer holds, and never  *)
(* the message of another push.                                            *)
THEOREM NoMessageIsMistaken == Spec => []NeverAnotherMessage
  BY Invariance, PTL DEF IInv
-----------------------------------------------------------------------------
(* The size of the vector.                                                 *)

(* What a function gives on a finite set is not larger than the set.       *)
LEMMA ImageIsSmaller ==
  ASSUME NEW S, IsFiniteSet(S), NEW f
  PROVE  /\ IsFiniteSet({f[x] : x \in S})
         /\ Cardinality({f[x] : x \in S}) <= Cardinality(S)
<1> DEFINE T == {f[x] : x \in S}
           g == [x \in S |-> f[x]]
<1>1. g \in Surjection(S, T)
  BY DEF Surjection
<1> QED
  BY <1>1, FS_Surjection

(* If no slot is free, every slot belongs to a message under way: the      *)
(* vector and the pushes that will grow it are not more than these.        *)
LEMMA FullVectorIsNeeded ==
  ASSUME IInv, indexesQueue = <<>>
  PROVE  Len(msgQueue) + Cardinality(Growing) <= Outstanding
<1> DEFINE Inside == {t \in Threads : pc[t] # "idle"}
           Workers == {t \in Threads : Working(t)}
           ids == {a.id : a \in announced}
           works == {slot[t] : t \in Workers}
<1>1. /\ IsFiniteSet(announced) /\ IsFiniteSet(Inside)
      /\ IsFiniteSet(Workers) /\ IsFiniteSet(Growing)
  BY ThreadsAssumption, FS_Subset DEF IInv, CallsAreSound, Growing
<1>2. IsFiniteSet(ids) /\ Cardinality(ids) <= Cardinality(announced)
  <2> DEFINE f == [a \in announced |-> a.id]
  <2>1. ids = {f[a] : a \in announced}
    OBVIOUS
  <2> HIDE DEF f, ids
  <2> QED
    BY <1>1, <2>1, ImageIsSmaller
<1>3. IsFiniteSet(works) /\ Cardinality(works) <= Cardinality(Workers)
  BY <1>1, ImageIsSmaller
<1>4. Len(msgQueue) \in Nat /\ IsFiniteSet(Slots) /\ Cardinality(Slots) = Len(msgQueue)
  <2>1. Len(msgQueue) \in Nat
    BY LenProperties DEF IInv, TypeOK
  <2>2. /\ IsFiniteSet(0 .. Len(msgQueue) - 1)
        /\ Cardinality(0 .. Len(msgQueue) - 1)
             = IF 0 > Len(msgQueue) - 1 THEN 0 ELSE Len(msgQueue) - 1 - 0 + 1
    <3> DEFINE last == Len(msgQueue) - 1
    <3>1. last \in Int /\ 0 \in Int
      BY <2>1
    <3> HIDE DEF last
    <3>2. /\ IsFiniteSet(0 .. last)
          /\ Cardinality(0 .. last) = IF 0 > last THEN 0 ELSE last - 0 + 1
      BY <3>1, FS_Interval
    <3> QED
      BY <3>2 DEF last
  <2>3. Cardinality(Slots) = Len(msgQueue)
    BY <2>1, <2>2 DEF Slots
  <2> QED
    BY <2>1, <2>2, <2>3 DEF Slots
<1>5. Slots \subseteq ids \cup works
  BY DEF IInv, NoLeak
<1>6. Cardinality(Slots) <= Cardinality(announced) + Cardinality(Workers)
  <2> HIDE DEF ids, works, Workers
  <2>1. IsFiniteSet(ids \cup works) /\ IsFiniteSet(ids \cap works)
    BY <1>2, <1>3, FS_Union, FS_Intersection
  <2>4. Cardinality(Slots) <= Cardinality(ids \cup works)
    BY <1>5, <2>1, FS_Subset
  <2>5. Cardinality(ids \cup works) = Cardinality(ids) + Cardinality(works) - Cardinality(ids \cap works)
    BY <1>2, <1>3, FS_Union
  <2>2. Cardinality(ids \cap works) \in Nat
    BY <2>1, FS_CardinalityType
  <2>3. /\ Cardinality(ids) \in Nat /\ Cardinality(works) \in Nat
        /\ Cardinality(announced) \in Nat /\ Cardinality(Workers) \in Nat
        /\ Cardinality(ids \cup works) \in Nat
    BY <1>1, <1>2, <1>3, <2>1, FS_CardinalityType
  <2> QED
    BY <1>2, <1>3, <1>4, <2>4, <2>2, <2>3, <2>5
<1>7. Cardinality(Workers) + Cardinality(Growing) = Cardinality(Inside)
  <2>0. \A t \in Threads : slot[t] \in Int
    <3>1. Slots \cup {-1} \subseteq Int
      BY <1>4 DEF Slots
    <3> QED
      BY <3>1 DEF IInv, TypeOK
  <2>1. Workers \cap Growing = {}
    <3> SUFFICES ASSUME NEW t \in Threads, Working(t), slot[t] < 0 PROVE FALSE
      BY DEF Growing
    <3> QED
      BY <2>0 DEF Working
  <2>2. Workers \cup Growing = Inside
    BY DEF Working, Growing, IInv, TypeOK, CallsAreSound, PushSteps, PopSteps, Slots
  <2>3. Cardinality(Workers \cup Growing) = Cardinality(Workers) + Cardinality(Growing)
    <3> HIDE DEF Workers
    <3>1. Cardinality(Workers \cup Growing)
            = Cardinality(Workers) + Cardinality(Growing) - Cardinality(Workers \cap Growing)
      BY <1>1, FS_Union
    <3>2. Cardinality(Workers \cap Growing) = 0
      BY <2>1, FS_EmptySet
    <3>3. Cardinality(Workers) \in Nat /\ Cardinality(Growing) \in Nat
      BY <1>1, FS_CardinalityType
    <3> QED
      BY <3>1, <3>2, <3>3
  <2> QED
    BY <2>2, <2>3
<1>8. /\ Cardinality(announced) \in Nat /\ Cardinality(Workers) \in Nat
      /\ Cardinality(Growing) \in Nat
  BY <1>1, FS_CardinalityType
<1> QED
  BY <1>4, <1>6, <1>7, <1>8 DEF Outstanding

(* Only a push that finds no free slot joins the ones that grow.           *)
LEMMA NextNoNeedlessGrowth ==
  ASSUME IInv, NoNeedlessGrowth, [Next]_vars
  PROVE  NoNeedlessGrowth'
<1> USE DEF IInv, TypeOK
<1>1. /\ Len(msgQueue) \in Nat /\ peak \in Nat
      /\ IsFiniteSet(Growing) /\ Cardinality(Growing) \in Nat
  <2>1. IsFiniteSet(Growing)
    BY ThreadsAssumption, FS_Subset DEF Growing
  <2> QED
    BY <2>1, LenProperties, FS_CardinalityType
<1>2. ASSUME Len(msgQueue') = Len(msgQueue), Growing' = Growing, peak' \in Int, peak' >= peak
      PROVE  NoNeedlessGrowth'
  <2>1. Cardinality(Growing)' = Cardinality(Growing)
    BY <1>2
  <2> QED
    BY <1>1, <1>2, <2>1 DEF NoNeedlessGrowth
<1>3. ASSUME NEW t \in Threads, PushGetIndex(t) PROVE NoNeedlessGrowth'
  <2>1. /\ Outstanding \in Nat /\ msgQueue' = msgQueue
        /\ peak' = IF Outstanding + 1 > peak THEN Outstanding + 1 ELSE peak
    BY <1>3, OutstandingType DEF PushGetIndex, BeginPush, vector
  <2>2. pc[t] = "idle" /\ pc' = [pc EXCEPT ![t] = "push_lock"]
    BY <1>3 DEF PushGetIndex, BeginPush
  <2>3. CASE indexesQueue = <<>>
    <3>1. Len(msgQueue) + Cardinality(Growing) <= Outstanding
      BY <2>3, FullVectorIsNeeded
    <3>2. Growing' \in SUBSET (Growing \cup {t})
      BY <1>3, <2>2, <2>3 DEF PushGetIndex, Growing
    <3>3. Cardinality(Growing') <= Cardinality(Growing \cup {t}) /\ IsFiniteSet(Growing')
      BY <1>1, <3>2, FS_AddElement, FS_Subset
    <3>4. Cardinality(Growing \cup {t}) <= Cardinality(Growing) + 1
      <4>1. Cardinality(Growing \cup {t})
              = IF t \in Growing THEN Cardinality(Growing) ELSE Cardinality(Growing) + 1
        BY <1>1, FS_AddElement
      <4>2. CASE t \in Growing
        BY <1>1, <4>1, <4>2
      <4>3. CASE t \notin Growing
        BY <1>1, <4>1, <4>3
      <4> QED
        BY <4>2, <4>3
    <3>5. Cardinality(Growing \cup {t}) \in Nat /\ Cardinality(Growing') \in Nat
      BY <1>1, <3>3, FS_AddElement, FS_CardinalityType
    <3>6. Len(msgQueue') + Cardinality(Growing') <= peak'
      BY <1>1, <2>1, <3>1, <3>3, <3>4, <3>5
    <3> QED
      BY <3>6 DEF NoNeedlessGrowth
  <2>4. CASE indexesQueue # <<>>
    <3>1. slot' = [slot EXCEPT ![t] = Head(indexesQueue)] /\ Head(indexesQueue) \in Slots
      BY <1>3, <2>4, HeadTailProperties DEF PushGetIndex
    <3>2. slot'[t] >= 0
      BY <1>1, <3>1 DEF Slots
    <3>3. t \notin Growing /\ t \notin Growing'
      <4>1. ~(slot'[t] < 0)
        <5>1. slot'[t] \in Int
          BY <1>1, <3>1 DEF Slots
        <5> QED
          BY <3>2, <5>1
      <4> QED
        BY <2>2, <4>1 DEF Growing
    <3>4. \A u \in Threads \ {t} : u \in Growing <=> u \in Growing'
      BY <2>2, <3>1 DEF Growing
    <3>5. Growing' = Growing
      <4>1. Growing \subseteq Threads /\ Growing' \subseteq Threads
        BY DEF Growing
      <4>2. \A u \in Threads : u \in Growing <=> u \in Growing'
        BY <3>3, <3>4
      <4> HIDE DEF IInv, TypeOK
      <4> QED
        BY <4>1, <4>2
    <3> QED
      BY <1>1, <1>2, <2>1, <3>5
  <2> QED
    BY <2>3, <2>4
<1>4. ASSUME NEW t \in Threads, PushBack(t) PROVE NoNeedlessGrowth'
  <2>1. /\ t \in Growing /\ Len(msgQueue') = Len(msgQueue) + 1 /\ peak' = peak
    BY <1>4, AppendProperties DEF PushBack, Growing
  <2>2. Growing' = Growing \ {t}
    BY <1>1, <1>4 DEF PushBack, Growing
  <2>3. Cardinality(Growing') = Cardinality(Growing) - 1
    BY <1>1, <2>1, <2>2, FS_RemoveElement
  <2>4. Len(msgQueue') + Cardinality(Growing') <= peak'
    BY <1>1, <2>1, <2>3 DEF NoNeedlessGrowth
  <2> QED
    BY <2>4 DEF NoNeedlessGrowth
<1>5. ASSUME NEW t \in Threads, PushInFreeSlot(t) PROVE NoNeedlessGrowth'
  <2>1. Len(msgQueue') = Len(msgQueue) /\ peak' = peak
    <3>0. pc[t] = "push_store" /\ slot[t] >= 0 /\ slot[t] \in Slots \cup {-1}
      BY <1>5 DEF PushInFreeSlot
    <3>1. slot[t] + 1 \in 1 .. Len(msgQueue)
      BY <1>1, <3>0 DEF Slots
    <3>2. wanted[t] \in Message
      BY <3>0 DEF CallsAreSound
    <3> QED
      BY <1>5, <3>1, <3>2, ExceptSeq DEF PushInFreeSlot
  <2>2. Growing' = Growing
    <3>1. ~(slot[t] < 0) /\ slot' = slot /\ pc' = [pc EXCEPT ![t] = "push_return"]
      <4>1. slot[t] \in Int
        BY <1>1 DEF Slots
      <4> QED
        BY <1>5, <4>1 DEF PushInFreeSlot
    <3>2. t \notin Growing /\ t \notin Growing'
      BY <3>1 DEF Growing
    <3>3. \A u \in Threads \ {t} : u \in Growing <=> u \in Growing'
      BY <3>1 DEF Growing
    <3>4. Growing \subseteq Threads /\ Growing' \subseteq Threads
      BY DEF Growing
    <3>5. \A u \in Threads : u \in Growing <=> u \in Growing'
      BY <3>2, <3>3
    <3> HIDE DEF IInv, TypeOK
    <3> QED
      BY <3>4, <3>5
  <2> QED
    BY <1>1, <1>2, <2>1, <2>2
<1>6. ASSUME NEW t \in Threads, PushLock(t) \/ PopLoadBuffer(t) \/ PopLoadSlot(t)
      PROVE NoNeedlessGrowth'
  <2>1. msgQueue' = msgQueue /\ peak' = peak
    BY <1>6 DEF PushLock, PopLoadBuffer, PopLoadSlot, vector
  <2>2. Growing' = Growing
    BY <1>6 DEF PushLock, PopLoadBuffer, PopLoadSlot, Growing
  <2> QED
    BY <1>1, <1>2, <2>1, <2>2
<1>7. ASSUME NEW t \in Threads, PushReturn(t) \/ PopFree(t) PROVE NoNeedlessGrowth'
  <2>1. msgQueue' = msgQueue /\ peak' = peak
    BY <1>7 DEF PushReturn, PopFree, vector
  <2>2. Growing' = Growing
    BY <1>7 DEF PushReturn, PopFree, EndCall, Growing
  <2> QED
    BY <1>1, <1>2, <2>1, <2>2
<1>8. CASE UNCHANGED vars
  BY <1>1, <1>2, <1>8 DEF vars, Growing
<1> QED
  BY <1>3, <1>4, <1>5, <1>6, <1>7, <1>8 DEF Next, Push, Pop

(* Slots are reused: the vector never has more slots than there were       *)
(* messages under way at one time (push, getNextFreeIndex).                *)
THEOREM SlotsAreReused == Spec => []NoNeedlessGrowth
<1>1. Init => NoNeedlessGrowth
  <2> SUFFICES ASSUME Init PROVE NoNeedlessGrowth
    OBVIOUS
  <2>1. Growing = {} /\ Len(msgQueue) = 0 /\ peak = 0
    BY DEF Init, Growing
  <2> QED
    BY <2>1, FS_EmptySet DEF NoNeedlessGrowth
<1>2. IInv /\ NoNeedlessGrowth /\ [Next]_vars => NoNeedlessGrowth'
  BY NextNoNeedlessGrowth
<1> QED
  BY <1>1, <1>2, Invariance, PTL DEF Spec
=============================================================================

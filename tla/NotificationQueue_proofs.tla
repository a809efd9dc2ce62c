---------------------- MODULE NotificationQueue_proofs ----------------------
(***************************************************************************)
(* Proofs about NotificationQueue, for any finite set of threads and any   *)
(* number of pushes: its types, mutual exclusion, the credit accounting    *)
(* that makes a pop safe, and the FIFO channel it implements.              *)
(***************************************************************************)
EXTENDS NotificationQueue, FiniteSetTheorems, SequenceTheorems, TLAPS

(* Only the owner is ever inside pop. *)
OnlyOwnerPops ==
  \A t \in Threads : pc[t] \in PopSteps \cup {"returned_false"} => t = Owner

(* The inductive invariant. *)
IInv == TypeOK /\ OnlyOwnerPops /\ MutualExclusion /\ CreditAccounting

(* Posting and Taking are finite, so they can be counted. *)
LEMMA CountersAreFinite ==
  /\ IsFiniteSet(Posting) /\ IsFiniteSet(Taking)
  /\ Cardinality(Posting) \in Nat /\ Cardinality(Taking) \in Nat
<1>1. Posting \subseteq Threads /\ Taking \subseteq Threads
  BY DEF Posting, Taking
<1>2. IsFiniteSet(Posting) /\ IsFiniteSet(Taking)
  BY <1>1, ThreadsAssumption, FS_Subset
<1> QED
  BY <1>2, FS_CardinalityType

LEMMA InitIInv == Init => IInv
<1> SUFFICES ASSUME Init PROVE IInv
  OBVIOUS
<1>1. TypeOK
  BY ThreadsAssumption DEF Init, TypeOK, PushSteps, PopSteps
<1>2. OnlyOwnerPops
  BY DEF Init, OnlyOwnerPops, PopSteps
<1>3. MutualExclusion
  BY DEF Init, MutualExclusion, Inside
<1>4. Posting = {} /\ Taking = {}
  BY DEF Init, Posting, Taking
<1>5. CreditAccounting
  BY <1>4, FS_EmptySet DEF Init, CreditAccounting
<1> QED
  BY <1>1, <1>2, <1>3, <1>5 DEF IInv

(* Each step keeps the types and the roles of the threads.  PopBody needs  *)
(* the accounting: it takes one from a queueSize that is not 0.            *)
LEMMA NextTypeOK ==
  ASSUME IInv, [Next]_vars
  PROVE  TypeOK' /\ OnlyOwnerPops'
<1> USE ThreadsAssumption DEF IInv, TypeOK, OnlyOwnerPops, PushSteps, PopSteps
<1>1. ASSUME NEW t \in Threads, PushLock(t) PROVE TypeOK' /\ OnlyOwnerPops'
  BY <1>1 DEF PushLock
<1>2. ASSUME NEW t \in Threads, PushBody(t) PROVE TypeOK' /\ OnlyOwnerPops'
  <2>1. <<t, pushed[t] + 1>> \in Item
    BY DEF Item
  <2>2. queue' \in Seq(Item)
    BY <1>2, <2>1, AppendProperties DEF PushBody
  <2> QED
    BY <1>2, <2>2 DEF PushBody
<1>3. ASSUME NEW t \in Threads, PushUnlock(t) PROVE TypeOK' /\ OnlyOwnerPops'
  BY <1>3 DEF PushUnlock
<1>4. ASSUME NEW t \in Threads, PushPost(t) PROVE TypeOK' /\ OnlyOwnerPops'
  BY <1>4 DEF PushPost
<1>5. ASSUME NEW t \in Threads, PopAcquire(t) PROVE TypeOK' /\ OnlyOwnerPops'
  BY <1>5 DEF PopAcquire
<1>6. ASSUME NEW t \in Threads, PopReturnsFalse(t) PROVE TypeOK' /\ OnlyOwnerPops'
  BY <1>6 DEF PopReturnsFalse
<1>7. ASSUME NEW t \in Threads, PopCallerResumes(t) PROVE TypeOK' /\ OnlyOwnerPops'
  BY <1>7 DEF PopCallerResumes
<1>8. ASSUME NEW t \in Threads, PopLock(t) PROVE TypeOK' /\ OnlyOwnerPops'
  BY <1>8 DEF PopLock
<1>9. ASSUME NEW t \in Threads, PopBody(t) PROVE TypeOK' /\ OnlyOwnerPops'
  <2>1. /\ Head(queue) \in Item
        /\ queue' \in Seq(Item)
        /\ received' \in Seq(Item)
    BY <1>9, HeadTailProperties, AppendProperties DEF PopBody
  <2>2. Len(queue) \in Nat /\ Len(queue) # 0
    BY <1>9, EmptySeq, LenProperties DEF PopBody
  <2>3. queueSize' \in Nat
    BY <1>9, <2>2 DEF PopBody, CreditAccounting
  <2> QED
    BY <1>9, <2>1, <2>3 DEF PopBody
<1>10. ASSUME NEW t \in Threads, PopUnlock(t) PROVE TypeOK' /\ OnlyOwnerPops'
  BY <1>10 DEF PopUnlock
<1>11. CASE UNCHANGED vars
  BY <1>11 DEF vars
<1> QED
  BY <1>1, <1>2, <1>3, <1>4, <1>5, <1>6, <1>7, <1>8, <1>9, <1>10, <1>11
  DEF Next, Push, Pop

(* Each step keeps the mutex: a thread enters a critical section only when *)
(* the mutex is free, and frees it when it leaves.                         *)
LEMMA NextMutualExclusion ==
  ASSUME IInv, [Next]_vars
  PROVE  MutualExclusion'
<1> USE ThreadsAssumption DEF IInv, TypeOK, MutualExclusion, Inside, PushSteps, PopSteps
<1>1. ASSUME NEW t \in Threads, PushLock(t) PROVE MutualExclusion'
  BY <1>1 DEF PushLock
<1>2. ASSUME NEW t \in Threads, PushBody(t) PROVE MutualExclusion'
  <2>1. Inside' = Inside
    BY <1>2 DEF PushBody
  <2> QED
    BY <1>2, <2>1 DEF PushBody
<1>3. ASSUME NEW t \in Threads, PushUnlock(t) PROVE MutualExclusion'
  BY <1>3 DEF PushUnlock
<1>4. ASSUME NEW t \in Threads, PushPost(t) PROVE MutualExclusion'
  <2>1. Inside' = Inside
    BY <1>4 DEF PushPost
  <2> QED
    BY <1>4, <2>1 DEF PushPost
<1>5. ASSUME NEW t \in Threads, PopAcquire(t) PROVE MutualExclusion'
  <2>1. Inside' = Inside
    BY <1>5 DEF PopAcquire
  <2> QED
    BY <1>5, <2>1 DEF PopAcquire
<1>6. ASSUME NEW t \in Threads, PopReturnsFalse(t) PROVE MutualExclusion'
  <2>1. Inside' = Inside
    BY <1>6 DEF PopReturnsFalse
  <2> QED
    BY <1>6, <2>1 DEF PopReturnsFalse
<1>7. ASSUME NEW t \in Threads, PopCallerResumes(t) PROVE MutualExclusion'
  <2>1. Inside' = Inside
    BY <1>7 DEF PopCallerResumes
  <2> QED
    BY <1>7, <2>1 DEF PopCallerResumes
<1>8. ASSUME NEW t \in Threads, PopLock(t) PROVE MutualExclusion'
  BY <1>8 DEF PopLock
<1>9. ASSUME NEW t \in Threads, PopBody(t) PROVE MutualExclusion'
  <2>1. Inside' = Inside
    BY <1>9 DEF PopBody
  <2> QED
    BY <1>9, <2>1 DEF PopBody
<1>10. ASSUME NEW t \in Threads, PopUnlock(t) PROVE MutualExclusion'
  BY <1>10 DEF PopUnlock
<1>11. CASE UNCHANGED vars
  BY <1>11 DEF vars
<1> QED
  BY <1>1, <1>2, <1>3, <1>4, <1>5, <1>6, <1>7, <1>8, <1>9, <1>10, <1>11
  DEF Next, Push, Pop

(* Each step keeps the accounting: an append is owed a post, a credit      *)
(* taken is owed an item, and each debt is paid by the step that ends it.  *)
LEMMA NextCreditAccounting ==
  ASSUME IInv, [Next]_vars
  PROVE  CreditAccounting'
<1> USE ThreadsAssumption DEF IInv, TypeOK, CreditAccounting, PushSteps, PopSteps
<1>0. /\ IsFiniteSet(Posting) /\ IsFiniteSet(Taking)
      /\ Cardinality(Posting) \in Nat /\ Cardinality(Taking) \in Nat
  BY CountersAreFinite
<1>1. ASSUME NEW t \in Threads,
             \/ PushLock(t) \/ PushUnlock(t) \/ PopReturnsFalse(t)
             \/ PopCallerResumes(t) \/ PopLock(t) \/ PopUnlock(t)
      PROVE  CreditAccounting'
  <2>1. Posting' = Posting
    BY <1>1 DEF Posting, PushLock, PushUnlock, PopReturnsFalse, PopCallerResumes,
                PopLock, PopUnlock
  <2>2. Taking' = Taking
    BY <1>1 DEF Taking, PushLock, PushUnlock, PopReturnsFalse, PopCallerResumes,
                PopLock, PopUnlock
  <2>3. UNCHANGED <<queue, queueSize, queueCounter>>
    BY <1>1 DEF PushLock, PushUnlock, PopReturnsFalse, PopCallerResumes,
                PopLock, PopUnlock
  <2> QED
    BY <2>1, <2>2, <2>3
<1>2. ASSUME NEW t \in Threads, PushBody(t) PROVE CreditAccounting'
  <2>1. Posting' = Posting \cup {t} /\ t \notin Posting
    BY <1>2 DEF PushBody, Posting
  <2>2. Taking' = Taking
    BY <1>2 DEF PushBody, Taking
  <2>3. Cardinality(Posting') = Cardinality(Posting) + 1
    BY <1>0, <2>1, FS_AddElement
  <2>4. <<t, pushed[t] + 1>> \in Item
    BY DEF Item
  <2>5. Len(queue') = Len(queue) + 1
    BY <1>2, <2>4, AppendProperties DEF PushBody
  <2>6. Len(queue) \in Nat
    BY LenProperties
  <2> QED
    BY <1>0, <1>2, <2>2, <2>3, <2>5, <2>6 DEF PushBody
<1>3. ASSUME NEW t \in Threads, PushPost(t) PROVE CreditAccounting'
  <2>1. Posting' = Posting \ {t} /\ t \in Posting
    BY <1>3 DEF PushPost, Posting
  <2>2. Taking' = Taking
    BY <1>3 DEF PushPost, Taking
  <2>3. Cardinality(Posting') = Cardinality(Posting) - 1
    BY <1>0, <2>1, FS_RemoveElement
  <2> QED
    BY <1>0, <1>3, <2>2, <2>3 DEF PushPost
<1>4. ASSUME NEW t \in Threads, PopAcquire(t) PROVE CreditAccounting'
  <2>1. Taking' = Taking \cup {t} /\ t \notin Taking
    BY <1>4 DEF PopAcquire, Taking
  <2>2. Posting' = Posting
    BY <1>4 DEF PopAcquire, Posting
  <2>3. Cardinality(Taking') = Cardinality(Taking) + 1
    BY <1>0, <2>1, FS_AddElement
  <2> QED
    BY <1>0, <1>4, <2>2, <2>3 DEF PopAcquire
<1>5. ASSUME NEW t \in Threads, PopBody(t) PROVE CreditAccounting'
  <2>1. Taking' = Taking \ {t} /\ t \in Taking
    BY <1>5 DEF PopBody, Taking
  <2>2. Posting' = Posting
    BY <1>5 DEF PopBody, Posting
  <2>3. Cardinality(Taking') = Cardinality(Taking) - 1
    BY <1>0, <2>1, FS_RemoveElement
  <2>4. Len(queue') = Len(queue) - 1
    BY <1>5, HeadTailProperties DEF PopBody
  <2> QED
    BY <1>0, <1>5, <2>2, <2>3, <2>4, LenProperties DEF PopBody
<1>6. CASE UNCHANGED vars
  BY <1>6 DEF vars, Posting, Taking
<1> QED
  BY <1>1, <1>2, <1>3, <1>4, <1>5, <1>6 DEF Next, Push, Pop

-----------------------------------------------------------------------------
LEMMA SpecIInv == Spec => []IInv
<1>1. IInv /\ [Next]_vars => IInv'
  BY NextTypeOK, NextMutualExclusion, NextCreditAccounting DEF IInv
<1> QED
  BY InitIInv, <1>1, PTL DEF Spec

(* Every variable of the queue keeps its type; in particular queueSize_    *)
(* and the semaphore never go below zero.                                  *)
THEOREM TypeCorrect == Spec => []TypeOK
<1>1. IInv => TypeOK
  BY DEF IInv
<1> QED
  BY <1>1, SpecIInv, PTL

(* The two lock_guard scopes of push and pop exclude each other.           *)
THEOREM MutualExclusionHolds == Spec => []MutualExclusion
<1>1. IInv => MutualExclusion
  BY DEF IInv
<1> QED
  BY <1>1, SpecIInv, PTL

(* Semaphore and queue agree up to the pushes and pops under way, for any  *)
(* number of threads.                                                      *)
THEOREM CreditsAreAccounted == Spec => []CreditAccounting
<1>1. IInv => CreditAccounting
  BY DEF IInv
<1> QED
  BY <1>1, SpecIInv, PTL

(* pop never calls front() on an empty queue: a thread that is about to    *)
(* take an item is counted in Taking, so the queue has at least one.       *)
THEOREM PopAlwaysFindsItem == Spec => []PopFindsItem
<1>1. IInv => PopFindsItem
  <2> SUFFICES ASSUME IInv, NEW t \in Threads, pc[t] = "pop_body", queue = <<>>
               PROVE  FALSE
    BY DEF PopFindsItem
  <2>1. t \in Taking
    BY DEF Taking
  <2>2. Cardinality(Taking) # 0
    BY <2>1, CountersAreFinite, FS_EmptySet
  <2>3. Len(queue) = 0
    BY EmptySeq
  <2> QED
    BY <2>2, <2>3, CountersAreFinite DEF IInv, TypeOK, CreditAccounting
<1> QED
  BY <1>1, SpecIInv, PTL

(* A trypop that fails leaves no more items than there are pushes that     *)
(* have not posted: with no push under way, false means empty.             *)
THEOREM EmptyAnswerIsExcused == Spec => EmptyAnswerExcused
<1>1. ASSUME IInv, NEW t \in Threads, PopReturnsFalse(t)
      PROVE  Len(queue) <= Cardinality(Posting)
  <2>1. Taking = {}
    BY <1>1 DEF IInv, OnlyOwnerPops, Taking, PopReturnsFalse, PopSteps
  <2>2. Cardinality(Taking) = 0
    BY <2>1, FS_EmptySet
  <2> QED
    BY <1>1, <2>2, CountersAreFinite DEF IInv, TypeOK, CreditAccounting, PopReturnsFalse
<1>2. IInv => [\A t \in Threads :
                 PopReturnsFalse(t) => Len(queue) <= Cardinality(Posting)]_vars
  BY <1>1
<1> QED
  BY <1>2, SpecIInv, PTL DEF EmptyAnswerExcused

(* The queue implements the FIFO channel: PushBody is a Send, PopBody a    *)
(* Deliver, every other step leaves the channel alone.                     *)
THEOREM QueueImplementsChannel == Spec => ImplementsChannel
<1>1. Init => Channel!Init
  BY DEF Init, Channel!Init
<1>2. [Next]_vars => [Channel!Next]_(Channel!vars)
  <2> USE DEF Channel!Next, Channel!vars
  <2>1. ASSUME NEW t \in Threads, PushBody(t) PROVE Channel!Next
    <3>1. Channel!Send(t)
      BY <2>1 DEF PushBody, Channel!Send
    <3> QED
      BY <3>1
  <2>2. ASSUME NEW t \in Threads, PopBody(t) PROVE Channel!Next
    BY <2>2 DEF PopBody, Channel!Deliver
  <2>3. ASSUME NEW t \in Threads,
               \/ PushLock(t) \/ PushUnlock(t) \/ PushPost(t) \/ PopAcquire(t)
               \/ PopReturnsFalse(t) \/ PopCallerResumes(t) \/ PopLock(t) \/ PopUnlock(t)
        PROVE  UNCHANGED Channel!vars
    BY <2>3 DEF PushLock, PushUnlock, PushPost, PopAcquire, PopReturnsFalse,
                PopCallerResumes, PopLock, PopUnlock
  <2>4. CASE UNCHANGED vars
    BY <2>4 DEF vars
  <2> QED
    BY <2>1, <2>2, <2>3, <2>4 DEF Next, Push, Pop
<1> QED
  BY <1>1, <1>2, PTL DEF Spec, ImplementsChannel, Channel!Spec
=============================================================================

----------------------- MODULE SRDAGScheduler_proofs -----------------------
(***************************************************************************)
(* Proofs about SRDAGScheduler: every schedule that it makes satisfies the *)
(* constraints that the runtime relies on (the assumption of module        *)
(* StaticRuntime), its times are consistent, and on an acyclic graph the   *)
(* sources of the vertex that is next are always mapped.                   *)
(***************************************************************************)
EXTENDS SRDAGScheduler, SequenceTheorems, FiniteSetTheorems, TLAPS

-----------------------------------------------------------------------------
(* The inductive invariant.                                                *)

(* The types of the variables, schedLvl excepted: the levels have a type   *)
(* only if the graph has no cycle.                                         *)
Typed ==
  /\ edges \in Graphs /\ <<execTime, constraints>> \in Timings
  /\ list \subseteq Vertices /\ jobs \in Seq(Vertices)
  /\ mappedPE \in [Vertices -> PE \cup {-1}]
  /\ jobID \in [Vertices -> Int]
  /\ waitVertex \in [Vertices -> [PE -> Vertices \cup {-1}]]
  /\ jobs2Wait \in [Vertices -> [PE -> Int]]
  /\ lrts2Notify \in [Vertices -> [PE -> BOOLEAN]]
  /\ startTime \in [Vertices -> Nat] /\ endTime \in [Vertices -> Nat]
  /\ nJobPerPE \in [PE -> Nat] /\ readyTime \in [PE -> Nat]

Mapped == {v \in Vertices : mappedPE[v] # -1}

(* The jobs of the schedule are the vertices that have left the list; each *)
(* is on an enabled PE and comes after its sources.                        *)
JobsAreMapped ==
  /\ Mapped = Vertices \ list
  /\ \A v \in Mapped : mappedPE[v] \in Enabled
  /\ \A i, j \in Jobs : jobs[i] \in Sources(jobs[j]) => i < j
  /\ \A j \in Jobs : jobs[j] \in Mapped
  /\ \A v \in Mapped : \E j \in Jobs : jobs[j] = v

(* The jobs of a PE are numbered without gap, in the order of mapping.     *)
Numbered ==
  /\ \A v \in Mapped : jobID[v] \in 0 .. nJobPerPE[mappedPE[v]] - 1
  /\ \A pe \in PE : \A id \in 0 .. nJobPerPE[pe] - 1 :
       \E v \in Mapped : mappedPE[v] = pe /\ jobID[v] = id
  /\ \A i, j \in Jobs :
       i < j /\ mappedPE[jobs[i]] = mappedPE[jobs[j]] => jobID[jobs[i]] < jobID[jobs[j]]

(* A mapped vertex waits for the last of its sources on each PE.           *)
Waits ==
  \A v \in Mapped :
    /\ \A p \in Sources(v) : p \in Mapped /\ jobID[p] <= jobs2Wait[v][mappedPE[p]]
    /\ \A q \in PE :
         \/ jobs2Wait[v][q] = -1
         \/ \E p \in Sources(v) : mappedPE[p] = q /\ jobID[p] = jobs2Wait[v][q]

(* A vertex notifies the PEs of the vertices that wait for it.             *)
Notifies ==
  \A p \in Vertices, q \in PE :
    lrts2Notify[p][q] <=>
      /\ p \in Mapped
      /\ \E v \in Mapped : mappedPE[v] = q /\ jobs2Wait[v][mappedPE[p]] = jobID[p]

(* A PE is busy until the end of its last job.                             *)
Timed ==
  /\ \A v \in Mapped : endTime[v] <= readyTime[mappedPE[v]]
  /\ \A v \in Mapped : \A p \in Sources(v) : endTime[p] <= startTime[v]
  /\ \A i, j \in Jobs :
       i < j /\ mappedPE[jobs[i]] = mappedPE[jobs[j]] => endTime[jobs[i]] <= startTime[jobs[j]]

MappingInv == Typed /\ JobsAreMapped /\ Numbered /\ Waits /\ Notifies /\ Timed

-----------------------------------------------------------------------------
(* Finite sets of numbers have a largest element.  The induction on the     *)
(* size of the set is an argument on a smallest counterexample.            *)

Less == {p \in Nat \X Nat : p[1] < p[2]}

(* There is no infinite descent in the natural numbers.                    *)
LEMMA LessIsWellFounded == IsWellFoundedOn(Less, Nat)
<1>1. OpToRel(<, Nat) = Less
  BY DEF OpToRel, Less
<1> QED
  BY <1>1, NatLessThanWellFounded

(* A nonempty set of natural numbers has a least element.                  *)
LEMMA LeastNumber ==
  ASSUME NEW T, T \subseteq Nat, T # {}
  PROVE  \E x \in T : \A y \in T : x <= y
<1>1. PICK x \in T : \A y \in T : ~ (<<y, x>> \in Less)
  BY LessIsWellFounded, WFMin
<1>2. ASSUME NEW y \in T, ~(x <= y) PROVE FALSE
  <2>1. x \in Nat /\ y \in Nat
    OBVIOUS
  <2>2. <<y, x>> \in Nat \X Nat /\ y < x
    BY <2>1, <1>2
  <2>3. <<y, x>> \in Less
    BY <2>2 DEF Less
  <2> QED
    BY <1>1, <2>3
<1> QED
  BY <1>2

(* A finite, nonempty set of numbers has a greatest element.               *)
LEMMA GreatestNumber ==
  ASSUME NEW S, S \subseteq Int, S # {}, IsFiniteSet(S)
  PROVE  \E x \in S : \A y \in S : y <= x
<1> DEFINE NoGreatest(T) == T # {} /\ ~ \E x \in T : \A y \in T : y <= x
           Bad == {n \in Nat : \E T \in SUBSET S : Cardinality(T) = n /\ NoGreatest(T)}
<1>1. SUFFICES ASSUME Bad # {} PROVE FALSE
  BY FS_CardinalityType
<1>2. PICK n \in Bad : \A k \in Bad : n <= k
  <2>1. Bad \subseteq Nat
    OBVIOUS
  <2> HIDE DEF Bad
  <2> QED
    BY <2>1, <1>1, LeastNumber
<1>3. PICK T \in SUBSET S : Cardinality(T) = n /\ NoGreatest(T)
  BY <1>2
<1>4. PICK a \in T : TRUE
  BY <1>3
<1>5. IsFiniteSet(T)
  BY FS_Subset
<1>6. IsFiniteSet(T \ {a}) /\ Cardinality(T \ {a}) = n - 1
  BY <1>4, <1>5, <1>3, FS_RemoveElement
<1>7. n - 1 \in Nat /\ n - 1 \notin Bad
  BY <1>2, <1>6, FS_CardinalityType, SMTT(30)
<1>8. T \ {a} # {}
  BY <1>3, <1>4
<1>9. PICK x \in T \ {a} : \A y \in T \ {a} : y <= x
  BY <1>6, <1>7, <1>8
<1>10. /\ x \in Int /\ a \in Int
       /\ \A y \in T : y \in Int /\ (y = a \/ y <= x)
  BY <1>4, <1>9
<1>11. CASE x <= a
  <2>1. \A y \in T : y <= a
    BY <1>10, <1>11
  <2> QED
    BY <2>1, <1>3, <1>4
<1>12. CASE ~(x <= a)
  <2>1. \A y \in T : y <= x
    BY <1>10, <1>12
  <2> QED
    BY <2>1, <1>3
<1> QED
  BY <1>11, <1>12

(* What a function gives on a finite set is finite.                        *)
LEMMA ImageIsFinite ==
  ASSUME NEW S, IsFiniteSet(S), NEW f
  PROVE  IsFiniteSet({f[x] : x \in S})
<1> DEFINE g == [x \in S |-> f[x]]
           T == {f[x] : x \in S}
<1>1. g \in Surjection(S, T)
  BY DEF Surjection
<1> QED
  BY <1>1, FS_Surjection

(* MaxOrZero gives the greatest of 0 and the elements.                     *)
LEMMA MaxOrZeroIsMax ==
  ASSUME NEW S, S \subseteq Int, IsFiniteSet(S)
  PROVE  /\ MaxOrZero(S) \in S \cup {0} /\ MaxOrZero(S) \in Nat
         /\ \A y \in S : y <= MaxOrZero(S)
<1>1. S \cup {0} \subseteq Int /\ S \cup {0} # {} /\ IsFiniteSet(S \cup {0})
  BY FS_AddElement
<1>2. \E x \in S \cup {0} : \A y \in S \cup {0} : y <= x
  BY <1>1, GreatestNumber
<1>3. /\ MaxOrZero(S) \in S \cup {0}
      /\ \A y \in S \cup {0} : y <= MaxOrZero(S)
  BY <1>2 DEF MaxOrZero
<1>4. MaxOrZero(S) \in Int /\ 0 <= MaxOrZero(S)
  BY <1>1, <1>3
<1> QED
  BY <1>3, <1>4

-----------------------------------------------------------------------------
(* The operators of mapVertex.                                             *)

(* The sources of a vertex are vertices.                                   *)
LEMMA SourcesAreVertices ==
  ASSUME Typed, NEW v
  PROVE  Sources(v) \subseteq Vertices /\ IsFiniteSet(Sources(v))
<1>1. \A e \in edges : e.src \in Vertices
  BY SchedulerAssumption DEF Typed, Edge
<1>2. Sources(v) \subseteq Vertices
  BY <1>1 DEF Sources
<1> QED
  BY <1>2, FS_Subset, SchedulerAssumption

(* LastSource gives the source on a PE with the largest index, if any.     *)
LEMMA LastSourceIsLast ==
  ASSUME Typed, NEW v, NEW q
  PROVE  \/ SourcesOn(v, q) = {} /\ LastSource(v, q) = -1
         \/ /\ LastSource(v, q) \in SourcesOn(v, q)
            /\ \A r \in SourcesOn(v, q) : jobID[r] <= jobID[LastSource(v, q)]
<1>1. CASE SourcesOn(v, q) = {}
  BY <1>1 DEF LastSource
<1>2. CASE SourcesOn(v, q) # {}
  <2> DEFINE ids == {jobID[r] : r \in SourcesOn(v, q)}
  <2>1. SourcesOn(v, q) \subseteq Vertices /\ IsFiniteSet(SourcesOn(v, q))
    BY SourcesAreVertices, FS_Subset DEF SourcesOn
  <2>2. ids \subseteq Int /\ ids # {}
    BY <2>1, <1>2 DEF Typed
  <2>3. IsFiniteSet(ids)
    BY <2>1, ImageIsFinite
  <2>4. \E x \in ids : \A y \in ids : y <= x
    BY <2>2, <2>3, GreatestNumber
  <2>5. \E p \in SourcesOn(v, q) : \A r \in SourcesOn(v, q) : jobID[r] <= jobID[p]
    BY <2>4
  <2> QED
    BY <1>2, <2>5 DEF LastSource
<1> QED
  BY <1>1, <1>2

(* A vertex starts after its sources and when its PE is free.              *)
LEMMA StartIsLate ==
  ASSUME Typed, NEW v \in Vertices, NEW pe \in PE
  PROVE  LET start == MaxOrZero({readyTime[pe], MinimumStartTime(v)}) IN
         /\ start \in Nat /\ readyTime[pe] <= start
         /\ \A p \in Sources(v) : endTime[p] <= start
<1> DEFINE ends == {endTime[p] : p \in Sources(v)}
           start == MaxOrZero({readyTime[pe], MinimumStartTime(v)})
<1>1. ends \subseteq Int /\ IsFiniteSet(ends)
  <2>1. IsFiniteSet(ends)
    BY SourcesAreVertices, ImageIsFinite
  <2>2. ends \subseteq Int
    BY SourcesAreVertices DEF Typed
  <2> QED
    BY <2>1, <2>2
<1>2. /\ MinimumStartTime(v) \in Nat
      /\ \A p \in Sources(v) : endTime[p] \in Nat /\ endTime[p] <= MinimumStartTime(v)
  <2>1. MaxOrZero(ends) \in Nat /\ \A y \in ends : y <= MaxOrZero(ends)
    BY <1>1, MaxOrZeroIsMax
  <2>2. \A p \in Sources(v) : endTime[p] \in Nat /\ endTime[p] \in ends
    BY SourcesAreVertices DEF Typed
  <2> QED
    BY <2>1, <2>2 DEF MinimumStartTime
<1>3. /\ {readyTime[pe], MinimumStartTime(v)} \subseteq Int
      /\ IsFiniteSet({readyTime[pe], MinimumStartTime(v)})
  <2>1. {readyTime[pe], MinimumStartTime(v)} = {readyTime[pe]} \cup {MinimumStartTime(v)}
    OBVIOUS
  <2>2. IsFiniteSet({readyTime[pe]} \cup {MinimumStartTime(v)})
    BY FS_Singleton, FS_AddElement
  <2>3. {readyTime[pe], MinimumStartTime(v)} \subseteq Int
    BY <1>2 DEF Typed
  <2> QED
    BY <2>1, <2>2, <2>3
<1>4. start \in Nat /\ readyTime[pe] <= start /\ MinimumStartTime(v) <= start
  BY <1>3, MaxOrZeroIsMax
<1> QED
  BY <1>2, <1>4
-----------------------------------------------------------------------------
(* The initial state.                                                      *)

LEMMA MappingInit == Init => MappingInv
<1> SUFFICES ASSUME Init PROVE MappingInv
  OBVIOUS
<1> USE DEF Init
<1>1. Typed
  BY SchedulerAssumption DEF Typed
<1>2. Mapped = {} /\ Jobs = {}
  BY DEF Mapped, Jobs
<1>3. JobsAreMapped
  BY <1>2 DEF JobsAreMapped
<1>4. Numbered
  BY <1>2 DEF Numbered
<1>5. Waits
  BY <1>2 DEF Waits
<1>6. Notifies
  BY <1>2 DEF Notifies
<1>7. Timed
  BY <1>2 DEF Timed
<1> QED
  BY <1>1, <1>3, <1>4, <1>5, <1>6, <1>7 DEF MappingInv

-----------------------------------------------------------------------------
(* Mapping one vertex.                                                     *)

(* What a step of MapVertex leaves as it is, and what it changes: the      *)
(* facts that every part of the proof needs.                               *)
LEMMA MapVertexEffect ==
  ASSUME MappingInv, NEW v \in Vertices, NEW pe \in PE, MapVertex(v, pe)
  PROVE  /\ v \notin Mapped /\ Mapped' = Mapped \cup {v} /\ Sources(v) \subseteq Mapped
         /\ \A u : Sources(u)' = Sources(u)
         /\ \A u \in Vertices : u # v =>
              /\ mappedPE'[u] = mappedPE[u] /\ jobID'[u] = jobID[u]
              /\ jobs2Wait'[u] = jobs2Wait[u]
              /\ startTime'[u] = startTime[u] /\ endTime'[u] = endTime[u]
         /\ mappedPE'[v] = pe /\ jobID'[v] = nJobPerPE[pe]
         /\ Len(jobs) \in Nat /\ Len(jobs') = Len(jobs) + 1
         /\ jobs'[Len(jobs) + 1] = v
         /\ \A j \in Jobs : jobs'[j] = jobs[j] /\ jobs[j] # v
         /\ Jobs' = Jobs \cup {Len(jobs) + 1}
<1> USE DEF MappingInv
<1>1. v \in list
  BY DEF MapVertex, IsNext
<1>2. v \notin Mapped
  BY <1>1 DEF JobsAreMapped
<1>3. mappedPE' = [mappedPE EXCEPT ![v] = pe]
  BY DEF MapVertex
<1>4. Mapped' = Mapped \cup {v}
  BY <1>3, SchedulerAssumption DEF Mapped, Typed
<1>5. Sources(v) \subseteq Mapped
  BY SourcesAreVertices DEF MapVertex, Mapped
<1>6. \A u : Sources(u)' = Sources(u)
  BY DEF MapVertex, Sources, input
<1>7. \A u \in Vertices : u # v =>
        /\ mappedPE'[u] = mappedPE[u] /\ jobID'[u] = jobID[u]
        /\ jobs2Wait'[u] = jobs2Wait[u]
        /\ startTime'[u] = startTime[u] /\ endTime'[u] = endTime[u]
  BY DEF MapVertex, SetJobID, Typed
<1>8. mappedPE'[v] = pe /\ jobID'[v] = nJobPerPE[pe]
  BY DEF MapVertex, SetJobID, Typed
<1>9. jobs' = Append(jobs, v) /\ jobs \in Seq(Vertices)
  BY DEF MapVertex, Typed
<1>10. /\ Len(jobs) \in Nat /\ Len(jobs') = Len(jobs) + 1
       /\ jobs'[Len(jobs) + 1] = v
       /\ \A j \in Jobs : jobs'[j] = jobs[j]
  BY <1>9 DEF Jobs
<1>11. \A j \in Jobs : jobs[j] # v
  BY <1>2 DEF JobsAreMapped
<1>12. Jobs' = Jobs \cup {Len(jobs) + 1}
  BY <1>10 DEF Jobs
<1> QED
  BY <1>2, <1>4, <1>5, <1>6, <1>7, <1>8, <1>10, <1>11, <1>12

(* A mapped vertex has a PE, and is not the one that is being mapped.      *)
LEMMA MappedVertex ==
  ASSUME MappingInv, NEW p \in Mapped
  PROVE  /\ p \in Vertices /\ mappedPE[p] \in PE /\ mappedPE[p] # -1
         /\ jobID[p] \in 0 .. nJobPerPE[mappedPE[p]] - 1
         /\ startTime[p] \in Nat /\ endTime[p] \in Nat
<1>1. p \in Vertices /\ mappedPE[p] # -1
  BY DEF Mapped
<1>2. mappedPE[p] \in PE /\ startTime[p] \in Nat /\ endTime[p] \in Nat
  BY <1>1 DEF MappingInv, Typed
<1> QED
  BY <1>1, <1>2 DEF MappingInv, Numbered

LEMMA NewVertexIsUnmapped ==
  ASSUME MappingInv, NEW v \in Vertices, NEW pe \in PE, MapVertex(v, pe)
  PROVE  v \notin Mapped
BY MapVertexEffect

LEMMA MapVertexTyped ==
  ASSUME MappingInv, NEW v \in Vertices, NEW pe \in PE, MapVertex(v, pe)
  PROVE  Typed'
<1> USE DEF MappingInv
<1>1. edges' \in Graphs /\ <<execTime', constraints'>> \in Timings
  BY DEF MapVertex, input, Typed
<1>2. list' \subseteq Vertices /\ jobs' \in Seq(Vertices)
  BY DEF MapVertex, Typed
<1>3. mappedPE' \in [Vertices -> PE \cup {-1}]
  BY DEF MapVertex, Typed
<1>4. jobID' \in [Vertices -> Int] /\ nJobPerPE' \in [PE -> Nat]
  BY DEF MapVertex, SetJobID, Typed
<1>5. \A q \in PE : LastSource(v, q) \in Vertices \cup {-1}
  BY LastSourceIsLast, SourcesAreVertices DEF SourcesOn
<1>6. waitVertex' \in [Vertices -> [PE -> Vertices \cup {-1}]]
  BY <1>5 DEF MapVertex, Typed
<1>7. jobs2Wait' \in [Vertices -> [PE -> Int]]
  <2> DEFINE wait == [q \in PE |-> LastSource(v, q)]
  <2>1. [q \in PE |-> IF wait[q] = -1 THEN -1 ELSE jobID[wait[q]]] \in [PE -> Int]
    BY <1>5 DEF Typed
  <2> QED
    BY <2>1 DEF MapVertex, Typed
<1>8. lrts2Notify' \in [Vertices -> [PE -> BOOLEAN]]
  BY DEF MapVertex, Notify, Typed
<1>9. startTime' \in [Vertices -> Nat] /\ endTime' \in [Vertices -> Nat] /\ readyTime' \in [PE -> Nat]
  <2> DEFINE start == MaxOrZero({readyTime[pe], MinimumStartTime(v)})
  <2>1. start \in Nat
    BY StartIsLate
  <2>2. execTime[v][pe] \in Nat
    BY SchedulerAssumption DEF Typed
  <2>3. /\ startTime' = [startTime EXCEPT ![v] = start]
        /\ endTime' = [endTime EXCEPT ![v] = start + execTime[v][pe]]
        /\ readyTime' = [readyTime EXCEPT ![pe] =
                           IF start + execTime[v][pe] > @ THEN start + execTime[v][pe] ELSE @]
    BY DEF MapVertex, Occupy
  <2> HIDE DEF start
  <2> QED
    BY <2>1, <2>2, <2>3, SMTT(30) DEF Typed
<1> QED
  BY <1>1, <1>2, <1>3, <1>4, <1>6, <1>7, <1>8, <1>9 DEF Typed
LEMMA MapVertexJobs ==
  ASSUME MappingInv, NEW v \in Vertices, NEW pe \in PE, MapVertex(v, pe)
  PROVE  JobsAreMapped'
<1> USE DEF MappingInv
<1>1. list' = list \ {v}
  BY DEF MapVertex
<1>2. Mapped' = Vertices \ list'
  BY <1>1, MapVertexEffect DEF JobsAreMapped
<1>3. ASSUME NEW j \in Jobs' PROVE jobs'[j] \in Mapped'
  BY MapVertexEffect DEF JobsAreMapped
<1>4. ASSUME NEW u \in Mapped' PROVE \E j \in Jobs' : jobs'[j] = u
  <2>1. CASE u = v
    BY <2>1, MapVertexEffect
  <2>2. CASE u # v
    <3>1. PICK j \in Jobs : jobs[j] = u
      BY <2>2, MapVertexEffect DEF JobsAreMapped
    <3> QED
      BY <3>1, MapVertexEffect
  <2> QED
    BY <2>1, <2>2
<1>5. ASSUME NEW u \in Mapped' PROVE mappedPE'[u] \in Enabled
  <2>1. CASE u = v
    <3>1. pe \in Enabled
      BY DEF MapVertex, CanExecute
    <3> QED
      BY <2>1, <3>1, MapVertexEffect
  <2>2. CASE u # v
    <3>1. u \in Mapped /\ u \in Vertices
      BY <2>2, MapVertexEffect DEF Mapped
    <3> QED
      BY <2>2, <3>1, MapVertexEffect DEF JobsAreMapped
  <2> QED
    BY <2>1, <2>2
<1>6. ASSUME NEW i \in Jobs', NEW j \in Jobs', (jobs[i] \in Sources(jobs[j]))'
      PROVE  i < j
  <2>1. jobs'[i] \in Sources(jobs'[j])
    BY <1>6 DEF MapVertex, Sources, input
  <2>2. CASE j \in Jobs
    <3>1. jobs'[j] = jobs[j] /\ Sources(jobs[j]) \subseteq Mapped
      BY <2>2, MapVertexEffect DEF JobsAreMapped, Waits
    <3>2. i \in Jobs /\ jobs'[i] = jobs[i]
      BY <2>1, <3>1, MapVertexEffect
    <3> QED
      BY <2>1, <2>2, <3>1, <3>2 DEF JobsAreMapped
  <2>3. CASE j = Len(jobs) + 1
    <3>1. i \in Jobs
      BY <2>1, <2>3, MapVertexEffect
    <3> QED
      BY <2>3, <3>1, MapVertexEffect DEF Jobs
  <2> QED
    BY <2>2, <2>3, MapVertexEffect
<1> QED
  BY <1>2, <1>3, <1>4, <1>5, <1>6 DEF JobsAreMapped

LEMMA MapVertexNumbered ==
  ASSUME MappingInv, NEW v \in Vertices, NEW pe \in PE, MapVertex(v, pe)
  PROVE  Numbered'
<1> USE DEF MappingInv
<1>1. /\ nJobPerPE'[pe] = nJobPerPE[pe] + 1
      /\ \A q \in PE : q # pe => nJobPerPE'[q] = nJobPerPE[q]
      /\ \A q \in PE : nJobPerPE[q] \in Nat
  BY DEF MapVertex, SetJobID, Typed
<1>2. \A u \in Mapped : u \in Vertices /\ u # v /\ mappedPE[u] \in PE
  BY MappedVertex, NewVertexIsUnmapped
<1>3. ASSUME NEW u \in Mapped'
      PROVE  jobID'[u] \in 0 .. nJobPerPE'[mappedPE'[u]] - 1
  <2>1. CASE u = v
    BY <2>1, <1>1, MapVertexEffect
  <2>2. CASE u # v
    <3>1. u \in Mapped /\ jobID'[u] = jobID[u] /\ mappedPE'[u] = mappedPE[u]
      BY <2>2, <1>2, MapVertexEffect
    <3>2. jobID[u] \in 0 .. nJobPerPE[mappedPE[u]] - 1
      BY <3>1 DEF Numbered
    <3> QED
      BY <3>1, <3>2, <1>1, <1>2
  <2> QED
    BY <2>1, <2>2
<1>4. ASSUME NEW q \in PE, NEW id \in 0 .. nJobPerPE'[q] - 1
      PROVE  \E u \in Mapped' : mappedPE'[u] = q /\ jobID'[u] = id
  <2>1. CASE id \in 0 .. nJobPerPE[q] - 1
    <3>1. PICK u \in Mapped : mappedPE[u] = q /\ jobID[u] = id
      BY <2>1 DEF Numbered
    <3> QED
      BY <3>1, <1>2, MapVertexEffect
  <2>2. CASE q = pe /\ id = nJobPerPE[pe]
    BY <2>2, MapVertexEffect
  <2> QED
    BY <2>1, <2>2, <1>1
<1>5. ASSUME NEW i \in Jobs', NEW j \in Jobs', i < j, mappedPE'[jobs'[i]] = mappedPE'[jobs'[j]]
      PROVE  jobID'[jobs'[i]] < jobID'[jobs'[j]]
  <2>1. i \in Jobs
    BY <1>5, MapVertexEffect DEF Jobs
  <2>2. /\ jobs'[i] = jobs[i] /\ jobs[i] \in Mapped
        /\ jobID'[jobs[i]] = jobID[jobs[i]] /\ mappedPE'[jobs[i]] = mappedPE[jobs[i]]
    BY <2>1, <1>2, MapVertexEffect DEF JobsAreMapped
  <2>3. CASE j \in Jobs
    <3>1. /\ jobs'[j] = jobs[j] /\ jobs[j] \in Mapped
          /\ jobID'[jobs[j]] = jobID[jobs[j]] /\ mappedPE'[jobs[j]] = mappedPE[jobs[j]]
      BY <2>3, <1>2, MapVertexEffect DEF JobsAreMapped
    <3> QED
      BY <1>5, <2>1, <2>2, <2>3, <3>1 DEF Numbered
  <2>4. CASE j = Len(jobs) + 1
    <3>1. jobs'[j] = v /\ mappedPE[jobs[i]] = pe /\ jobID'[v] = nJobPerPE[pe]
      BY <1>5, <2>2, <2>4, MapVertexEffect
    <3>2. jobID[jobs[i]] \in 0 .. nJobPerPE[pe] - 1
      BY <2>2, <3>1 DEF Numbered
    <3> QED
      BY <2>2, <3>1, <3>2, <1>1
  <2> QED
    BY <2>3, <2>4, MapVertexEffect
<1> QED
  BY <1>3, <1>4, <1>5 DEF Numbered

(* The constraints of the new job: the index of the last source.           *)
LEMMA MapVertexWait ==
  ASSUME MappingInv, NEW v \in Vertices, NEW pe \in PE, MapVertex(v, pe), NEW q \in PE
  PROVE  \/ SourcesOn(v, q) = {} /\ LastSource(v, q) = -1 /\ jobs2Wait'[v][q] = -1
         \/ /\ LastSource(v, q) \in SourcesOn(v, q)
            /\ jobs2Wait'[v][q] = jobID[LastSource(v, q)]
            /\ \A r \in SourcesOn(v, q) : jobID[r] <= jobID[LastSource(v, q)]
<1> USE DEF MappingInv
<1>1. jobs2Wait'[v][q] = IF LastSource(v, q) = -1 THEN -1 ELSE jobID[LastSource(v, q)]
  BY DEF MapVertex, Typed
<1>2. LastSource(v, q) \in SourcesOn(v, q) => LastSource(v, q) # -1
  BY SourcesAreVertices, SchedulerAssumption DEF SourcesOn
<1> QED
  BY <1>1, <1>2, LastSourceIsLast

LEMMA MapVertexWaits ==
  ASSUME MappingInv, NEW v \in Vertices, NEW pe \in PE, MapVertex(v, pe)
  PROVE  Waits'
<1> USE DEF MappingInv
<1>1. \A p \in Mapped : /\ p \in Vertices /\ p # v /\ p \in Mapped' /\ mappedPE[p] \in PE
                        /\ mappedPE'[p] = mappedPE[p] /\ jobID'[p] = jobID[p]
  <2>1. \A p \in Mapped : p \in Vertices /\ p # v /\ mappedPE[p] \in PE
    BY MappedVertex, NewVertexIsUnmapped
  <2> QED
    BY <2>1, MapVertexEffect
<1>2. SUFFICES ASSUME NEW u \in Mapped'
               PROVE  /\ \A p \in Sources(u) :
                           p \in Mapped' /\ jobID'[p] <= jobs2Wait'[u][mappedPE'[p]]
                      /\ \A q \in PE :
                           \/ jobs2Wait'[u][q] = -1
                           \/ \E p \in Sources(u) :
                                mappedPE'[p] = q /\ jobID'[p] = jobs2Wait'[u][q]
  BY MapVertexEffect DEF Waits
<1>3. CASE u # v
  <2>1. u \in Mapped /\ jobs2Wait'[u] = jobs2Wait[u]
    BY <1>3, MapVertexEffect, <1>1
  <2>2. \A p \in Sources(u) : p \in Mapped
    BY <2>1 DEF Waits
  <2> QED
    BY <1>1, <2>1, <2>2 DEF Waits
<1>4. CASE u = v
  <2>1. \A p \in Sources(v) : p \in Mapped /\ p \in SourcesOn(v, mappedPE[p])
    BY MapVertexEffect DEF SourcesOn
  <2>2. ASSUME NEW p \in Sources(v) PROVE p \in Mapped' /\ jobID'[p] <= jobs2Wait'[v][mappedPE'[p]]
    BY <1>1, <2>1, MapVertexWait
  <2>3. ASSUME NEW q \in PE
        PROVE  \/ jobs2Wait'[v][q] = -1
               \/ \E p \in Sources(v) : mappedPE'[p] = q /\ jobID'[p] = jobs2Wait'[v][q]
    BY <1>1, <2>1, MapVertexWait DEF SourcesOn
  <2> QED
    BY <1>4, <2>2, <2>3
<1> QED
  BY <1>3, <1>4
(* The index on its PE determines a mapped vertex.                         *)
LEMMA IndexIsUnique ==
  ASSUME MappingInv, NEW u \in Mapped, NEW w \in Mapped,
         mappedPE[u] = mappedPE[w], jobID[u] = jobID[w]
  PROVE  u = w
<1>1. PICK i \in Jobs, j \in Jobs : jobs[i] = u /\ jobs[j] = w
  BY DEF MappingInv, JobsAreMapped
<1>2. jobID[u] \in Int /\ i \in Int /\ j \in Int
  BY <1>1 DEF MappingInv, Typed, Mapped, Jobs
<1>3. ~(i < j) /\ ~(j < i)
  BY <1>1, <1>2 DEF MappingInv, Numbered
<1> QED
  BY <1>1, <1>2, <1>3

LEMMA MapVertexNotifies ==
  ASSUME MappingInv, NEW v \in Vertices, NEW pe \in PE, MapVertex(v, pe)
  PROVE  Notifies'
<1> USE DEF MappingInv
<1>1. \A p \in Mapped : /\ p \in Vertices /\ p # v /\ mappedPE[p] \in PE
                        /\ jobID[p] \in 0 .. nJobPerPE[mappedPE[p]] - 1
  BY MappedVertex, NewVertexIsUnmapped
<1>2. \A p \in Mapped : mappedPE'[p] = mappedPE[p] /\ jobID'[p] = jobID[p]
                        /\ jobs2Wait'[p] = jobs2Wait[p]
  BY <1>1, MapVertexEffect
<1>3. \A i \in PE : SourcesOn(v, i) \subseteq Mapped /\ \A p \in SourcesOn(v, i) : mappedPE[p] = i
  BY MapVertexEffect DEF SourcesOn
<1>4. \A i \in PE : LastSource(v, i) \in Vertices => LastSource(v, i) \in SourcesOn(v, i)
  BY LastSourceIsLast, SchedulerAssumption
<1> DEFINE Notified(p, q) ==
             p \in Mapped /\ \E u \in Mapped : mappedPE[u] = q /\ jobs2Wait[u][mappedPE[p]] = jobID[p]
<1>5. SUFFICES ASSUME NEW p \in Vertices, NEW q \in PE
               PROVE  lrts2Notify'[p][q] <=> Notified(p, q)'
  BY DEF Notifies
<1>6. lrts2Notify'[p][q] <=> lrts2Notify[p][q] \/ (q = pe /\ \E i \in PE : LastSource(v, i) = p)
  BY DEF MapVertex, Notify
<1>7. lrts2Notify[p][q] <=> Notified(p, q)
  BY DEF Notifies
<1>8. CASE p \notin Mapped'
  BY <1>3, <1>4, <1>6, <1>7, <1>8, MapVertexEffect
<1>9. CASE p = v
  <2>1. ~lrts2Notify'[p][q]
    BY <1>1, <1>3, <1>4, <1>6, <1>7, <1>9, MapVertexEffect
  <2>2. ASSUME NEW u \in Mapped' PROVE jobs2Wait'[u][pe] # nJobPerPE[pe]
    <3>1. nJobPerPE[pe] \in Nat
      BY DEF Typed
    <3>2. CASE u = v
      BY <3>1, <3>2, <1>1, <1>3, MapVertexWait
    <3>3. CASE u \in Mapped
      <4>1. \/ jobs2Wait[u][pe] = -1
            \/ \E x \in Mapped : mappedPE[x] = pe /\ jobID[x] = jobs2Wait[u][pe]
        BY <3>3 DEF Waits
      <4> QED
        BY <4>1, <3>1, <3>3, <1>1, <1>2
    <3> QED
      BY <3>2, <3>3, MapVertexEffect
  <2> QED
    BY <2>1, <2>2, <1>9, MapVertexEffect
<1>10. CASE p \in Mapped
  <2>1. Notified(p, q)' <=>
          \/ Notified(p, q)
          \/ q = pe /\ jobs2Wait'[v][mappedPE[p]] = jobID[p]
    BY <1>1, <1>2, <1>10, MapVertexEffect
  <2>2. ASSUME NEW i \in PE, LastSource(v, i) = p
        PROVE  jobs2Wait'[v][mappedPE[p]] = jobID[p]
    BY <2>2, <1>3, <1>4, MapVertexWait, SchedulerAssumption
  <2>3. ASSUME jobs2Wait'[v][mappedPE[p]] = jobID[p]
        PROVE  LastSource(v, mappedPE[p]) = p
    <3> DEFINE i == mappedPE[p]
    <3>1. i \in PE /\ jobID[p] # -1
      BY <1>1, <1>10 DEF Typed
    <3>2. LastSource(v, i) \in SourcesOn(v, i) /\ jobID[LastSource(v, i)] = jobID[p]
      BY <2>3, <3>1, MapVertexWait
    <3> QED
      BY <3>1, <3>2, <1>3, <1>10, IndexIsUnique
  <2> QED
    BY <2>1, <2>2, <2>3, <1>1, <1>6, <1>7, <1>10
<1> QED
  BY <1>8, <1>9, <1>10, MapVertexEffect

LEMMA MapVertexTimed ==
  ASSUME MappingInv, NEW v \in Vertices, NEW pe \in PE, MapVertex(v, pe)
  PROVE  Timed'
<1> USE DEF MappingInv
<1> DEFINE start == MaxOrZero({readyTime[pe], MinimumStartTime(v)})
           end == start + execTime[v][pe]
<1>1. /\ start \in Nat /\ readyTime[pe] <= start
      /\ \A p \in Sources(v) : endTime[p] <= start
  BY StartIsLate
<1>2. end \in Nat /\ start <= end
  BY <1>1, SchedulerAssumption, SMTT(30) DEF Typed
<1>3. startTime'[v] = start /\ endTime'[v] = end
  BY DEF MapVertex, Typed
<1>4. readyTime' = [readyTime EXCEPT ![pe] = IF end > @ THEN end ELSE @]
  BY DEF MapVertex, Occupy
<1> HIDE DEF start, end
<1>5. /\ end <= readyTime'[pe]
      /\ \A q \in PE : readyTime[q] \in Nat /\ readyTime'[q] \in Nat /\ readyTime[q] <= readyTime'[q]
  BY <1>2, <1>4 DEF Typed
<1>6. \A p \in Mapped :
        /\ p \in Vertices /\ p # v /\ mappedPE[p] \in PE
        /\ startTime[p] \in Nat /\ endTime[p] \in Nat
  BY MappedVertex, NewVertexIsUnmapped
<1>7. \A p \in Mapped : /\ mappedPE'[p] = mappedPE[p]
                        /\ startTime'[p] = startTime[p] /\ endTime'[p] = endTime[p]
  BY <1>6, MapVertexEffect
<1>8. ASSUME NEW u \in Mapped' PROVE endTime'[u] <= readyTime'[mappedPE'[u]]
  <2>1. CASE u = v
    BY <2>1, <1>3, <1>5, MapVertexEffect
  <2>2. CASE u \in Mapped
    <3>1. endTime[u] <= readyTime[mappedPE[u]]
      BY <2>2 DEF Timed
    <3> QED
      BY <2>2, <3>1, <1>5, <1>6, <1>7
  <2> QED
    BY <2>1, <2>2, MapVertexEffect
<1>9. ASSUME NEW u \in Mapped', NEW p \in Sources(u)' PROVE endTime'[p] <= startTime'[u]
  <2>1. CASE u = v
    BY <2>1, <1>1, <1>3, <1>7, MapVertexEffect
  <2>2. CASE u \in Mapped
    <3>1. p \in Sources(u) /\ p \in Mapped /\ endTime[p] <= startTime[u]
      BY <2>2, MapVertexEffect DEF Timed, Waits
    <3> QED
      BY <2>2, <3>1, <1>7
  <2> QED
    BY <2>1, <2>2, MapVertexEffect
<1>10. ASSUME NEW i \in Jobs', NEW j \in Jobs', i < j, mappedPE'[jobs'[i]] = mappedPE'[jobs'[j]]
       PROVE  endTime'[jobs'[i]] <= startTime'[jobs'[j]]
  <2>1. i \in Jobs
    BY <1>10, MapVertexEffect DEF Jobs
  <2>2. jobs'[i] = jobs[i] /\ jobs[i] \in Mapped
    BY <2>1, MapVertexEffect DEF JobsAreMapped
  <2>3. CASE j \in Jobs
    <3>1. jobs'[j] = jobs[j] /\ jobs[j] \in Mapped
      BY <2>3, MapVertexEffect DEF JobsAreMapped
    <3> QED
      BY <1>7, <1>10, <2>1, <2>2, <2>3, <3>1 DEF Timed
  <2>4. CASE j = Len(jobs) + 1
    <3>1. jobs'[j] = v /\ mappedPE[jobs[i]] = pe
      BY <1>7, <1>10, <2>2, <2>4, MapVertexEffect
    <3>2. endTime[jobs[i]] <= readyTime[pe]
      BY <2>2, <3>1 DEF Timed
    <3>3. readyTime[pe] \in Nat /\ endTime[jobs[i]] \in Nat
      BY <1>5, <1>6, <2>2
    <3> QED
      BY <1>1, <1>3, <1>7, <2>2, <3>1, <3>2, <3>3
  <2> QED
    BY <2>3, <2>4, MapVertexEffect
<1> QED
  BY <1>8, <1>9, <1>10 DEF Timed
-----------------------------------------------------------------------------
(* The invariant of the mapping, and the schedules that it gives.          *)

(* The other actions touch nothing that the invariant speaks of.           *)
LEMMA MappingStutter ==
  ASSUME MappingInv,
         UNCHANGED <<input, list, jobs, mappedPE, jobID, waitVertex, jobs2Wait, lrts2Notify,
                     startTime, endTime, nJobPerPE, readyTime>>
  PROVE  MappingInv'
<1>1. UNCHANGED <<Mapped, Jobs>> /\ \A u : UNCHANGED Sources(u)
  BY DEF Mapped, Jobs, Sources, input
<1>2. Typed'
  BY DEF MappingInv, Typed, input
<1>3. JobsAreMapped' /\ Numbered' /\ Waits' /\ Notifies' /\ Timed'
  BY <1>1 DEF MappingInv, JobsAreMapped, Numbered, Waits, Notifies, Timed
<1> QED
  BY <1>2, <1>3 DEF MappingInv

LEMMA MappingNext == MappingInv /\ [Next]_vars => MappingInv'
<1> SUFFICES ASSUME MappingInv, [Next]_vars PROVE MappingInv'
  OBVIOUS
<1>1. CASE ComputeScheduleLevels
  BY <1>1, MappingStutter DEF ComputeScheduleLevels
<1>2. CASE \E v \in Vertices : NullExecutionTime(v) \/ NoSlaveFound(v)
  BY <1>2, MappingStutter DEF NullExecutionTime, NoSlaveFound
<1>3. CASE \E v \in Vertices, pe \in PE : MapVertex(v, pe)
  BY <1>3, MapVertexTyped, MapVertexJobs, MapVertexNumbered, MapVertexWaits,
     MapVertexNotifies, MapVertexTimed DEF MappingInv
<1>4. CASE UNCHANGED vars
  BY <1>4, MappingStutter DEF vars
<1> QED
  BY <1>1, <1>2, <1>3, <1>4 DEF Next

(* The inductive invariant of Scheduler::schedule: whatever the graph, the *)
(* times and the choice of PEs, the jobs are the vertices mapped so far,   *)
(* numbered per PE in the order of mapping, and their constraints and the  *)
(* times of the PEs are those of their sources.                            *)
THEOREM MappingIsKept == Spec => []MappingInv
<1>1. Init => MappingInv
  BY MappingInit
<1>2. MappingInv /\ [Next]_vars => MappingInv'
  BY MappingNext
<1> QED
  BY <1>1, <1>2, PTL DEF Spec

(* The schedule that mapVertex has made so far satisfies what an LRT       *)
(* relies on.                                                              *)
LEMMA MappingGivesSchedule == MappingInv => ScheduleIsSound
<1> SUFFICES ASSUME MappingInv PROVE ScheduleIsSound
  OBVIOUS
<1> USE DEF MappingInv, OfJobs
<1> DEFINE mapped == OfJobs(mappedPE)
           id == OfJobs(jobID)
           wait == OfJobs(jobs2Wait)
<1>1. \A j \in Jobs : jobs[j] \in Mapped
  BY DEF JobsAreMapped
<1>2. \A u \in Mapped : \E j \in Jobs : jobs[j] = u
  BY DEF JobsAreMapped
<1>3. \A u \in Mapped : u \in Vertices /\ mappedPE[u] \in PE
  BY DEF Mapped, Typed
<1>4. \A j \in Jobs, p \in Jobs : p \in preds[j] <=> jobs[p] \in Sources(jobs[j])
  BY DEF preds
<1>5. \A j \in Jobs : preds[j] \subseteq Jobs
  BY DEF preds
<1>6. ConsecutiveIDs(Jobs, PE, mapped, id, nJobPerPE)
  <2>1. \A j \in Jobs : id[j] \in 0 .. nJobPerPE[mapped[j]] - 1
    BY <1>1 DEF Numbered
  <2>2. \A pe \in PE : \A i \in 0 .. nJobPerPE[pe] - 1 :
          \E j \in Jobs : mapped[j] = pe /\ id[j] = i
    BY <1>2 DEF Numbered
  <2>3. \A i, j \in Jobs : mapped[i] = mapped[j] /\ i < j => id[i] < id[j]
    BY DEF Numbered
  <2> QED
    BY <2>1, <2>2, <2>3 DEF ConsecutiveIDs
<1>7. WaitsCoverPreds(Jobs, preds, mapped, id, wait)
  BY <1>1, <1>4, <1>5 DEF WaitsCoverPreds, Waits
<1>8. WaitsAreForPreds(Jobs, PE, preds, mapped, id, wait)
  <2> SUFFICES ASSUME NEW j \in Jobs, NEW pe \in PE, wait[j][pe] # -1
               PROVE  \E p \in preds[j] : mapped[p] = pe /\ id[p] = wait[j][pe]
    BY DEF WaitsAreForPreds
  <2>1. PICK s \in Sources(jobs[j]) : mappedPE[s] = pe /\ jobID[s] = jobs2Wait[jobs[j]][pe]
    BY <1>1 DEF Waits
  <2>2. PICK p \in Jobs : jobs[p] = s
    BY <1>1, <1>2, <2>1 DEF Waits
  <2> QED
    BY <1>4, <2>1, <2>2
<1>9. NotifiesMatchWaits(Jobs, PE, mapped, id, wait, OfJobs(lrts2Notify))
  <2> SUFFICES ASSUME NEW p \in Jobs, NEW pe \in PE
               PROVE  lrts2Notify[jobs[p]][pe] <=>
                        \E j \in Jobs : mapped[j] = pe /\ wait[j][mapped[p]] = id[p]
    BY DEF NotifiesMatchWaits
  <2>1. lrts2Notify[jobs[p]][pe] <=>
          \E u \in Mapped : mappedPE[u] = pe /\ jobs2Wait[u][mappedPE[jobs[p]]] = jobID[jobs[p]]
    BY <1>1, <1>3 DEF Notifies
  <2> QED
    BY <2>1, <1>1, <1>2
<1>10. mapped \in [Jobs -> Enabled]
  BY <1>1 DEF JobsAreMapped
<1>11. \A j \in Jobs : \A p \in preds[j] : p < j
  BY <1>4, <1>5 DEF JobsAreMapped
<1> QED
  BY <1>6, <1>7, <1>8, <1>9, <1>10, <1>11 DEF ScheduleIsSound

(* Every schedule keeps the constraints that module StaticRuntime assumes  *)
(* of the schedule that the LRTs run.                                      *)
THEOREM ScheduleHolds == Spec => []ScheduleIsSound
<1>1. MappingInv => ScheduleIsSound
  BY MappingGivesSchedule
<1> QED
  BY <1>1, MappingIsKept, PTL

(* "Check core concurrency" and "Check Communications" of SRDAGSchedule:   *)
(* no two jobs of a PE overlap, and a job starts after its sources end.    *)
THEOREM TimesHold == Spec => []TimesAreSound
<1>1. MappingInv => TimesAreSound
  <2> SUFFICES ASSUME MappingInv PROVE TimesAreSound
    OBVIOUS
  <2> USE DEF MappingInv
  <2>1. \A j \in Jobs : jobs[j] \in Mapped
    BY DEF JobsAreMapped
  <2>2. \A j \in Jobs : \A p \in Sources(jobs[j]) : endTime[p] <= startTime[jobs[j]]
    BY <2>1 DEF Timed
  <2> QED
    BY <2>2 DEF TimesAreSound, Timed
<1> QED
  BY <1>1, MappingIsKept, PTL
-----------------------------------------------------------------------------
(* The schedule levels.  On a graph without cycle the recursion of         *)
(* computeScheduleLevel has a solution, its levels are natural numbers,    *)
(* and a vertex is above its successors.                                   *)

LevelOf(lvl, v) == MaxOrZero({lvl[s] + MinExecTime(s) : s \in Successors(v)})
SolvesOn(C, lvl) == lvl = [v \in C |-> LevelOf(lvl, v)]
LevelsAreKept ==
  \/ \A v \in Vertices : schedLvl[v] = -1
  \/ SolvesOn(Vertices, schedLvl) /\ \A v \in Vertices : ~HasNullTime(v)

LEMMA SuccessorsAreVertices ==
  ASSUME Typed, NEW v
  PROVE  Successors(v) \subseteq Vertices /\ IsFiniteSet(Successors(v))
<1>1. \A e \in edges : e.snk \in Vertices
  BY SchedulerAssumption DEF Typed, Edge
<1>2. Successors(v) \subseteq Vertices
  BY <1>1 DEF Successors
<1> QED
  BY <1>2, FS_Subset, SchedulerAssumption

(* The fastest execution of a vertex that may run somewhere takes time, if *)
(* the vertex is a successor and has passed the check for null times.      *)
LEMMA MinExecTimeIsPositive ==
  ASSUME Typed, RunSomewhere(constraints), NEW v \in Vertices,
         ~HasNullTime(v), \E e \in edges : e.snk = v
  PROVE  MinExecTime(v) \in Nat \ {0}
<1> DEFINE times == {execTime[v][q] : q \in {p \in PE : IsExecutableOn(v, p)}}
<1>1. times \subseteq Nat \ {0}
  BY SchedulerAssumption DEF HasNullTime, Typed
<1>2. times # {}
  <2>1. constraints \in [Vertices -> SUBSET PE]
    BY SchedulerAssumption DEF Typed
  <2>2. PICK q \in PE : q \in constraints[v]
    BY <2>1 DEF RunSomewhere
  <2> QED
    BY <2>2 DEF IsExecutableOn
<1>3. \E t \in times : \A u \in times : t <= u
  BY <1>1, <1>2, LeastNumber
<1>4. MinExecTime(v) = CHOOSE t \in times : \A u \in times : t <= u
  BY <1>2 DEF MinExecTime
<1>5. MinExecTime(v) \in times
  BY <1>3, <1>4
<1> QED
  BY <1>1, <1>5

(* The recursion has a solution: the largest set of vertices that is       *)
(* closed under successors and has one is the set of all vertices.         *)
LEMMA LevelsExist ==
  ASSUME Typed, IsAcyclic(edges)
  PROVE  \E lvl : SolvesOn(Vertices, lvl)
<1> DEFINE Closed(C) == \A v \in C : Successors(v) \subseteq C
           Solved(C) == Closed(C) /\ \E lvl : SolvesOn(C, lvl)
           sizes == {n \in 0 .. Cardinality(Vertices) :
                       \E C \in SUBSET Vertices : Cardinality(C) = n /\ Solved(C)}
<1>1. Cardinality(Vertices) \in Nat
  BY SchedulerAssumption, FS_CardinalityType
<1>2. \A C \in SUBSET Vertices :
        /\ IsFiniteSet(C) /\ Cardinality(C) \in Nat
        /\ Cardinality(C) <= Cardinality(Vertices)
  BY SchedulerAssumption, FS_Subset, FS_CardinalityType
<1>3. Solved({})
  <2>1. SolvesOn({}, [v \in {} |-> 0])
    BY DEF SolvesOn
  <2> QED
    BY <2>1
<1>4. sizes # {}
  <2>1. {} \in SUBSET Vertices
    OBVIOUS
  <2> QED
    BY <2>1, <1>2, <1>3
<1>5. sizes \subseteq Int /\ IsFiniteSet(sizes)
  <2>1. IsFiniteSet(0 .. Cardinality(Vertices))
    BY <1>1, FS_Interval
  <2>2. sizes \in SUBSET (0 .. Cardinality(Vertices))
    OBVIOUS
  <2>3. IsFiniteSet(sizes)
    BY <2>1, <2>2, FS_Subset
  <2> QED
    BY <1>1, <2>2, <2>3
<1>6. PICK n \in sizes : \A k \in sizes : k <= n
  <2> HIDE DEF sizes
  <2> QED
    BY <1>4, <1>5, GreatestNumber
<1>7. PICK C \in SUBSET Vertices : Cardinality(C) = n /\ Solved(C)
  BY <1>6
<1>8. PICK lvl : SolvesOn(C, lvl)
  BY <1>7
<1>9. SUFFICES ASSUME C # Vertices PROVE FALSE
  BY <1>8
<1>10. PICK v \in Vertices \ C : \A e \in edges : e.src = v => e.snk \notin Vertices \ C
  BY <1>9 DEF IsAcyclic
<1>11. Successors(v) \subseteq C
  BY <1>10, SuccessorsAreVertices DEF Successors
<1> DEFINE C2 == C \cup {v}
           lvl2 == [u \in C2 |-> IF u = v THEN LevelOf(lvl, v) ELSE lvl[u]]
<1>12. Closed(C2)
  BY <1>7, <1>11
<1>13. \A u \in C2 : \A s \in Successors(u) : lvl2[s] = lvl[s]
  BY <1>7, <1>10, <1>11
<1>14. \A u \in C2 : LevelOf(lvl2, u) = LevelOf(lvl, u)
  <2> SUFFICES ASSUME NEW u \in C2 PROVE LevelOf(lvl2, u) = LevelOf(lvl, u)
    OBVIOUS
  <2> HIDE DEF lvl2
  <2>1. {lvl2[s] + MinExecTime(s) : s \in Successors(u)}
          = {lvl[s] + MinExecTime(s) : s \in Successors(u)}
    BY <1>13
  <2> QED
    BY <2>1 DEF LevelOf
<1>15. \A u \in C : lvl[u] = LevelOf(lvl, u)
  BY <1>8 DEF SolvesOn
<1>16. SolvesOn(C2, lvl2)
  <2>1. \A u \in C2 : lvl2[u] = LevelOf(lvl2, u)
    BY <1>14, <1>15
  <2> QED
    BY <2>1 DEF SolvesOn
<1>17. C2 \in SUBSET Vertices /\ Cardinality(C2) = n + 1
  BY <1>2, <1>7, <1>10, FS_AddElement
<1>18. n + 1 \in sizes
  <2>1. n + 1 \in 0 .. Cardinality(Vertices)
    BY <1>1, <1>2, <1>17
  <2> QED
    BY <2>1, <1>12, <1>16, <1>17
<1> QED
  BY <1>6, <1>18

LEMMA LevelsSolve ==
  ASSUME Typed, IsAcyclic(edges)
  PROVE  SolvesOn(Vertices, Levels)
<1>1. \E lvl : lvl = [v \in Vertices |-> MaxOrZero({lvl[s] + MinExecTime(s) : s \in Successors(v)})]
  BY LevelsExist DEF SolvesOn, LevelOf
<1> QED
  BY <1>1 DEF Levels, SolvesOn, LevelOf

(* The levels that are compared: natural numbers that fall along the edges.*)
LEMMA LevelsFall ==
  ASSUME Typed, IsAcyclic(edges), RunSomewhere(constraints),
         \A v \in Vertices : ~HasNullTime(v),
         NEW lvl, SolvesOn(Vertices, lvl)
  PROVE  \A v \in Vertices : /\ lvl[v] \in Nat
                             /\ \A p \in AllSources(v) : p \in Vertices /\ lvl[v] < lvl[p]
<1> DEFINE above(v) == {lvl[s] + MinExecTime(s) : s \in Successors(v)}
<1>1. \A v \in Vertices : lvl[v] = MaxOrZero(above(v))
  BY DEF SolvesOn, LevelOf
<1>2. \A s \in Vertices : (\E e \in edges : e.snk = s) => MinExecTime(s) \in Nat \ {0}
  BY MinExecTimeIsPositive
<1>3. ASSUME NEW v \in Vertices PROVE IsFiniteSet(above(v)) /\ Successors(v) \subseteq Vertices
  <2> DEFINE f == [s \in Vertices |-> lvl[s] + MinExecTime(s)]
  <2>1. Successors(v) \subseteq Vertices /\ IsFiniteSet(Successors(v))
    BY SuccessorsAreVertices
  <2>2. above(v) = {f[s] : s \in Successors(v)}
    BY <2>1
  <2> HIDE DEF f
  <2> QED
    BY <2>1, <2>2, ImageIsFinite
<1>4. \A v \in Vertices : lvl[v] \in Nat
  <2> DEFINE U == {v \in Vertices : lvl[v] \notin Nat}
  <2> SUFFICES ASSUME U # {} PROVE FALSE
    OBVIOUS
  <2>1. PICK v \in U : \A e \in edges : e.src = v => e.snk \notin U
    BY DEF IsAcyclic
  <2>2. \A s \in Successors(v) : s \in Vertices /\ lvl[s] \in Nat
    BY <1>3, <2>1 DEF Successors
  <2>3. above(v) \subseteq Int
    BY <1>2, <2>2 DEF Successors
  <2>4. MaxOrZero(above(v)) \in Nat
    BY <1>3, <2>1, <2>3, MaxOrZeroIsMax
  <2> QED
    BY <1>1, <2>1, <2>4
<1>5. ASSUME NEW v \in Vertices, NEW p \in AllSources(v)
      PROVE  p \in Vertices /\ lvl[v] < lvl[p]
  <2>1. p \in Vertices /\ v \in Successors(p)
    BY SchedulerAssumption DEF AllSources, Successors, Typed, Edge
  <2>2. ASSUME NEW s \in Successors(p) PROVE lvl[s] + MinExecTime(s) \in Int
    <3>1. s \in Vertices
      BY SuccessorsAreVertices
    <3>2. lvl[s] \in Nat /\ MinExecTime(s) \in Nat
      BY <3>1, <1>2, <1>4 DEF Successors
    <3> QED
      BY <3>2
  <2>3. above(p) \subseteq Int
    BY <2>2
  <2>4. lvl[v] + MinExecTime(v) \in above(p)
    BY <2>1
  <2>5. lvl[v] + MinExecTime(v) <= lvl[p]
    BY <1>1, <1>3, <2>1, <2>3, <2>4, MaxOrZeroIsMax
  <2>6. MinExecTime(v) \in Nat \ {0}
    BY <1>2 DEF AllSources
  <2> QED
    BY <1>4, <2>1, <2>5, <2>6
<1> QED
  BY <1>4, <1>5

LEMMA LevelsNext ==
  ASSUME InputsAreSound, MappingInv, LevelsAreKept, [Next]_vars
  PROVE  LevelsAreKept'
<1>1. UNCHANGED input
  BY DEF Next, vars, ComputeScheduleLevels, NullExecutionTime, NoSlaveFound, MapVertex
<1>2. \A v : Successors(v)' = Successors(v) /\ MinExecTime(v)' = MinExecTime(v)
  BY <1>1 DEF Successors, MinExecTime, IsExecutableOn, input
<1>3. ASSUME \A v \in Vertices : ~HasNullTime(v) PROVE (\A v \in Vertices : ~HasNullTime(v))'
  BY <1>1, <1>3 DEF HasNullTime, IsExecutableOn, input
<1>4. CASE ComputeScheduleLevels
  <2>1. SolvesOn(Vertices, Levels) /\ schedLvl' = Levels
    BY <1>4, LevelsSolve DEF ComputeScheduleLevels, MappingInv, InputsAreSound, Typed
  <2>2. SolvesOn(Vertices, schedLvl)'
    BY <2>1, <1>2, ZenonT(60) DEF SolvesOn, LevelOf
  <2>3. \A v \in Vertices : ~HasNullTime(v)
    BY <1>4 DEF ComputeScheduleLevels
  <2> QED
    BY <2>2, <2>3, <1>3 DEF LevelsAreKept
<1>5. CASE UNCHANGED schedLvl
  <2>1. CASE \A v \in Vertices : schedLvl[v] = -1
    BY <1>5, <2>1 DEF LevelsAreKept
  <2>2. CASE SolvesOn(Vertices, schedLvl) /\ \A v \in Vertices : ~HasNullTime(v)
    <3>1. SolvesOn(Vertices, schedLvl)'
      BY <1>2, <1>5, <2>2, ZenonT(60) DEF SolvesOn, LevelOf
    <3> QED
      BY <1>3, <2>2, <3>1 DEF LevelsAreKept
  <2> QED
    BY <2>1, <2>2 DEF LevelsAreKept
<1> QED
  BY <1>4, <1>5 DEF Next, vars, NullExecutionTime, NoSlaveFound, MapVertex

(* On graphs without cycle, the order of the levels is topological: when   *)
(* a vertex is next in the list, all of its sources are mapped, and        *)
(* mapVertex never meets a source without PE.                              *)
THEOREM SourcesHold ==
  ASSUME InputsAreSound
  PROVE  Spec => []SourcesAreMapped
<1>1. Init => LevelsAreKept
  BY DEF Init, LevelsAreKept
<1>2. MappingInv /\ LevelsAreKept /\ [Next]_vars => LevelsAreKept'
  BY LevelsNext
<1>3. MappingInv /\ LevelsAreKept => SourcesAreMapped
  <2> SUFFICES ASSUME MappingInv, LevelsAreKept,
                      NEW v \in Vertices, schedLvl[v] # -1, IsNext(v),
                      NEW p \in AllSources(v)
               PROVE  mappedPE[p] # -1
    BY DEF SourcesAreMapped
  <2>1. SolvesOn(Vertices, schedLvl) /\ \A u \in Vertices : ~HasNullTime(u)
    BY DEF LevelsAreKept
  <2>2. IsAcyclic(edges) /\ RunSomewhere(constraints) /\ Typed
    BY DEF InputsAreSound, MappingInv, Typed
  <2>3. p \in Vertices /\ schedLvl[p] \in Nat /\ schedLvl[v] \in Nat /\ schedLvl[v] < schedLvl[p]
    BY <2>1, <2>2, LevelsFall
  <2>4. p \notin list
    BY <2>3 DEF IsNext
  <2> QED
    BY <2>3, <2>4 DEF MappingInv, JobsAreMapped, Mapped
<1> QED
  BY <1>1, <1>2, <1>3, MappingIsKept, PTL DEF Spec
=============================================================================

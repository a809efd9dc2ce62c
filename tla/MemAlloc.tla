------------------------------- MODULE MemAlloc -------------------------------
(***************************************************************************)
(* The shared memory of an iteration.  Scheduler::schedule gives every edge *)
(* of the single-rate graph an address, which the jobs of its two vertices *)
(* get as a FIFO.  DummyMemAlloc puts each edge behind the one before.     *)
(* SpecialActorMemAlloc first lets the edges around a fork, a join or a    *)
(* broadcast share their place, so that the special actor has nothing to   *)
(* copy.  An address is never used twice in an iteration, so two edges may *)
(* share a place if, and only if, the same tokens belong there.            *)
(*                                                                         *)
(* The lists of vertices are in the order of a Set, which the model fixes. *)
(***************************************************************************)
EXTENDS SingleRate

CONSTANTS MinAlloc, \* getMinAllocSize, in tokens
          MemSize   \* memSize_; memStart_ is 0

ASSUME MemAllocAssumption == MinAlloc \in Nat \ {0} /\ MemSize \in Nat

VARIABLES memAlloc, \* memAlloc_: "none" before it is used, then "dummy" or "special actor"
          alloc     \* alloc_ of each edge, -1: none
memVars == <<memAlloc, alloc>>

MemInit == Init /\ memAlloc = "none" /\ alloc = <<>>

(* An allocation under way: the addresses, and currentMem_.                *)
NoAlloc == [at |-> [e \in edges |-> -1], currentMem |-> 0]
IsPlaced(s, e) == s.at[e] # -1

(* Faulty variant: the size is rounded down.                               *)
GetAlignSizeDown(size) == (size \div MinAlloc) * MinAlloc
GetAlignSize(size) == Ceil(size, MinAlloc) * MinAlloc

AllocEdge(s, e) ==
  IF IsPlaced(s, e) \/ e.rate = 0 THEN s
  ELSE [at |-> [s.at EXCEPT ![e] = s.currentMem],
        currentMem |-> s.currentMem + GetAlignSize(e.rate)]

(* The edge on the one side of a special actor and those on the other get  *)
(* one place: that of the one, else that of the first which has one, else  *)
(* a new one.  Edges that have a place keep it.                            *)
Share(s, one, many, offset) ==
  LET placed == {i \in DOMAIN many : IsPlaced(s, many[i])}
      t == IF placed = {} THEN AllocEdge(s, one) ELSE s
      place == t.at[IF IsPlaced(s, one) \/ placed = {} THEN one ELSE many[Min(placed)]]
      new == DOMAIN many \ placed
  IN [t EXCEPT !.at = (one :> place) @@ [e \in {many[i] : i \in new} |->
                         place + offset[CHOOSE i \in new : many[i] = e]] @@ @]

Offsets(es) == [i \in DOMAIN es |-> Before(Rates(es), i)]
AllocFork(fork, s) == Share(s, Ins(fork)[1], Outs(fork), Offsets(Outs(fork)))
AllocJoin(join, s) == Share(s, Outs(join)[1], Ins(join), Offsets(Ins(join)))
AllocBroadcast(br, s) == Share(s, Ins(br)[1], Outs(br), [i \in DOMAIN Outs(br) |-> 0])
AllocOuts(v, s) == FoldLeft(AllocEdge, s, Outs(v))

DummyAlloc == FoldSet(AllocOuts, NoAlloc, vertices)
SpecialActorAlloc ==
  LET forks == FoldSet(AllocFork, NoAlloc, Of("fork"))
      joins == FoldSet(AllocJoin, forks, Of("join"))
      broadcasts == FoldSet(AllocBroadcast, joins, Of("broadcast"))
  IN FoldSet(AllocOuts, broadcasts, vertices)

(* With too little memory allocEdge throws.                                *)
Alloc ==
  /\ phase = "done"
  /\ memAlloc' \in {"dummy", "special actor"}
  /\ \E s \in {IF memAlloc' = "dummy" THEN DummyAlloc ELSE SpecialActorAlloc} :
       \/ s.currentMem <= MemSize /\ phase' = "allocated" /\ alloc' = s.at
       \/ s.currentMem > MemSize /\ phase' = "full" /\ UNCHANGED alloc
  /\ UNCHANGED <<pisdf, job, brv, linked, vertices, edges>>

MemNext == Alloc \/ (Next /\ UNCHANGED memVars)
MemSpec == MemInit /\ [][MemNext]_<<vars, memVars>> /\ WF_vars(Optims)

-----------------------------------------------------------------------------
(* Where no address has two tokens, no vertex, in whatever order they run, *)
(* overwrites what another has still to read; and every token has a place  *)
(* within the shared memory.                                               *)
TokensHavePlaces ==
  LET full == {e \in edges : e.rate > 0}
      at(e) == {<<alloc[e] + k, Read[e.snk, e.snkPort, k]>> : k \in 0..(e.rate - 1)}
      places == UNION {at(e) : e \in full}
  IN /\ \A e \in full : 0 <= alloc[e] /\ alloc[e] + e.rate <= MemSize
     /\ \A p, q \in places : p[1] = q[1] => p = q

(* Where no place is taken from an edge that is not the first of its       *)
(* special actor: no fork before a fork or a join, no join before a join.  *)
IsSimple ==
  \A e \in edges : <<e.src.type, e.snk.type>> \notin {<<"fork", "fork">>, <<"fork", "join">>, <<"join", "join">>}

(* The dummy allocator always, and the other one where no special actor is *)
(* placed by the offset edge of another, give every token a place of its   *)
(* own until the end of the iteration.                                     *)
SharedPlacesAgree ==
  phase = "allocated" /\ (memAlloc = "dummy" \/ IsSimple) => TokensHavePlaces

(* Every allocation gives every token a place of its own.                  *)
PlacesAlwaysAgree == phase = "allocated" => TokensHavePlaces
=============================================================================

--------------------------- MODULE MCSRDAGScheduler ---------------------------
(* SRDAGScheduler on all graphs with four vertices, where the edge from 1   *)
(* to 3 may also be empty.  Edges go from smaller to larger numbers: the    *)
(* scheduler does not look at them, so this loses no acyclic graph.         *)
EXTENDS SRDAGScheduler

CONSTANTS MaxVertex, MaxPE

MCVertices == 1..MaxVertex
MCPE == 0..MaxPE
MCEnabled == MCPE \ {MaxPE}

(* Between two vertices: no edge, an edge with data, or an empty one.        *)
Pairs == {p \in MCVertices \X MCVertices : p[1] < p[2]}
Kinds == {k \in [Pairs -> {"none", "data", "empty"}] :
            \A p \in Pairs : k[p] = "empty" => p = <<1, 3>>}
MCGraphs ==
  { {[src |-> p[1], snk |-> p[2], empty |-> kind[p] = "empty"] :
       p \in {q \in Pairs : kind[q] # "none"}} : kind \in Kinds }

(* The virtual IDs of the two enabled PEs are swapped.                       *)
MCVirtualID == [q \in MCPE |-> IF q = MaxPE THEN q ELSE 1 - q]

(* A vertex is short, slower on PE 1 and executed anywhere, or long and not  *)
(* executed on ID 1; the disabled PE is as fast as PE 0.                     *)
ShortOrLong == {<<1, MCPE>>, <<2, MCPE \ {1}>>}
TimeOf(kind) == [q \in MCPE |-> IF q = 1 THEN kind[1] + 1 ELSE kind[1]]
MCTimings ==
  { <<[v \in MCVertices |-> TimeOf(kind[v])], [v \in MCVertices |-> kind[v][2]]>> :
    kind \in [MCVertices -> ShortOrLong] }

(* Or all are short, vertex 2 may run on the disabled PE only or anywhere,   *)
(* and vertex 3 takes no time on PE 1, whose ID may be among its IDs or not.  *)
MCOddTimings ==
  { <<[v \in MCVertices |-> [TimeOf(<<1>>) EXCEPT ![1] = IF v = 3 THEN 0 ELSE @]],
      [v \in MCVertices |-> IF v = 2 THEN ids2 ELSE IF v = 3 THEN ids3 ELSE MCPE]>> :
    ids2 \in {MCPE, {MaxPE}}, ids3 \in {MCPE, MCPE \ {1}} }
MCAllTimings == MCTimings \cup MCOddTimings

ASSUME InputsAssumption == InputsAreSound
=============================================================================

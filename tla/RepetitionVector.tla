-------------------------- MODULE RepetitionVector --------------------------
(***************************************************************************)
(* computeBRV: how often each body of a level of a PiSDF graph fires in an *)
(* iteration of the level.  A graph is a record: the kinds of its vertices *)
(* (the bodies, then the input and the output interfaces, "in" and "out"), *)
(* its edges from a port of a source to a port of a sink, with their rates *)
(* and delay, and the graphs of its hierarchical bodies.                   *)
(*                                                                         *)
(* Each connected component is walked breadth first; along its edges, in   *)
(* the order of the walk, fillReps gives the bodies rational rates.        *)
(***************************************************************************)
EXTENDS Integers, Sequences, FiniteSets, SequencesExt

Interfaces(g, kind) == {v \in DOMAIN g.kinds : g.kinds[v] = kind}
Bodies(g) == DOMAIN g.kinds \ (Interfaces(g, "in") \cup Interfaces(g, "out"))
NInterfaces(g) == Cardinality(Interfaces(g, "in") \cup Interfaces(g, "out"))
IsInner(g, e) == {e.src, e.snk} \subseteq Bodies(g)

(* An interface is a port of the hierarchical vertex.                      *)
Port(g, v) == Cardinality({w \in Interfaces(g, g.kinds[v]) : w < v})

OutEdges(g, v) ==
  LET outs == {e \in Range(g.edges) : e.src = v}
  IN [i \in 1..Cardinality(outs) |-> CHOOSE e \in outs : e.srcPort = i - 1]
InEdges(g, v) ==
  LET ins == {e \in Range(g.edges) : e.snk = v}
  IN [i \in 1..Cardinality(ins) |-> CHOOSE e \in ins : e.snkPort = i - 1]

-----------------------------------------------------------------------------
(* Rational numbers <<n, d>>, in lowest terms.                             *)

gcd[a, b \in Nat] == IF b = 0 THEN a ELSE gcd[b, a % b]
lcm(a, b) == (a * b) \div gcd[a, b]
Rational(n, d) == <<n \div gcd[n, d], d \div gcd[n, d]>>
Times(x, y) == Rational(x[1] * y[1], x[2] * y[2])

-----------------------------------------------------------------------------
(* fillVertexSet: bodies in the order in which they are met.               *)

Neighbours(g, v) ==
  [i \in 1..Len(OutEdges(g, v)) |-> OutEdges(g, v)[i].snk]
    \o [i \in 1..Len(InEdges(g, v)) |-> InEdges(g, v)[i].src]
AddNew(set, v) == IF v \in Range(set) THEN set ELSE Append(set, v)
FillVertexSet(g, first) ==
  FoldLeft(LAMBDA set, n : IF n > Len(set) THEN set ELSE FoldLeft(AddNew, set, Neighbours(g, set[n])),
           <<first>>, [v \in DOMAIN g.kinds |-> v])

(* The connected components, each with its bodies in order.                *)
Components(g) ==
  LET add(cs, v) == IF \E c \in Range(cs) : v \in Range(c) THEN cs
                    ELSE Append(cs, FillVertexSet(g, v))
  IN FoldLeft(add, <<>>, [v \in Bodies(g) |-> v])

FillEdgeSet(g, component) ==
  FoldLeft(LAMBDA es, v : es \o OutEdges(g, v), <<>>, component)

(* fillReps: an end that has no rate yet gets one from the other end.  Two *)
(* ends that have one already are left as they are, and an interface has   *)
(* the rate 1.  A self-loop names one rational twice.                      *)
Unset(x) == x[1] = 0
From(x, ratio) == IF Unset(x) THEN ratio ELSE Times(ratio, x)
FillRep(reps, e) ==
  LET snk == IF ~Unset(reps[e.snk]) \/ e.cons = 0 THEN reps[e.snk]
             ELSE From(reps[e.src], Rational(e.prod, e.cons))
      src == IF ~Unset(reps[e.src]) \/ e.prod = 0 THEN reps[e.src]
             ELSE From(snk, Rational(e.cons, e.prod))
  IN IF e.src = e.snk
     THEN [reps EXCEPT ![e.src] = IF Unset(@) THEN Times(snk, snk) ELSE @]
     ELSE [reps EXCEPT ![e.snk] = snk, ![e.src] = src]
FillReps(g, component) ==
  FoldLeft(FillRep, [v \in DOMAIN g.kinds |-> IF v \in Bodies(g) THEN <<0, 1>> ELSE <<1, 1>>],
           FillEdgeSet(g, component))

(* Faulty variant: the largest denominator for their common multiple.      *)
LargestFactor(reps) ==
  LET ds == {reps[v][2] : v \in DOMAIN reps} IN CHOOSE d \in ds : \A c \in ds : c <= d

ComputeLCMFactor(reps) == FoldLeft(lcm, 1, [v \in DOMAIN reps |-> reps[v][2]])

ComputeBRVValues(g, brv, component) ==
  LET reps == FillReps(g, component)
      factor == ComputeLCMFactor(reps)
  IN [v \in DOMAIN brv |-> IF v \in Range(component) THEN (reps[v][1] * factor) \div reps[v][2] ELSE brv[v]]

(* updateBRV: an interface must not have more tokens than the firings of   *)
(* the body next to it take or give.                                       *)
ScaleFactor(g, brv, component) ==
  LET grow(scale, v) ==
        LET e == CHOOSE d \in Range(g.edges) : v \in {d.src, d.snk}
            inside == scale * IF e.src = v THEN e.cons * brv[e.snk] ELSE e.prod * brv[e.src]
            outside == IF e.src = v THEN e.prod ELSE e.cons
        IN IF inside = 0 \/ inside >= outside THEN scale
           ELSE scale * ((outside + inside - 1) \div inside)
  IN FoldLeft(grow, 1, SelectSeq(component, LAMBDA v : v \notin Bodies(g)))

(* The factor goes to the first vertices of the walk, as many as it has    *)
(* without the interfaces of the graph: an interface among them stands for *)
(* the body with its number.                                               *)
UpdateBRV(g, brv, component) ==
  LET scale == ScaleFactor(g, brv, component)
      typeId(v) == IF v \in Bodies(g) THEN v ELSE Port(g, v) + 1
      n == Len(component) - NInterfaces(g)
  IN IF scale = 1 THEN brv
     ELSE FoldLeft(LAMBDA q, v : [q EXCEPT ![typeId(v)] = @ * scale], brv, SubSeq(component, 1, n))

LcmBasedBRV(g, brv, component) == UpdateBRV(g, ComputeBRVValues(g, brv, component), component)
AfterComponents(g, n) ==
  FoldLeft(LAMBDA brv, c : LcmBasedBRV(g, brv, c), [v \in Bodies(g) |-> 0], SubSeq(Components(g), 1, n))
ComputeBRV(g) == AfterComponents(g, Len(Components(g)))

(* Both exceptions: an edge with one rate 0, and an edge between bodies of *)
(* a component that the vector does not balance (checkConsistency).        *)
Balances(g, es, q) == \A e \in Range(es) : IsInner(g, e) => e.prod * q[e.src] = e.cons * q[e.snk]
Accepts(g) ==
  /\ \A e \in Range(g.edges) : e.prod = 0 <=> e.cons = 0
  /\ \A n \in DOMAIN Components(g) :
       Balances(g, FillEdgeSet(g, Components(g)[n]), AfterComponents(g, n))

-----------------------------------------------------------------------------
(* What a repetition vector is, by its definition: a solution of the      *)
(* balance equations, with a firing of each body that an edge with tokens  *)
(* reaches and none of the others, that takes the tokens of the input      *)
(* interfaces and gives those of the output interfaces.                    *)

Reached(g) == {e.src : e \in {d \in Range(g.edges) : d.prod > 0}}
                \cup {e.snk : e \in {d \in Range(g.edges) : d.cons > 0}}
Serves(g, q) ==
  \A e \in Range(g.edges) : /\ e.src \notin Bodies(g) => e.prod <= e.cons * q[e.snk]
                            /\ e.snk \notin Bodies(g) => e.cons <= e.prod * q[e.src]
IsSolution(g, q) ==
  Balances(g, g.edges, q) /\ Serves(g, q) /\ \A v \in Bodies(g) : q[v] > 0 <=> v \in Reached(g)
Solutions(g, max) == {q \in [Bodies(g) -> 0..max] : IsSolution(g, q)}
IsSmallest(g, q) == \A p \in Solutions(g, Max(Range(q))) : \A v \in Bodies(g) : q[v] <= p[v]

(* fillReps works from body to body: after the first edge with tokens,     *)
(* each one that it treats has an end with a rate.  A body that gets its   *)
(* rate apart from the others, and meets them later, keeps it.             *)
GrowsFromOneBody(g) ==
  \A c \in Range(Components(g)) :
    LET es == SelectSeq(FillEdgeSet(g, c), LAMBDA e : e.prod > 0) IN
    \A i \in 2..Len(es) :
      \E j \in 1..(i - 1) : {es[i].src, es[i].snk} \cap {es[j].src, es[j].snk} # {}

(* updateBRV finds the bodies: the interfaces come last in the walk of the *)
(* one component, or there are none.                                       *)
ScalesTheBodies(g) ==
  NInterfaces(g) > 0 =>
    /\ Len(Components(g)) = 1
    /\ Range(SubSeq(Components(g)[1], 1, Len(g.kinds) - NInterfaces(g))) = Bodies(g)
=============================================================================

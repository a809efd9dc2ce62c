----------------------------- MODULE SingleRate -----------------------------
(***************************************************************************)
(* From a PiSDF graph without configuration actors to its single-rate      *)
(* graph.  static_scheduler replaces each hierarchical vertex by the       *)
(* instances of the bodies of its graph (computeBRV, addSRVertices,        *)
(* linkSRVertices), then calls optims.  A vertex is an instance of a body, *)
(* or a fork, join, broadcast, roundbuffer, init or end that copies tokens; *)
(* an edge carries rate tokens from a port to a port.                      *)
(*                                                                         *)
(* Each optimisation scans the graph for its pattern, rewrites the first   *)
(* match and is called again until it finds none.  The scan follows the    *)
(* places of the vertices in a Set, which removals shuffle: the model      *)
(* takes any match.  Vertices are named after those they come from, so     *)
(* that the order of the rewrites does not show in the result.             *)
(***************************************************************************)
EXTENDS RepetitionVector

CONSTANTS Graphs,       \* the PiSDF graphs considered
          MaxRepetition \* bound of the search for repetition vectors

(* An edge of rate 0 is between two bodies.  For one at an interface the   *)
(* code looks among the bodies for one with the number of the interface    *)
(* (LinkVertices.cpp:469-482), which is not modelled.                      *)
RECURSIVE NullEdgesAreInner(_)
NullEdgesAreInner(g) ==
  /\ \A e \in Range(g.edges) : e.prod = 0 => IsInner(g, e)
  /\ \A v \in DOMAIN g.kinds : g.kinds[v] = "graph" => NullEdgesAreInner(g.subs[v])

ASSUME NullEdgesAssumption == \A g \in Graphs : NullEdgesAreInner(g)

VARIABLES pisdf,    \* the graph that is transformed
          phase,    \* the function that runs
          job,      \* the hierarchical vertex that is replaced
          brv,      \* repetition vectors of the levels
          linked,   \* number of edges of the level that are linked
          vertices, \* single-rate graph
          edges
vars == <<pisdf, phase, job, brv, linked, vertices, edges>>

Optimisations ==
  <<"removeNullEdge", "reduceRB", "reduceJoinEnd", "reduceJoinJoin", "reduceForkFork",
    "reduceBrBr", "reduceJoinFork", "removeBr", "removeFork", "removeJoin", "reduceInitEnd", "done">>

(* An instance is named by the body and number of each vertex around it,   *)
(* and its own; without the numbers this is its level.                     *)
Vertex(type, of) == [type |-> type, of |-> of]
Nobody == Vertex("nobody", <<>>)
Edge(src, srcPort, snk, snkPort, rate) ==
  [src |-> src, srcPort |-> srcPort, snk |-> snk, snkPort |-> snkPort, rate |-> rate]
Level(of) == [i \in 1..(Len(of) \div 2) |-> of[2 * i - 1]]
LevelGraph(level) == FoldLeft(LAMBDA g, v : g.subs[v], pisdf, level)
GraphOf(of) == LevelGraph(Level(of))
graph == GraphOf(job.of)
rv == brv[Level(job.of)]
Instance(v, n) == Vertex(graph.kinds[v], job.of \o <<v, n>>)
Inside(tail) == job.of \o tail

Of(type) == {v \in vertices : v.type = type}
In(v) == {e \in edges : e.snk = v}
Out(v) == {e \in edges : e.src = v}
Ins(v) == [i \in 1..Cardinality(In(v)) |-> CHOOSE e \in In(v) : e.snkPort = i - 1]
Outs(v) == [i \in 1..Cardinality(Out(v)) |-> CHOOSE e \in Out(v) : e.srcPort = i - 1]
Rates(es) == [i \in DOMAIN es |-> es[i].rate]
Before(rates, i) == FoldLeft(+, 0, SubSeq(rates, 1, i - 1))

Root == Vertex("graph", <<>>)
Init ==
  /\ pisdf \in Graphs
  /\ phase = "getNextHierVx" /\ job = Root
  /\ brv = <<>> /\ linked = 0
  /\ vertices = {Root} /\ edges = {}

-----------------------------------------------------------------------------
(* Transformation.                                                         *)

(* The edges of the vertex stay, as those of the interfaces of its graph.  *)
NextJob ==
  /\ phase = "getNextHierVx"
  /\ \E v \in Of("graph") : job' = v /\ vertices' = vertices \ {v}
  /\ phase' = "computeBRV" /\ linked' = 0
  /\ UNCHANGED <<pisdf, brv, edges>>

ComputeVector ==
  /\ phase = "computeBRV"
  /\ \/ /\ Accepts(graph)
        /\ brv' = (Level(job.of) :> ComputeBRV(graph)) @@ brv
        /\ phase' = "addSRVertices"
     \/ ~Accepts(graph) /\ phase' = "rejected" /\ UNCHANGED brv
  /\ UNCHANGED <<pisdf, job, linked, vertices, edges>>

AddVertices ==
  /\ phase = "addSRVertices"
  /\ vertices' = vertices \cup UNION {{Instance(v, n) : n \in 1..rv[v]} : v \in Bodies(graph)}
  /\ phase' = "linkSRVertices"
  /\ UNCHANGED <<pisdf, job, brv, linked, edges>>

(* The tokens of the sources, in order, become those of the sinks.  A      *)
(* source whose tokens go to several sinks gets a fork, a sink that takes  *)
(* those of several sources a join.  Its parts are the pairs of a source   *)
(* and a sink with common tokens, and their number.                        *)
Parts(srcs, snks) ==
  LET common(i, j) == Min({Before(Rates(srcs), i + 1), Before(Rates(snks), j + 1)})
                        - Max({Before(Rates(srcs), i), Before(Rates(snks), j)})
      all == {<<i, j, common(i, j)>> : i \in DOMAIN srcs, j \in DOMAIN snks}
  IN {p \in all : p[3] > 0}
Connect(srcs, snks, parts, forks, joins) ==
  LET ofSrc(i) == {p \in parts : p[1] = i}
      ofSnk(j) == {p \in parts : p[2] = j}
      split == {i \in DOMAIN srcs : Cardinality(ofSrc(i)) > 1}
      gathered == {j \in DOMAIN snks : Cardinality(ofSnk(j)) > 1}
      fork(i) == Vertex("fork", Append(forks, i))
      join(j) == Vertex("join", Append(joins, j))
      part(i, j, rate) ==
        Edge(IF i \in split THEN fork(i) ELSE srcs[i].vertex,
             IF i \in split THEN Cardinality({p \in ofSrc(i) : p[2] < j}) ELSE srcs[i].port,
             IF j \in gathered THEN join(j) ELSE snks[j].vertex,
             IF j \in gathered THEN Cardinality({p \in ofSnk(j) : p[1] < i}) ELSE snks[j].port,
             rate)
  IN {part(p[1], p[2], p[3]) : p \in parts}
       \cup {Edge(srcs[i].vertex, srcs[i].port, fork(i), 0, srcs[i].rate) : i \in split}
       \cup {Edge(join(j), 0, snks[j].vertex, snks[j].port, snks[j].rate) : j \in gathered}

End(vertex, port, rate) == [vertex |-> vertex, port |-> port, rate |-> rate]

(* The sources and sinks of an edge: the initial tokens come before those  *)
(* of the instances, the tokens that are left after them.                  *)
Instances(v, port, rate) == [n \in 1..rv[v] |-> End(Instance(v, n), port, rate)]
Delay(k, type) ==
  LET d == graph.edges[k].delay IN
  IF d = 0 THEN <<>> ELSE <<End(Vertex(type, Inside(<<0, k>>)), 0, d)>>

(* An input interface gives its tokens once if the sinks take as many, or  *)
(* through a broadcast as often as it takes, with an end for the rest.     *)
InputEdge(v) == CHOOSE e \in In(job) : e.snkPort = Port(graph, v)
Repeater(k) == Vertex("broadcast", Inside(<<0, k>>))
Ceil(a, b) == (a + b - 1) \div b
Needed(k) == graph.edges[k].cons * rv[graph.edges[k].snk]
IsRepeated(k) ==
  LET e == graph.edges[k] IN e.src \notin Bodies(graph) /\ e.prod # Needed(k)
FromInterface(k) ==
  LET e == graph.edges[k]
      in == InputEdge(e.src)
  IN IF IsRepeated(k) THEN [i \in 1..Ceil(Needed(k), e.prod) |-> End(Repeater(k), i - 1, e.prod)]
     ELSE <<End(in.src, in.srcPort, e.prod)>>
RestOfInput(k) ==
  LET rest == Ceil(Needed(k), graph.edges[k].prod) * graph.edges[k].prod - Needed(k) IN
  IF ~IsRepeated(k) \/ rest = 0 THEN <<>> ELSE <<End(Vertex("end", Inside(<<0, k>>)), 0, rest)>>

(* An output interface takes the last tokens; ends take those before.      *)
OutputEdge(v) == CHOOSE e \in Out(job) : e.srcPort = Port(graph, v)
ToInterface(k) ==
  LET e == graph.edges[k]
      out == OutputEdge(e.snk)
      dropped == e.prod * rv[e.src] - e.cons
      n == Ceil(dropped, e.prod)
  IN [i \in 1..n |-> End(Vertex("end", Inside(<<0, k, i>>)), 0,
                         IF i < n THEN e.prod ELSE dropped - (n - 1) * e.prod)]
       \o <<End(out.snk, out.snkPort, e.cons)>>

(* Faulty variant: the initial tokens after those of the instances.        *)
SourcesInitLast(k) ==
  LET e == graph.edges[k] IN
  IF e.src \in Bodies(graph) THEN Instances(e.src, e.srcPort, e.prod) \o Delay(k, "init")
  ELSE FromInterface(k)

Sources(k) ==
  LET e == graph.edges[k] IN
  IF e.src \in Bodies(graph) THEN Delay(k, "init") \o Instances(e.src, e.srcPort, e.prod)
  ELSE FromInterface(k)
Sinks(k) ==
  LET e == graph.edges[k] IN
  IF e.snk \in Bodies(graph)
  THEN Instances(e.snk, e.snkPort, e.cons) \o Delay(k, "end")
         \o IF e.src \in Bodies(graph) THEN <<>> ELSE RestOfInput(k)
  ELSE ToInterface(k)

(* The edges of the hierarchical vertex that an edge of its graph takes.   *)
Taken(e) ==
  (IF e.src \in Bodies(graph) THEN {} ELSE {InputEdge(e.src)})
    \cup IF e.snk \in Bodies(graph) THEN {} ELSE {OutputEdge(e.snk)}

(* An edge without tokens leaves an open edge on each port.                *)
OpenEdges(srcs, snks) ==
  {Edge(s.vertex, s.port, Nobody, 0, 0) : s \in Range(srcs)}
    \cup {Edge(Nobody, 0, s.vertex, s.port, 0) : s \in Range(snks)}

Ends(es) == ({e.src : e \in es} \cup {e.snk : e \in es}) \ {Nobody}

(* Rewrites of the single-rate graph.                                      *)
Rewrite(gone, removed, added) ==
  /\ edges' = (edges \ removed) \cup added
  /\ vertices' = (vertices \ gone) \cup Ends(added)

LinkEdge ==
  /\ phase = "linkSRVertices" /\ linked < Len(graph.edges)
  /\ linked' = linked + 1
  /\ LET k == linked + 1
         e == graph.edges[k]
     IN IF e.prod = 0 THEN Rewrite({}, {}, OpenEdges(Sources(k), Sinks(k)))
        ELSE Rewrite({}, Taken(e),
               Connect(Sources(k), Sinks(k), Parts(Sources(k), Sinks(k)), Inside(<<0, k>>), Inside(<<0, k>>))
                 \cup IF IsRepeated(k) THEN {[InputEdge(e.src) EXCEPT !.snk = Repeater(k), !.snkPort = 0]}
                      ELSE {})
  /\ UNCHANGED <<pisdf, phase, job, brv>>

EndLink ==
  /\ phase = "linkSRVertices" /\ linked = Len(graph.edges)
  /\ phase' = "getNextHierVx"
  /\ UNCHANGED <<pisdf, job, brv, linked, vertices, edges>>

(* Without the optimisations the graph is left as it is linked.            *)
EndJobs ==
  /\ phase = "getNextHierVx" /\ Of("graph") = {}
  /\ phase' \in {"removeNullEdge", "done"}
  /\ UNCHANGED <<pisdf, job, brv, linked, vertices, edges>>

-----------------------------------------------------------------------------
(* Optimisations: for each, the places where it applies and the rewrite.   *)

NullEdges ==
  {e \in edges : e.rate = 0 /\ \/ e.src.type = "fork" /\ e.snk = Nobody
                               \/ e.snk.type = "join" /\ e.src = Nobody}
RemoveNullEdge(e) ==
  LET behind(v, p, w, q) == IF v = w /\ p > q THEN p - 1 ELSE p
      closed(d) == [d EXCEPT !.srcPort = behind(d.src, @, e.src, e.srcPort),
                             !.snkPort = behind(d.snk, @, e.snk, e.snkPort)]
  IN Rewrite({}, edges, {closed(d) : d \in edges \ {e}})

(* The incoming edge takes the place of the outgoing one.                  *)
Bypass(v) ==
  LET in == Ins(v)[1]
      out == Outs(v)[1]
  IN Rewrite({v}, {in, out}, {[in EXCEPT !.snk = out.snk, !.snkPort = out.snkPort]})

(* A roundbuffer repeats its tokens with a broadcast and a join, and the   *)
(* last time in part with a fork; or leaves the first ones to an end.      *)
ReduceRB(rb) ==
  LET in == Ins(rb)[1]
      out == Outs(rb)[1]
      as(type) == Vertex(type, rb.of)
      whole == out.rate \div in.rate
      rest == out.rate % in.rate
  IN \/ in.rate = out.rate /\ Bypass(rb)
     \/ /\ in.rate < out.rate
        /\ Rewrite({rb}, {in, out},
             {[in EXCEPT !.snk = as("broadcast")], [out EXCEPT !.src = as("join")]}
               \cup {Edge(as("broadcast"), j, as("join"), j, in.rate) : j \in 0..(whole - 1)}
               \cup IF rest = 0 THEN {}
                    ELSE {Edge(as("broadcast"), whole, as("fork"), 0, in.rate),
                          Edge(as("fork"), 0, as("join"), whole, rest),
                          Edge(as("fork"), 1, as("end"), 0, in.rate - rest)})
     \/ /\ in.rate > out.rate
        /\ Rewrite({rb}, {in, out},
             {[in EXCEPT !.snk = as("fork")], [out EXCEPT !.src = as("fork"), !.srcPort = 1],
              Edge(as("fork"), 0, as("end"), 0, in.rate - out.rate)})

Between(type, next) == {e \in edges : e.src.type = type /\ e.snk.type = next}

ReduceJoinEnd(e) ==
  Rewrite({e.src, e.snk}, {e} \cup In(e.src),
          {[d EXCEPT !.snk = Vertex("end", Append(e.src.of, d.snkPort)), !.snkPort = 0] : d \in In(e.src)})
ReduceJoinJoin(e) ==
  LET more == Cardinality(In(e.src)) - 1
      moved(d) == CASE d.snk = e.src -> [d EXCEPT !.snk = e.snk, !.snkPort = @ + e.snkPort]
                    [] d.snk = e.snk /\ d.snkPort > e.snkPort -> [d EXCEPT !.snkPort = @ + more]
                    [] OTHER -> d
  IN Rewrite({e.src}, edges, {moved(d) : d \in edges \ {e}})
ReduceForkFork(e) ==
  LET more == Cardinality(Out(e.snk)) - 1
      moved(d) == CASE d.src = e.snk -> [d EXCEPT !.src = e.src, !.srcPort = @ + e.srcPort]
                    [] d.src = e.src /\ d.srcPort > e.srcPort -> [d EXCEPT !.srcPort = @ + more]
                    [] OTHER -> d
  IN Rewrite({e.snk}, edges, {moved(d) : d \in edges \ {e}})
ReduceBrBr(e) ==
  LET last == Cardinality(Out(e.src)) - 1
      moved(d) == [d EXCEPT !.src = e.src, !.srcPort = IF @ = 0 THEN e.srcPort ELSE last + @]
  IN Rewrite({e.snk}, {e} \cup Out(e.snk), {moved(d) : d \in Out(e.snk)})

(* The quantifiers let TLC compute the three values once.                  *)
ReduceJoinFork(e) ==
  \E srcs \in {[i \in DOMAIN Ins(e.src) |-> LET d == Ins(e.src)[i] IN End(d.src, d.srcPort, d.rate)]},
     snks \in {[i \in DOMAIN Outs(e.snk) |-> LET d == Outs(e.snk)[i] IN End(d.snk, d.snkPort, d.rate)]} :
    \E parts \in {Parts(srcs, snks)} :
      Rewrite({e.src, e.snk}, {e} \cup In(e.src) \cup Out(e.snk),
              Connect(srcs, snks, parts, e.src.of, e.snk.of))

(* removeBr drops the ends behind a broadcast.  Its index passes over the  *)
(* output that moves to the place of a dropped one: of ends in a row a     *)
(* call drops every second.                                                *)
ToEnds(br) ==
  LET outs == Outs(br)
      dropped[i \in Nat] == i > 0 /\ outs[i].snk.type = "end" /\ ~dropped[i - 1]
  IN {i \in DOMAIN outs : dropped[i]}
DropEnds(br) ==
  LET outs == Outs(br)
      kept == DOMAIN outs \ ToEnds(br)
  IN Rewrite({outs[i].snk : i \in ToEnds(br)}, Range(outs),
             {[outs[i] EXCEPT !.srcPort = Cardinality({j \in kept : j < i})] : i \in kept})
RemoveBr(br) ==
  LET outs == Outs(br)
      kept == DOMAIN outs \ ToEnds(br)
      gone == {br} \cup {outs[i].snk : i \in ToEnds(br)}
      in == Ins(br)[1]
      to == outs[CHOOSE i \in kept : TRUE]
  IN \/ /\ kept = {}
        /\ Rewrite(gone, Range(outs) \cup {in},
                   {[in EXCEPT !.snk = Vertex("end", Append(br.of, 0)), !.snkPort = 0]})
     \/ /\ Cardinality(kept) = 1
        /\ Rewrite(gone, Range(outs) \cup {in}, {[in EXCEPT !.snk = to.snk, !.snkPort = to.snkPort]})
     \/ Cardinality(kept) > 1 /\ DropEnds(br)
RemovableBrs == {br \in Of("broadcast") : Cardinality(Out(br)) < 2 \/ ToEnds(br) # {}}

(* A fork or a join has an edge with tokens, so that one is left.          *)
RemovableForks == {f \in Of("fork") : Cardinality(Out(f)) = 1 /\ \A e \in Out(f) : e.snk # Nobody}
RemovableJoins == {j \in Of("join") : Cardinality(In(j)) = 1 /\ \A e \in In(j) : e.src # Nobody}

(* Faulty variant: the edge stays.                                         *)
ReduceInitEndKeepsEdge(e) == Rewrite({e.src, e.snk}, {}, {})

ReduceInitEnd(e) == Rewrite({e.src, e.snk}, {e}, {})

Matches(p) ==
  CASE p = "removeNullEdge" -> NullEdges
    [] p = "reduceRB" -> Of("roundbuffer")
    [] p = "reduceJoinEnd" -> Between("join", "end")
    [] p = "reduceJoinJoin" -> Between("join", "join")
    [] p = "reduceForkFork" -> Between("fork", "fork")
    [] p = "reduceBrBr" -> Between("broadcast", "broadcast")
    [] p = "reduceJoinFork" -> Between("join", "fork")
    [] p = "removeBr" -> RemovableBrs
    [] p = "removeFork" -> RemovableForks
    [] p = "removeJoin" -> RemovableJoins
    [] p = "reduceInitEnd" -> Between("init", "end")

Optimise ==
  /\ \E x \in Matches(phase) :
       \/ phase = "removeNullEdge" /\ RemoveNullEdge(x)
       \/ phase = "reduceRB" /\ ReduceRB(x)
       \/ phase = "reduceJoinEnd" /\ ReduceJoinEnd(x)
       \/ phase = "reduceJoinJoin" /\ ReduceJoinJoin(x)
       \/ phase = "reduceForkFork" /\ ReduceForkFork(x)
       \/ phase = "reduceBrBr" /\ ReduceBrBr(x)
       \/ phase = "reduceJoinFork" /\ ReduceJoinFork(x)
       \/ phase = "removeBr" /\ RemoveBr(x)
       \/ phase \in {"removeFork", "removeJoin"} /\ Bypass(x)
       \/ phase = "reduceInitEnd" /\ ReduceInitEnd(x)
  /\ UNCHANGED <<pisdf, phase, job, brv, linked>>

Optimising == phase \in Range(Optimisations) \ {"done"}
NextOptimisation ==
  /\ Matches(phase) = {}
  /\ \E i \in DOMAIN Optimisations :
       Optimisations[i] = phase /\ phase' = Optimisations[i + 1]
  /\ UNCHANGED <<pisdf, job, brv, linked, vertices, edges>>

Optims == Optimising /\ (Optimise \/ NextOptimisation)

Next == NextJob \/ ComputeVector \/ AddVertices \/ LinkEdge \/ EndLink \/ EndJobs \/ Optims

(* optims is a loop of the global runtime, which nothing interrupts.       *)
Spec == Init /\ [][Next]_vars /\ WF_vars(Optims)

-----------------------------------------------------------------------------
(* What the tokens of an instance are: the FIFOs of the PiSDF graph.       *)

(* Which input token a special actor copies to a place of an output.       *)
Through(kind, ins, outs, port, k) ==
  CASE kind = "fork" -> <<0, Before(outs, port + 1) + k>>
    [] kind = "join" ->
         LET i == CHOOSE j \in DOMAIN ins : Before(ins, j) <= k /\ k < Before(ins, j + 1)
         IN <<i - 1, k - Before(ins, i)>>
    [] kind = "broadcast" -> <<0, k>>
    [] kind = "roundbuffer" ->
         <<0, IF outs[1] <= ins[1] THEN ins[1] - outs[1] + k ELSE k % ins[1]>>

(* A token is named by the body instance and output it comes from, or by   *)
(* its place in the delay of an edge.  An input of a hierarchical vertex   *)
(* repeats its tokens for as long as its graph takes some, an output has   *)
(* the last ones that its graph gives.                                     *)
Rest(of) == SubSeq(of, 1, Len(of) - 2)
Body(of) == of[Len(of) - 1]
Number(of) == of[Len(of)]
Fifo ==
  LET cons(of) == LET es == InEdges(GraphOf(Rest(of)), Body(of)) IN [i \in DOMAIN es |-> es[i].cons]
      prod(of) == LET es == OutEdges(GraphOf(Rest(of)), Body(of)) IN [i \in DOMAIN es |-> es[i].prod]
      fifo[of \in Seq(Nat), side \in {"in", "out"}, port \in Nat, k \in Nat] ==
        LET g == GraphOf(Rest(of))
            kind == g.kinds[Body(of)]
            before == InEdges(g, Body(of))[port + 1]
            at == (Number(of) - 1) * before.cons + k
            source(up, e, i) == fifo[up \o <<e.src, i \div e.prod + 1>>, "out", e.srcPort, i % e.prod]
            sub == GraphOf(of)
            last == CHOOSE e \in Range(sub.edges) :
                      e.snk \in Interfaces(sub, "out") /\ Port(sub, e.snk) = port
            u == Through(kind, cons(of), prod(of), port, k)
        IN CASE side = "in" /\ before.src \notin Bodies(g) ->
                  fifo[Rest(of), "in", Port(g, before.src), at % before.prod]
             [] side = "in" /\ before.src \in Bodies(g) /\ at < before.delay ->
                  Rest(of) \o <<0, CHOOSE i \in DOMAIN g.edges : g.edges[i] = before, 0, at>>
             [] side = "in" /\ before.src \in Bodies(g) /\ at >= before.delay ->
                  source(Rest(of), before, at - before.delay)
             [] side = "out" /\ kind = "body" -> of \o <<port, k>>
             [] side = "out" /\ kind = "graph" ->
                  source(of, last, last.prod * brv[Level(of)][last.src] - last.cons + k)
             [] OTHER -> fifo[of, "in", u[1], u[2]]
  IN fifo

Read ==
  LET read[v \in vertices, port \in Nat, k \in Nat] ==
        LET e == Ins(v)[port + 1]
            u == Through(e.src.type, Rates(Ins(e.src)), Rates(Outs(e.src)), e.srcPort, k)
        IN CASE e.src.type = "body" -> e.src.of \o <<e.srcPort, k>>
             [] e.src.type = "init" -> e.src.of \o <<0, k>>
             [] OTHER -> read[e.src, u[1], u[2]]
  IN read

(* Every port has one edge, and the rates around a special actor agree.    *)
IsWellFormed ==
  /\ Ends(edges) \subseteq vertices
  /\ \A e \in edges : Nobody \in {e.src, e.snk} => e.rate = 0
  /\ \A v \in vertices :
       LET ins == Ins(v)
           outs == Outs(v)
           in == Before(Rates(ins), Len(ins) + 1)
           out == Before(Rates(outs), Len(outs) + 1)
       IN /\ {e.snkPort : e \in In(v)} = 0..(Cardinality(In(v)) - 1)
          /\ {e.srcPort : e \in Out(v)} = 0..(Cardinality(Out(v)) - 1)
          /\ v.type \in {"fork", "join"} => in = out
          /\ v.type = "broadcast" => \A i \in DOMAIN outs : outs[i].rate = in
          /\ v.type = "body" =>
               LET from == InEdges(GraphOf(Rest(v.of)), Body(v.of))
                   to == OutEdges(GraphOf(Rest(v.of)), Body(v.of))
               IN /\ Rates(ins) = [i \in DOMAIN from |-> from[i].cons]
                  /\ Rates(outs) = [i \in DOMAIN to |-> to[i].prod]

Firings(level) ==
  FoldLeft(LAMBDA n, i : n * brv[SubSeq(level, 1, i - 1)][level[i]], 1, [i \in DOMAIN level |-> i])
IsLinked == Optimising \/ phase = "done"

-----------------------------------------------------------------------------
(* Where fillReps grows the rates from one body and updateBRV finds the    *)
(* bodies, computeBRV accepts the graphs with a solution of the balance    *)
(* equations, and no others; its vector is a solution, and the smallest    *)
(* one of a graph without interfaces.                                      *)
RepetitionVectorIsRight ==
  GrowsFromOneBody(graph) /\ ScalesTheBodies(graph) =>
    /\ phase = "rejected" => Solutions(graph, MaxRepetition) = {}
    /\ phase = "addSRVertices" =>
         IsSolution(graph, rv) /\ (NInterfaces(graph) = 0 => IsSmallest(graph, rv))

(* computeBRV accepts every graph whose balance equations have a solution. *)
ConsistentIsAccepted == phase = "rejected" => Solutions(graph, MaxRepetition) = {}

(* Once it is linked, and after each rewrite, the graph is well formed,    *)
(* has every instance of the bodies and brings each of their input tokens  *)
(* from the place that the FIFOs of the PiSDF graph give it: forks, joins, *)
(* interfaces, initial tokens and their reductions neither lose nor        *)
(* reorder one.                                                            *)
ReadsAsSpecified ==
  IsLinked =>
    /\ IsWellFormed
    /\ \A level \in DOMAIN brv : \A v \in Bodies(LevelGraph(level)) :
         LevelGraph(level).kinds[v] = "body" =>
           Cardinality({w \in Of("body") : Level(w.of) = Append(level, v)})
             = brv[level][v] * Firings(level)
    /\ \A v \in Of("body") : \A e \in In(v) : \A k \in 0..(e.rate - 1) :
         Read[v, e.snkPort, k] = Fifo[v.of, "in", e.snkPort, k]

(* optims returns: no reduction keeps making new matches for itself.       *)
OptimsEnds == Optimising ~> phase = "done"
=============================================================================

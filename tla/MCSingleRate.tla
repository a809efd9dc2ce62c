---------------------------- MODULE MCSingleRate ----------------------------
(***************************************************************************)
(* Graphs for SingleRate and MemAlloc: families of small graphs with all   *)
(* their rates and delays, and single graphs for what those do not reach.  *)
(***************************************************************************)
EXTENDS MemAlloc

(* E(v, p, w, q, prod, cons, delay): from port p of v to port q of w.      *)
E(src, srcPort, snk, snkPort, prod, cons, delay) ==
  [src |-> src, srcPort |-> srcPort, snk |-> snk, snkPort |-> snkPort,
   prod |-> prod, cons |-> cons, delay |-> delay]
Hierarchy(kinds, es, subs) == [kinds |-> kinds, edges |-> es, subs |-> subs]
Graph(kinds, es) == Hierarchy(kinds, es, <<>>)
AllBodies(n) == [v \in 1..n |-> "body"]

Rate == 1..3
Delays == 0..3

Pairs == {Graph(AllBodies(2), <<E(1, 0, 2, 0, p, c, d)>>) : p \in Rate, c \in Rate, d \in Delays}
Loops == {Graph(AllBodies(1), <<E(1, 0, 1, 0, p, c, d)>>) : p \in Rate, c \in Rate, d \in 1..3}
Chains == {Graph(AllBodies(3), <<E(1, 0, 2, 0, p, c, d), E(2, 0, 3, 0, q, b, 0)>>) :
             p \in Rate, c \in Rate, q \in Rate, b \in Rate, d \in {0, 2}}
Parallel == {Graph(AllBodies(2), <<E(1, 0, 2, 1, p, c, 0), E(1, 1, 2, 0, q, b, 1)>>) :
               p \in Rate, c \in Rate, q \in Rate, b \in Rate}
Cycles == {Graph(AllBodies(2), <<E(1, 0, 2, 0, p, c, 0), E(2, 0, 1, 0, q, b, d)>>) :
             p \in 1..2, c \in 1..2, q \in 1..2, b \in 1..2, d \in {2, 4}}

(* One special actor between bodies.                                       *)
Forks == {Graph(<<"body", "fork", "body", "body">>,
                <<E(1, 0, 2, 0, p, a + b, 0), E(2, 0, 3, 0, a, c, 0), E(2, 1, 4, 0, b, 1, 0)>>) :
            p \in Rate, a \in 1..2, b \in 1..2, c \in 1..2}
Joins == {Graph(<<"body", "body", "join", "body">>,
                <<E(1, 0, 3, 0, p, a, 0), E(2, 0, 3, 1, 1, b, 0), E(3, 0, 4, 0, a + b, c, d)>>) :
            p \in 1..2, a \in 1..2, b \in 1..2, c \in Rate, d \in {0, 1}}
Broadcasts == {Graph(<<"body", "broadcast", "body", "body">>,
                     <<E(1, 0, 2, 0, p, r, 0), E(2, 0, 3, 0, r, c, d), E(2, 1, 4, 0, r, r, d)>>) :
                 p \in Rate, r \in 1..2, c \in 1..2, d \in {0, 2}}
Roundbuffers == {Graph(<<"body", "roundbuffer", "body">>,
                       <<E(1, 0, 2, 0, p, i, 0), E(2, 0, 3, 0, o, c, 0)>>) :
                   p \in 1..2, i \in Rate, o \in 1..4, c \in 1..2}

(* Special actors in a row, edges without tokens, initial tokens around    *)
(* them.                                                                   *)
Rows ==
  { \* a fork of a fork, a join of a join
    Graph(<<"body", "fork", "fork", "join", "join", "body">>,
          <<E(1, 0, 2, 0, 4, 4, 0), E(2, 0, 4, 0, 1, 1, 0), E(2, 1, 3, 0, 2, 2, 0), E(2, 2, 5, 1, 1, 1, 0),
            E(3, 0, 4, 1, 1, 1, 1), E(3, 1, 5, 2, 1, 1, 0), E(4, 0, 5, 0, 2, 2, 0), E(5, 0, 6, 0, 4, 2, 0)>>),
    \* a join before a fork before a join before a fork
    Graph(<<"body", "body", "join", "fork", "join", "fork", "body", "body">>,
          <<E(1, 0, 3, 0, 1, 1, 0), E(2, 0, 3, 1, 2, 2, 0), E(3, 0, 4, 0, 3, 3, 0), E(4, 0, 5, 1, 2, 2, 0),
            E(4, 1, 5, 0, 1, 1, 0), E(5, 0, 6, 0, 3, 3, 0), E(6, 0, 7, 0, 2, 1, 0), E(6, 1, 8, 0, 1, 1, 0)>>),
    \* a broadcast before a broadcast
    Graph(<<"body", "broadcast", "broadcast", "body", "body", "body">>,
          <<E(1, 0, 2, 0, 1, 2, 0), E(2, 0, 3, 0, 2, 2, 0), E(2, 1, 4, 0, 2, 1, 0),
            E(3, 0, 5, 0, 2, 2, 0), E(3, 1, 6, 0, 2, 1, 0)>>),
    \* ends behind a broadcast, and a broadcast of initial tokens
    Graph(<<"body", "broadcast", "body", "body", "body", "body">>,
          <<E(1, 0, 2, 0, 1, 1, 0), E(2, 0, 3, 0, 1, 1, 1), E(2, 1, 4, 0, 1, 1, 1),
            E(2, 2, 5, 0, 1, 1, 1), E(2, 3, 6, 0, 1, 1, 0)>>),
    Graph(<<"body", "broadcast", "body">>, <<E(1, 0, 2, 0, 1, 1, 1), E(2, 0, 3, 0, 1, 1, 1)>>),
    \* roundbuffers in a row
    Graph(<<"body", "roundbuffer", "roundbuffer", "body">>,
          <<E(1, 0, 2, 0, 2, 2, 0), E(2, 0, 3, 0, 5, 5, 0), E(3, 0, 4, 0, 3, 3, 1)>>),
    \* edges without tokens between a fork, a join and bodies
    Graph(<<"body", "fork", "join", "body">>,
          <<E(1, 0, 2, 0, 2, 2, 0), E(2, 0, 3, 0, 0, 0, 0), E(2, 1, 3, 1, 1, 1, 0), E(2, 2, 3, 2, 0, 0, 0),
            E(2, 3, 3, 3, 1, 1, 0), E(3, 0, 4, 1, 2, 1, 0), E(1, 1, 4, 0, 0, 0, 0)>>),
    Graph(<<"body", "fork", "body", "join", "body">>,
          <<E(1, 0, 2, 0, 2, 2, 0), E(2, 0, 3, 0, 0, 0, 0), E(2, 1, 4, 1, 2, 2, 0), E(3, 0, 4, 0, 0, 0, 0),
            E(4, 0, 5, 0, 2, 2, 0)>>),
    \* two components, a cycle through a fork and a join
    Graph(AllBodies(4), <<E(1, 0, 2, 0, 2, 3, 0), E(3, 0, 4, 0, 1, 2, 3)>>),
    Graph(<<"body", "fork", "join", "body">>,
          <<E(1, 0, 2, 0, 2, 2, 0), E(2, 0, 4, 0, 1, 1, 0), E(2, 1, 3, 0, 1, 1, 2),
            E(3, 0, 1, 0, 2, 2, 0), E(4, 0, 3, 1, 1, 1, 2)>>) }

(* Hierarchical vertices: a body, or two, between an input and an output.  *)
One(p, x, y, c) == Graph(<<"body", "in", "out">>, <<E(2, 0, 1, 0, p, x, 0), E(1, 0, 3, 0, y, c, 0)>>)
Two(p, d, c) == Graph(<<"body", "body", "in", "out">>,
                      <<E(1, 0, 2, 0, 1, 2, d), E(3, 0, 1, 0, p, 1, 0), E(2, 0, 4, 0, 1, c, 0)>>)
Line(p, c, sub, q, b, d) ==
  Hierarchy(<<"body", "graph", "body">>, <<E(1, 0, 2, 0, p, c, d), E(2, 0, 3, 0, q, b, 0)>>, 2 :> sub)
Nested == {Line(1, c, One(c, x, y, q), q, b, 0) : c \in Rate, x \in Rate, y \in Rate, q \in Rate, b \in 1..2}
            \cup {Line(2, c, Two(c, d, q), q, 1, d) : c \in Rate, d \in 0..2, q \in Rate}
            \cup
  { \* two in a row, one in the other, one in a cycle
    Hierarchy(<<"body", "graph", "graph", "body">>,
              <<E(1, 0, 2, 0, 2, 2, 0), E(2, 0, 3, 0, 3, 2, 0), E(3, 0, 4, 0, 1, 1, 0)>>,
              (2 :> One(2, 1, 2, 3)) @@ (3 :> One(2, 3, 1, 1))),
    Line(2, 1, Hierarchy(<<"graph", "in", "out">>, <<E(2, 0, 1, 0, 1, 2, 0), E(1, 0, 3, 0, 1, 2, 0)>>,
                         1 :> One(2, 1, 1, 1)), 2, 1, 0),
    Hierarchy(<<"body", "graph">>, <<E(1, 0, 2, 0, 1, 2, 0), E(2, 0, 1, 0, 2, 1, 2)>>, 2 :> One(2, 1, 1, 2)) }

AllGraphs ==
  UNION {Pairs, Loops, Chains, Parallel, Cycles, Forks, Joins, Broadcasts, Roundbuffers, Rows, Nested}

(* The first two bodies meet before the others, which get their rates      *)
(* apart from them.                                                        *)
Apart == {Graph(AllBodies(4), <<E(2, 0, 1, 0, 1, 2, 0), E(3, 0, 4, 0, 1, 1, 0), E(3, 1, 1, 1, 1, 1, 0)>>)}

(* An output interface in the middle of the walk, whose tokens take two    *)
(* firings of each body.                                                   *)
Misscaled ==
  {Hierarchy(<<"graph", "body">>, <<E(1, 0, 2, 0, 2, 2, 0)>>,
             1 :> Graph(<<"body", "body", "body", "out">>,
                        <<E(1, 0, 2, 0, 1, 1, 0), E(1, 1, 4, 0, 1, 2, 0), E(2, 0, 3, 0, 1, 1, 0)>>))}
=============================================================================

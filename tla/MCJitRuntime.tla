----------------------------- MODULE MCJitRuntime -----------------------------
(* JitRuntime on small graphs.  A run picks a graph, its rounds and a       *)
(* mapping; the constraints follow as the scheduler computes them.          *)
EXTENDS JitRuntime, FiniteSetsExt

MCJobs == 1..NJobs
MCLRT == 0..(nLrt - 1)

OnPE(pe) == {j \in MCJobs : mappedPE[j] = pe}
MCJobID == [j \in MCJobs |-> Cardinality({i \in OnPE(mappedPE[j]) : i < j})]
MCNJobPerPE == [pe \in MCLRT |-> Cardinality(OnPE(pe))]
MCJobs2Wait ==
  [j \in MCJobs |-> [pe \in MCLRT |->
     Max({-1} \cup {jobID[p] : p \in preds[j] \cap OnPE(pe)})]]

(* In the last round LRT 1 reads what the GRT's configuration job produced. *)
FromGrtPreds == <<{}, {1}>>
FromGrtMapping == <<0, 1>>

(* In the last round LRT 2 reads what LRT 1's configuration job produced.   *)
FromLrtMapping == <<1, 2>>

(* Two configuration jobs, the second one reads the first one's data.  In   *)
(* the last round LRT 2 has a job of its own.                               *)
TailPreds == <<{}, {1}, {}>>
TailMapping == <<1, 2, 2>>
TailRounds == <<1, 1, 2>>
TailConfig == {1, 2}

(* Three rounds on two LRTs: configuration job 1 on LRT 1; then job 2 there  *)
(* for the GRT's configuration job 3; last a chain to LRT 1 and back.       *)
ReturnPreds == <<{}, {}, {2}, {3}, {4}, {5}>>
ReturnMapping == <<1, 1, 0, 0, 1, 0>>
ReturnRounds == <<1, 2, 2, 3, 3, 3>>
ReturnConfig == {1, 3}

TwoRounds == <<1, 2>>
FirstConfig == {1}
DisabledMapping == <<2, 0>>
WithoutLrt1 == MCLRT \ {1}
AllActivated == MCLRT
OnlyGrt == {0}
NoLazyPoster == {}
=============================================================================

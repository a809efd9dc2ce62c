--------------------------- MODULE MCStaticRuntime ---------------------------
(* StaticRuntime on small graphs.  A run picks a graph and a mapping; the   *)
(* schedule follows from them as the scheduler computes it (SRDAGScheduler). *)
EXTENDS StaticRuntime, FiniteSetsExt

MCJobs == 1..NJobs
MCLRT == 0..(nLrt - 1)

OnPE(pe) == {j \in MCJobs : mappedPE[j] = pe}
MCJobID == [j \in MCJobs |-> Cardinality({i \in OnPE(mappedPE[j]) : i < j})]
MCNJobPerPE == [pe \in MCLRT |-> Cardinality(OnPE(pe))]
MCJobs2Wait ==
  [j \in MCJobs |-> [pe \in MCLRT |->
     Max({-1} \cup {jobID[p] : p \in preds[j] \cap OnPE(pe)})]]
MCLrts2Notify ==
  [p \in MCJobs |-> [pe \in MCLRT |->
     \E j \in OnPE(pe) : jobs2Wait[j][mappedPE[p]] = jobID[p]]]

(* A braid over three LRTs: LRT 1 sends LRT 2 two stamps in a row, waits    *)
(* for LRT 2 in turn, and the GRT is done early.                            *)
BraidPreds == <<{}, {}, {1}, {2}, {2, 4}, {2}>>
BraidMapping == <<1, 1, 2, 2, 1, 0>>

(* To LRT 2 and back to LRT 1, and from LRT 1 to the GRT.                   *)
RelayPreds == <<{}, {1}, {2}, {1}>>
RelayMapping == <<1, 2, 1, 0>>

(* The GRT has no job.  LRT 1 sends LRT 2 two stamps in a row, and waits    *)
(* for LRT 2 in turn.                                                       *)
ZigzagPreds == <<{}, {}, {1}, {2}, {4}>>
ZigzagMapping == <<1, 1, 2, 2, 1>>

(* Nothing is mapped on LRT 2.                                              *)
IdlePreds == <<{}, {1}>>
IdleMapping == <<1, 0>>

AllActivated == MCLRT
NoLazyPoster == {}
AllButLrt1 == {0, 2}
AllLazyPosters == MCLRT
=============================================================================

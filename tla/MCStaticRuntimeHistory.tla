----------------------- MODULE MCStaticRuntimeHistory ------------------------
(* StaticRuntimeHistory on the graphs of MCStaticRuntime.                   *)
EXTENDS MCStaticRuntime, StaticRuntimeHistory
=============================================================================

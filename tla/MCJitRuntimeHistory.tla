------------------------- MODULE MCJitRuntimeHistory -------------------------
(* JitRuntimeHistory on the graphs of MCJitRuntime.                         *)
EXTENDS MCJitRuntime, JitRuntimeHistory
=============================================================================

----------------------------- MODULE MCPipeline -----------------------------
(* One batch of two URLs, or of one, through the whole pipeline.             *)
EXTENDS Pipeline, TLC

CONSTANT b1

OneBatch == [u \in Url |-> b1]
Symm == Permutations(Url) \cup Permutations(Worker)
=============================================================================

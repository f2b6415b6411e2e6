---------------------------- MODULE MCBatchStore ----------------------------
(* Two batches: one of two URLs, where the last result and a cancellation    *)
(* race, and one of a single URL; two clients that may retry at once.        *)
EXTENDS BatchStore, TLC

CONSTANTS u1, u2, u3, b1, b2

MCBatchOf == (u1 :> b1) @@ (u2 :> b1) @@ (u3 :> b2)
Symm == Permutations({u1, u2}) \cup Permutations(Client)
=============================================================================

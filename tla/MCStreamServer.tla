--------------------------- MODULE MCStreamServer ---------------------------
(* StreamServer with a few requests, which differ in nothing but their name. *)
EXTENDS StreamServer, TLC

RequestSymmetry == Permutations(Requests)
=============================================================================

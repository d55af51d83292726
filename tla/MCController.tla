---------------------------- MODULE MCController ----------------------------
(* Controller on small sets: clients, sessions and settings are model values. *)
EXTENDS Controller, TLC

(* Sessions are used up one by one and differ in nothing but their name. *)
SessionSymmetry == Permutations(Sessions)

(* So are the clients and the values of the settings. *)
Symmetry ==
    Permutations(Sessions) \cup Permutations(Clients) \cup Permutations(Settings)
=============================================================================

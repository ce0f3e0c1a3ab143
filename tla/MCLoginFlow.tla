---------------------------- MODULE MCLoginFlow ----------------------------
(* States and symmetry for TLC's runs of LoginFlow. *)
EXTENDS LoginFlow, TLC

CONSTANTS l1, l2, s1, s2

MCStateOf == [l \in Logins |-> IF l = l1 THEN s1 ELSE s2]

CallSymmetry == Permutations(Calls)
=============================================================================

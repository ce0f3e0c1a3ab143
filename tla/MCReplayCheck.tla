--------------------------- MODULE MCReplayCheck ---------------------------
(* Proofs and symmetry for TLC's runs of ReplayCheck. *)
EXTENDS ReplayCheck, TLC

CONSTANTS r1, r2, r3, j1, IssuedAt, Lifetimes

\* A DPoP proof has no exp; a PoP or an assertion that has one outlives the caches.
MCProofs ==
    {[kind |-> kind, jti |-> j1, iat |-> iat, expires |-> kind # "dpop",
      exp |-> IF kind = "dpop" THEN 0 ELSE iat + life] :
        kind \in Kinds, iat \in IssuedAt, life \in Lifetimes}

RequestSymmetry == Permutations(Reqs)
=============================================================================

-------------------------- MODULE MCTokenEndpoint --------------------------
(* Model values and the attestation keys for TLC's runs of TokenEndpoint. *)
EXTENDS TokenEndpointRefinement, TLC

CONSTANTS c1, p1, r1, r2, r3, r4, k1, k2, wallet, backend

\* The wallet's attestation certifies k1; the backend has no attestation.
MCCnfKeys == [cl \in Clients |-> IF cl = wallet THEN {k1} ELSE {}]

RequestSymmetry == Permutations(Reqs)
=============================================================================

------------------------- MODULE MCSessionMetadata -------------------------
EXTENDS SessionMetadata, TLC

\* Requests and keys are interchangeable; the two logins are not.
RequestSymmetry == Permutations(Reqs) \cup Permutations(Keys)
=============================================================================

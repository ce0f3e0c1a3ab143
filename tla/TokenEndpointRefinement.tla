---------------------- MODULE TokenEndpointRefinement ----------------------
(* TokenEndpoint implements RefreshRotation. *)
EXTENDS TokenEndpointInv

\* The one request among the carriers of a family, if there is any.
Bearer(carriers) == IF carriers = {} THEN NoReq ELSE CHOOSE r \in carriers : TRUE

TokenOf(f) == Bearer({t \in Reqs : Stored(t, f)})
HolderOf(f) == Bearer({r \in Reqs : Holds(r, f)})

Current == [f \in Reqs |-> TokenOf(f)]
Holder == [f \in Reqs |-> HolderOf(f)]
Given == {r \in Reqs : req[r].rotated}

Rotation == INSTANCE RefreshRotation WITH
    Requests <- Reqs,
    Nobody <- NoReq,
    current <- Current,
    holder <- Holder,
    given <- Given

\* The refresh tokens of the token endpoint are batons: popped by one request
\* at a time, replaced only by the request that popped them, never revived
\* (token.go:316-369, store.go:247-274).
ImplementsRotation == Rotation!Spec
=============================================================================

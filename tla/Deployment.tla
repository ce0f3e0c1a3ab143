----------------------------- MODULE Deployment -----------------------------
(* What the login flow and the token endpoint of one process share. *)
CONSTANTS
    Clients,        \* client IDs
    NoClient,       \* the empty client ID
    Faults          \* whether store calls may fail and the process may crash

ASSUME DeploymentAssumption ==
    /\ NoClient \notin Clients
    /\ Faults \in BOOLEAN
=============================================================================

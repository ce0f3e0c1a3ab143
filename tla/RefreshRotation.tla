-------------------------- MODULE RefreshRotation --------------------------
(***************************************************************************)
(* What a rotating refresh token promises its holder, with no handler,     *)
(* cache or session in sight: a family of tokens is a baton.  It is either *)
(* in the store, under the name of the request that was given it, or in    *)
(* the hands of the one request that redeemed it, or lost for good.        *)
(***************************************************************************)
CONSTANTS
    Requests,
    Nobody      \* no request: not a member of Requests

VARIABLES
    current,    \* per family, the request whose token is stored
    holder,     \* per family, the request that redeemed the token
    given       \* the requests that were given a token

vars == <<current, holder, given>>

Init ==
    /\ current = [f \in Requests |-> Nobody]
    /\ holder = [f \in Requests |-> Nobody]
    /\ given = {}

\* A redemption of an authorization code opens the family named after it.
Open(f) ==
    /\ f \notin given
    /\ given' = given \cup {f}
    /\ current' = [current EXCEPT ![f] = f]
    /\ UNCHANGED holder

Redeem(f, r) ==
    /\ current[f] # Nobody
    /\ r \notin given
    /\ current' = [current EXCEPT ![f] = Nobody]
    /\ holder' = [holder EXCEPT ![f] = r]
    /\ UNCHANGED given

\* Only the holder can put the next token in the store.
Rotate(f) ==
    /\ holder[f] # Nobody
    /\ current' = [current EXCEPT ![f] = holder[f]]
    /\ holder' = [holder EXCEPT ![f] = Nobody]
    /\ given' = given \cup {holder[f]}

\* Expiry, a failed rotation, a rejected proof, a crash.
Lose(families) ==
    /\ current' = [f \in Requests |-> IF f \in families THEN Nobody ELSE current[f]]
    /\ holder' = [f \in Requests |-> IF f \in families THEN Nobody ELSE holder[f]]
    /\ UNCHANGED given

Next ==
    \/ \E f \in Requests : Open(f) \/ Rotate(f) \/ \E r \in Requests : Redeem(f, r)
    \/ \E families \in SUBSET Requests : Lose(families)

Spec == Init /\ [][Next]_vars
=============================================================================

-------------------------- MODULE TokenEndpointInv --------------------------
(***************************************************************************)
(* The inductive invariant behind the safety properties of TokenEndpoint.  *)
(* RequestInv is about one request and its session, CodeInv relates a      *)
(* request to the code caches, FamilyInv relates tokens and requests to    *)
(* the redemption their family goes back to.                               *)
(***************************************************************************)
EXTENDS TokenEndpoint

BeforeMint == {"idle", "getItem", "createSession", "redeem", "createRefresh",
               "getPreAuthItem", "validateTXCode", "deleteTXCode", "createPreAuth"}

RequestInv(r) ==
    /\ pc[r] = "idle" => req[r] = NoRequest
    /\ pc[r] \in AuthorizationSteps =>
          req[r].grant = "authorization_code" /\ req[r].code \in AllCodes
    /\ pc[r] \in PreAuthSteps =>
          req[r].grant = "pre-authorized_code" /\ req[r].code \in AllCodes
    /\ pc[r] \in RefreshSteps => req[r].grant = "refresh_token" /\ req[r].token \in Reqs
    /\ req[r].rotated => pc[r] \in {"ok", "lost"}
    /\ pc[r] \in BeforeMint => ~ sessions[r].live
    /\ sessions[r].live =>
          sessions[r].jkt = req[r].jkt /\ sessions[r].subject = req[r].item.code

\* What only holds of requests of the authorization_code grant.
AuthorizationInv(r) ==
    req[r].grant = "authorization_code" =>
        /\ req[r].attested => AttestationAdmits(req[r].clientID, req[r].jkt)
        /\ req[r].attested /\ (pc[r] = "createSession" \/ sessions[r].live) =>
              req[r].item.clientID = req[r].clientID
        /\ pc[r] \in {"deleteSession", "deleteItem", "issue"} => sessions[r].live
        /\ pc[r] = "issue" => req[r].jkt # NoKey
        /\ req[r].rotated => sessions[r].live /\ req[r].root = r /\ req[r].jkt # NoKey

\* An item is stored under its own code, after the code was issued.
StoredInv ==
    \A c \in AllCodes :
        LET item == authCodeCache[c] IN
        item # ZeroItem => c \in issued /\ item.code = c /\ (item.noTXCode => c \in PreCodes)

\* Whoever holds a copy of an item presented its code; with a tx_code to
\* validate the copy is no zero item, and once validated the code is an offer.
CopyInv(r) ==
    /\ req[r].grant # "refresh_token" /\ req[r].item # ZeroItem =>
          /\ req[r].item.code = req[r].code
          /\ req[r].code \in issued
          /\ req[r].code \in AllCodes
          /\ req[r].item.noTXCode => req[r].code \in PreCodes
    /\ pc[r] \in {"validateTXCode", "deleteTXCode", "createPreAuth"} => req[r].item # ZeroItem
    /\ pc[r] \in {"deleteTXCode", "createPreAuth"} =>
          MissReturnsZero \/ req[r].code \in PreCodes
    /\ req[r].grant = "pre-authorized_code" /\ sessions[r].live =>
          MissReturnsZero \/ req[r].item.code \in PreCodes

CodeInv == StoredInv /\ \A r \in Reqs : CopyInv(r)

Rooted(f, jkt, clientID, item) ==
    /\ f \in Reqs
    /\ req[f].grant = "authorization_code"
    /\ req[f].rotated
    /\ req[f].jkt = jkt
    /\ req[f].clientID = clientID
    /\ req[f].item = item

TokenRooted(t) ==
    LET tok == refreshTokenCache[t] IN
    tok # NoToken => req[t].rotated /\ Rooted(tok.root, tok.jkt, tok.clientID, tok.item)

RequestRooted(r) ==
    /\ req[r].grant = "refresh_token"
    /\ pc[r] \in {"createRefresh", "rotate"} \/ sessions[r].live
    => Rooted(req[r].root, req[r].jkt, req[r].clientID, req[r].item)

FamilyInv == \A r \in Reqs : TokenRooted(r) /\ RequestRooted(r)

LocalInv == \A r \in Reqs : RequestInv(r) /\ AuthorizationInv(r)

\* What families and their rotation rest on: it does not matter to them whether a
\* code is stored once or again.
RotationInv ==
    /\ TypeOK
    /\ LocalInv
    /\ FamilyInv
    /\ RefreshFamilyLinear

Inv ==
    /\ RotationInv
    /\ CodeInv
    /\ AnsweredCodeIsSpent
=============================================================================

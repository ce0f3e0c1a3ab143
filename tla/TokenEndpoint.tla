--------------------------- MODULE TokenEndpoint ---------------------------
(***************************************************************************)
(* POST /api/1.0/token for the three grants of the package                 *)
(* authorizationcode, over the caches of its Store:                        *)
(*                                                                         *)
(*   authCodeCache      authorization codes AND pre-authorized codes       *)
(*   preAuthCache       the tx_code of a pre-authorized code               *)
(*   refreshTokenCache  rotating refresh tokens                            *)
(*   sessions           the session store (its IDs are the access tokens)  *)
(*                                                                         *)
(* A handler is a sequence of calls to those stores.  Each call is atomic, *)
(* a handler is not: between two calls of one request any other request    *)
(* may run.  So each action below is one call with the local code that     *)
(* follows it.  Identifiers made by ulid.Make or crypto/rand are fresh: a  *)
(* session or refresh token made for request r is named r.                 *)
(*                                                                         *)
(* An operator whose comment begins with "Variant:" is a plausible mistake *)
(* in the definition that follows it; PROJECT.json says which property     *)
(* finds it.                                                               *)
(***************************************************************************)
EXTENDS Deployment

CONSTANTS
    Codes,            \* authorization codes (the ID of a login's correlation)
    PreCodes,         \* pre-authorized codes
    NoCode,           \* the empty code of a zero AuthCodeItem
    Reqs,             \* token requests
    NoReq,            \* no request (the root of no refresh token family)
    IssuerBackend,    \* "issuer-backend", the client ID of pre-auth items
    Keys,             \* DPoP key thumbprints
    NoKey,            \* the empty thumbprint: the request has no DPoP header
    DPoPClients,      \* clients whose metadata has token_binding = "dpop"
    CnfKeys,          \* keys the attestations (WIA cnf) of a client certify
    RequireKeyBinding,    \* CLIENT_ATTESTATION_REQUIRE_KEY_BINDING
    RequireAttestation,   \* REQUIRE_CLIENT_ATTESTATION_PREAUTH
    MissReturnsZero   \* what cache Get does on a missing key: TRUE when it
                      \* returns the zero value, FALSE when it returns an error

AllCodes == Codes \cup PreCodes

ASSUME DistinctAssumption ==
    /\ Codes \cap PreCodes = {}
    /\ NoCode \notin AllCodes
    /\ NoReq \notin Reqs
    /\ Reqs \cap AllCodes = {}
    /\ IssuerBackend \notin Clients \cup {NoClient}
    /\ NoKey \notin Keys

ASSUME ConfigAssumption ==
    /\ DPoPClients \subseteq Clients
    /\ CnfKeys \in [Clients -> SUBSET Keys]
    /\ RequireKeyBinding \in BOOLEAN
    /\ RequireAttestation \in BOOLEAN
    /\ MissReturnsZero \in BOOLEAN

VARIABLES
    issued,             \* codes already generated (ulid.Make never repeats)
    authCodeCache,
    preAuthCache,
    refreshTokenCache,
    sessions,
    pc,                 \* where the handler of a request is
    req                 \* the request: what it presented, its handler's locals

vars == <<issued, authCodeCache, preAuthCache, refreshTokenCache, sessions, pc, req>>

(***************************************************************************)
(* Stored values.                                                          *)
(***************************************************************************)

\* An authorization code item carries a PKCE challenge and a redirect_uri; an
\* item whose code is not in Codes has both empty.
AuthCodeItem == [code     : AllCodes \cup {NoCode},
                 clientID : Clients \cup {IssuerBackend, NoClient},
                 noTXCode : BOOLEAN]

ZeroItem == [code |-> NoCode, clientID |-> NoClient, noTXCode |-> FALSE]

\* root is history: the request whose authorization code the family of
\* rotated tokens goes back to.
RefreshTokenItem == [clientID : Clients \cup {NoClient},
                     jkt      : Keys \cup {NoKey},
                     item     : AuthCodeItem,
                     root     : Reqs \cup {NoReq}]

NoToken == [clientID |-> NoClient, jkt |-> NoKey, item |-> ZeroItem, root |-> NoReq]

\* subject stands for the user: the code whose login or offer named them.
Session == [live    : BOOLEAN,
            subject : AllCodes \cup {NoCode},
            jkt     : Keys \cup {NoKey}]

NoSession == [live |-> FALSE, subject |-> NoCode, jkt |-> NoKey]

(***************************************************************************)
(* Requests.                                                               *)
(***************************************************************************)

AuthorizationSteps == {"getItem", "createSession", "deleteSession", "deleteItem", "issue"}
PreAuthSteps == {"getPreAuthItem", "validateTXCode", "deleteTXCode", "createPreAuth", "deletePreAuth"}
RefreshSteps == {"redeem", "createRefresh", "rotate"}
Running == AuthorizationSteps \cup PreAuthSteps \cup RefreshSteps
Answered == {"ok", "refused", "failed"}
Steps == {"idle", "lost"} \cup Running \cup Answered

Grants == {"none", "authorization_code", "refresh_token", "pre-authorized_code"}

Request == [grant    : Grants,
            code     : AllCodes \cup {NoCode},   \* the code presented
            token    : Reqs \cup {NoReq},        \* the refresh token presented
            jkt      : Keys \cup {NoKey},
            attested : BOOLEAN,
            clientID : Clients \cup {NoClient},
            item     : AuthCodeItem,             \* tempData / item
            root     : Reqs \cup {NoReq},
            rotated  : BOOLEAN]                  \* the answer has a refresh token

NoRequest == [grant |-> "none", code |-> NoCode, token |-> NoReq, jkt |-> NoKey,
              attested |-> FALSE, clientID |-> NoClient, item |-> ZeroItem,
              root |-> NoReq, rotated |-> FALSE]

Init ==
    /\ issued = {}
    /\ authCodeCache = [c \in AllCodes |-> ZeroItem]
    /\ preAuthCache = {}
    /\ refreshTokenCache = [r \in Reqs |-> NoToken]
    /\ sessions = [s \in Reqs \cup Codes |-> NoSession]
    /\ pc = [r \in Reqs |-> "idle"]
    /\ req = [r \in Reqs |-> NoRequest]

Goto(r, step) == pc' = [pc EXCEPT ![r] = step]

Arrive(r, request, step) ==
    /\ pc[r] = "idle"
    /\ req' = [req EXCEPT ![r] = request]
    /\ Goto(r, step)
    /\ UNCHANGED <<issued, authCodeCache, preAuthCache, refreshTokenCache, sessions>>

\* A local early return: nothing but the control state moves.
Answer(r, step, verdict) ==
    /\ pc[r] = step
    /\ Goto(r, verdict)
    /\ UNCHANGED <<issued, authCodeCache, preAuthCache, refreshTokenCache, sessions, req>>

(***************************************************************************)
(* The other actors: logins, the issuer's offers, time.                    *)
(***************************************************************************)

\* Variant: client and code swapped.
CallbackSwapped(c, cl) ==
    /\ c \notin issued
    /\ issued' = issued \cup {c}
    /\ authCodeCache' = [authCodeCache EXCEPT ![c] =
                            [code |-> cl, clientID |-> c, noTXCode |-> FALSE]]
    /\ UNCHANGED <<preAuthCache, refreshTokenCache, sessions, pc, req>>

\* Variant: a login may end twice in the same code.
CallbackRepeated(c, cl) ==
    /\ authCodeCache[c] = ZeroItem
    /\ issued' = issued \cup {c}
    /\ authCodeCache' = [authCodeCache EXCEPT ![c] =
                            [code |-> c, clientID |-> cl, noTXCode |-> FALSE]]
    /\ UNCHANGED <<preAuthCache, refreshTokenCache, sessions, pc, req>>

\* authorizationcode.Callback: a login of client cl ends in a code.
Callback(c, cl) ==
    /\ c \notin issued
    /\ issued' = issued \cup {c}
    /\ authCodeCache' = [authCodeCache EXCEPT ![c] =
                            [code |-> c, clientID |-> cl, noTXCode |-> FALSE]]
    /\ UNCHANGED <<preAuthCache, refreshTokenCache, sessions, pc, req>>

\* completeCallback and its like when no state is stored: the session gets the
\* ID of the correlation, which is also the code if another callback of the
\* same login mints one, before or after.
CreateInteractive(c) ==
    /\ ~ sessions[c].live
    /\ sessions' = [sessions EXCEPT ![c] = [live |-> TRUE, subject |-> c, jkt |-> NoKey]]
    /\ UNCHANGED <<issued, authCodeCache, preAuthCache, refreshTokenCache, pc, req>>

\* preauthGenerate: SetItem, then SetTXCode unless no_tx_code.  When SetTXCode
\* fails the item stays behind.  Nobody knows the code before the answer, so
\* the two calls are one step.
PreauthGenerate(c) ==
    /\ c \notin issued
    /\ issued' = issued \cup {c}
    /\ \E noTX \in BOOLEAN :
          /\ authCodeCache' = [authCodeCache EXCEPT ![c] =
                 [code |-> c, clientID |-> IssuerBackend, noTXCode |-> noTX]]
          /\ \/ noTX /\ UNCHANGED preAuthCache
             \/ ~ noTX /\ preAuthCache' = preAuthCache \cup {c}
             \/ ~ noTX /\ Faults /\ UNCHANGED preAuthCache
    /\ UNCHANGED <<refreshTokenCache, sessions, pc, req>>

ExpireCode(c) ==
    /\ authCodeCache[c] # ZeroItem
    /\ authCodeCache' = [authCodeCache EXCEPT ![c] = ZeroItem]
    /\ UNCHANGED <<issued, preAuthCache, refreshTokenCache, sessions, pc, req>>

ExpireTXCode(c) ==
    /\ c \in preAuthCache
    /\ preAuthCache' = preAuthCache \ {c}
    /\ UNCHANGED <<issued, authCodeCache, refreshTokenCache, sessions, pc, req>>

ExpireRefreshToken(t) ==
    /\ refreshTokenCache[t] # NoToken
    /\ refreshTokenCache' = [refreshTokenCache EXCEPT ![t] = NoToken]
    /\ UNCHANGED <<issued, authCodeCache, preAuthCache, sessions, pc, req>>

\* The process dies: every handler stops where it is.  The caches and the
\* session store survive (Redis); in-memory caches are this and Expire steps.
Crash ==
    /\ Faults
    /\ \E r \in Reqs : pc[r] \in Running
    /\ pc' = [r \in Reqs |-> IF pc[r] \in Running THEN "lost" ELSE pc[r]]
    /\ UNCHANGED <<issued, authCodeCache, preAuthCache, refreshTokenCache, sessions, req>>

(***************************************************************************)
(* Parts the handlers share.                                               *)
(***************************************************************************)

\* What cache Get returns for a missing key decides what the handler sees.
Found(item) == item # ZeroItem \/ MissReturnsZero

\* A verified attestation of cl that certifies key cnf: a DPoP proof is
\* mandatory, and with key binding it must be by the attested key.
AttestationAdmits(cl, k) ==
    \E cnf \in CnfKeys[cl] : k # NoKey /\ (RequireKeyBinding => k = cnf)

BasicAdmits(cl, k) == cl \in DPoPClients => k # NoKey

MintSession(r) ==
    sessions' = [sessions EXCEPT ![r] =
                    [live |-> TRUE, subject |-> req[r].item.code, jkt |-> req[r].jkt]]

\* The handler returns; with faults the answer may never reach the client.
Finish(r) ==
    \/ Goto(r, "ok")
    \/ Faults /\ Goto(r, "lost")

StoreToken(r, item) == refreshTokenCache' = [refreshTokenCache EXCEPT ![r] = item]

\* A request turned down before any store is read: bad proof or attestation,
\* wrong credentials, missing parameter.
Refuse(r) == Arrive(r, NoRequest, "refused")

(***************************************************************************)
(* HandleAuthorization: grant_type=authorization_code.                     *)
(***************************************************************************)

BeginAuthorization(r) ==
    \E c \in AllCodes, cl \in Clients, k \in Keys \cup {NoKey}, attested \in BOOLEAN :
        /\ IF attested THEN AttestationAdmits(cl, k) ELSE BasicAdmits(cl, k)
        /\ Arrive(r, [NoRequest EXCEPT !.grant = "authorization_code", !.code = c,
                          !.clientID = cl, !.jkt = k, !.attested = attested], "getItem")

\* presented stands for the pair (code_verifier, redirect_uri): "match" the
\* values the code was issued for, "empty" both absent, "other" anything else.
Presents(item, presented) ==
    presented = IF item.code \in Codes THEN "match" ELSE "empty"

\* Variant: the attested client is not compared with the code's.
GetItemOfAnyone(r) ==
    /\ pc[r] = "getItem"
    /\ LET item == authCodeCache[req[r].code] IN
       /\ Found(item)
       /\ req' = [req EXCEPT ![r].item = item]
       /\ Goto(r, "createSession")
    /\ UNCHANGED <<issued, authCodeCache, preAuthCache, refreshTokenCache, sessions>>

GetItem(r) ==
    /\ pc[r] = "getItem"
    /\ LET item == authCodeCache[req[r].code] IN
       \E presented \in {"match", "empty", "other"} :
          IF /\ Found(item)
             /\ Presents(item, presented)
             /\ req[r].attested => item.clientID = req[r].clientID
          THEN /\ req' = [req EXCEPT ![r].item = item]
               /\ Goto(r, "createSession")
          ELSE /\ Goto(r, "refused")
               /\ UNCHANGED req
    /\ UNCHANGED <<issued, authCodeCache, preAuthCache, refreshTokenCache, sessions>>

\* With faults a call may report an error although the store did what it was
\* asked: here, in CreateRefresh, CreatePreAuth and Redeem.
CreateSession(r) ==
    \/ /\ pc[r] = "createSession"
       /\ MintSession(r)
       /\ Goto(r, "deleteSession") \/ (Faults /\ Goto(r, "failed"))
       /\ UNCHANGED <<issued, authCodeCache, preAuthCache, refreshTokenCache, req>>
    \/ Faults /\ Answer(r, "createSession", "failed")

\* Session().Delete(req.Code): a failure is only logged.
DeleteSession(r) ==
    \/ /\ pc[r] = "deleteSession"
       /\ sessions' = [s \in Reqs \cup Codes |->
                          IF s = req[r].code THEN NoSession ELSE sessions[s]]
       /\ Goto(r, "deleteItem")
       /\ UNCHANGED <<issued, authCodeCache, preAuthCache, refreshTokenCache, req>>
    \/ Faults /\ Answer(r, "deleteSession", "deleteItem")

\* Variant: the error is discarded, as HandlePreAuthorized does.
DeleteItemUnchecked(r) ==
    /\ pc[r] = "deleteItem"
    /\ \/ authCodeCache' = [authCodeCache EXCEPT ![req[r].code] = ZeroItem]
       \/ Faults /\ UNCHANGED authCodeCache
    /\ IF req[r].jkt = NoKey THEN Finish(r) ELSE Goto(r, "issue")
    /\ UNCHANGED <<issued, preAuthCache, refreshTokenCache, sessions, req>>

\* Variant: waits until there is an item to delete.
DeleteItemWaiting(r) ==
    /\ pc[r] = "deleteItem"
    /\ authCodeCache[req[r].code] # ZeroItem
    /\ authCodeCache' = [authCodeCache EXCEPT ![req[r].code] = ZeroItem]
    /\ IF req[r].jkt = NoKey THEN Finish(r) ELSE Goto(r, "issue")
    /\ UNCHANGED <<issued, preAuthCache, refreshTokenCache, sessions, req>>

\* A failure answers 500 although the session exists.
DeleteItem(r) ==
    \/ /\ pc[r] = "deleteItem"
       /\ authCodeCache' = [authCodeCache EXCEPT ![req[r].code] = ZeroItem]
       /\ IF req[r].jkt = NoKey THEN Finish(r) ELSE Goto(r, "issue")
       /\ UNCHANGED <<issued, preAuthCache, refreshTokenCache, sessions, req>>
    \/ Faults /\ Answer(r, "deleteItem", "failed")

\* IssueRefreshToken, DPoP-bound sessions only: a failure is only logged.
IssueRefreshToken(r) ==
    \/ /\ pc[r] = "issue"
       /\ StoreToken(r, [clientID |-> req[r].clientID, jkt |-> req[r].jkt,
                         item |-> req[r].item, root |-> r])
       /\ req' = [req EXCEPT ![r].root = r, ![r].rotated = TRUE]
       /\ Finish(r)
       /\ UNCHANGED <<issued, authCodeCache, preAuthCache, sessions>>
    \/ Faults /\ Answer(r, "issue", "ok")

(***************************************************************************)
(* HandleRefreshToken: grant_type=refresh_token.                           *)
(***************************************************************************)

\* A client presents a token some answer gave it, with a proof by any key.
BeginRefresh(r) ==
    \E t \in Reqs, k \in Keys :
        /\ pc[t] = "ok"
        /\ req[t].rotated
        /\ Arrive(r, [NoRequest EXCEPT !.grant = "refresh_token", !.token = t, !.jkt = k],
                  "redeem")

Inherit(r, tok) ==
    req' = [req EXCEPT ![r].clientID = tok.clientID, ![r].item = tok.item, ![r].root = tok.root]

\* Variant: reads the token and leaves it stored.
RedeemByGet(r) ==
    /\ pc[r] = "redeem"
    /\ refreshTokenCache[req[r].token] # NoToken
    /\ refreshTokenCache[req[r].token].jkt = req[r].jkt
    /\ Inherit(r, refreshTokenCache[req[r].token])
    /\ Goto(r, "createRefresh")
    /\ UNCHANGED <<issued, authCodeCache, preAuthCache, refreshTokenCache, sessions>>

\* Variant: the proof's key is not compared with the token's.
RedeemWithAnyKey(r) ==
    /\ pc[r] = "redeem"
    /\ refreshTokenCache[req[r].token] # NoToken
    /\ refreshTokenCache' = [refreshTokenCache EXCEPT ![req[r].token] = NoToken]
    /\ Inherit(r, refreshTokenCache[req[r].token])
    /\ Goto(r, "createRefresh")
    /\ UNCHANGED <<issued, authCodeCache, preAuthCache, sessions>>

\* RedeemRefreshToken pops the token before the key is compared.
Redeem(r) ==
    \/ /\ pc[r] = "redeem"
       /\ LET item == refreshTokenCache[req[r].token] IN
          /\ item # NoToken
          /\ refreshTokenCache' = [refreshTokenCache EXCEPT ![req[r].token] = NoToken]
          /\ IF item.jkt = req[r].jkt
             THEN \/ Inherit(r, item) /\ Goto(r, "createRefresh")
                  \/ Faults /\ Goto(r, "refused") /\ UNCHANGED req
             ELSE Goto(r, "refused") /\ UNCHANGED req
       /\ UNCHANGED <<issued, authCodeCache, preAuthCache, sessions>>
    \/ /\ Answer(r, "redeem", "refused")
       /\ refreshTokenCache[req[r].token] = NoToken \/ Faults

CreateRefresh(r) ==
    \/ /\ pc[r] = "createRefresh"
       /\ MintSession(r)
       /\ Goto(r, "rotate") \/ (Faults /\ Goto(r, "failed"))
       /\ UNCHANGED <<issued, authCodeCache, preAuthCache, refreshTokenCache, req>>
    \/ Faults /\ Answer(r, "createRefresh", "failed")

Rotate(r) ==
    \/ /\ pc[r] = "rotate"
       /\ StoreToken(r, [clientID |-> req[r].clientID, jkt |-> req[r].jkt,
                         item |-> req[r].item, root |-> req[r].root])
       /\ req' = [req EXCEPT ![r].rotated = TRUE]
       /\ Finish(r)
       /\ UNCHANGED <<issued, authCodeCache, preAuthCache, sessions>>
    \/ Faults /\ Answer(r, "rotate", "ok")

(***************************************************************************)
(* HandlePreAuthorized: grant_type=...:pre-authorized_code.                *)
(***************************************************************************)

BeginPreAuthorized(r) ==
    \E c \in AllCodes, k \in Keys \cup {NoKey}, attested \in BOOLEAN :
        /\ attested => \E cl \in Clients : AttestationAdmits(cl, k)
        /\ RequireAttestation => attested
        /\ Arrive(r, [NoRequest EXCEPT !.grant = "pre-authorized_code", !.code = c,
                          !.jkt = k, !.attested = attested], "getPreAuthItem")

\* No PKCE, and the zero item is refused whatever Get does on a miss.
GetPreAuthItem(r) ==
    \/ /\ pc[r] = "getPreAuthItem"
       /\ LET item == authCodeCache[req[r].code] IN
          /\ item.code # NoCode
          /\ req' = [req EXCEPT ![r].item = item]
          /\ Goto(r, IF item.noTXCode THEN "createPreAuth" ELSE "validateTXCode")
       /\ UNCHANGED <<issued, authCodeCache, preAuthCache, refreshTokenCache, sessions>>
    \/ /\ Answer(r, "getPreAuthItem", "refused")
       /\ authCodeCache[req[r].code].code = NoCode \/ Faults

\* Variant: without an entry there is nothing to compare.
TXCodeMatchesIfAny(c, txCode) == c \in preAuthCache => txCode = "stored"

\* strconv.Itoa of a missing entry is "0" when Get returns the zero value.
TXCodeMatches(c, txCode) ==
    IF c \in preAuthCache THEN txCode = "stored" ELSE MissReturnsZero /\ txCode = "0"

ValidateTXCode(r) ==
    \E txCode \in {"stored", "0", "other"} :
        Answer(r, "validateTXCode",
               IF TXCodeMatches(req[r].code, txCode) THEN "deleteTXCode" ELSE "refused")

\* The error of DeleteTXCode is discarded.
DeleteTXCode(r) ==
    \/ /\ pc[r] = "deleteTXCode"
       /\ preAuthCache' = preAuthCache \ {req[r].code}
       /\ Goto(r, "createPreAuth")
       /\ UNCHANGED <<issued, authCodeCache, refreshTokenCache, sessions, req>>
    \/ Faults /\ Answer(r, "deleteTXCode", "createPreAuth")

\* The optional client_id is only looked at after the tx_code is spent.
CreatePreAuth(r) ==
    \/ /\ pc[r] = "createPreAuth"
       /\ MintSession(r)
       /\ Goto(r, "deletePreAuth") \/ (Faults /\ Goto(r, "failed"))
       /\ UNCHANGED <<issued, authCodeCache, preAuthCache, refreshTokenCache, req>>
    \/ /\ req[r].jkt = NoKey /\ DPoPClients # {}
       /\ Answer(r, "createPreAuth", "refused")
    \/ Faults /\ Answer(r, "createPreAuth", "failed")

\* The error of DeleteItem is discarded.
DeletePreAuth(r) ==
    \/ /\ pc[r] = "deletePreAuth"
       /\ authCodeCache' = [authCodeCache EXCEPT ![req[r].code] = ZeroItem]
       /\ Finish(r)
       /\ UNCHANGED <<issued, preAuthCache, refreshTokenCache, sessions, req>>
    \/ Faults /\ Answer(r, "deletePreAuth", "ok")

(***************************************************************************)
(* The specification.                                                      *)
(***************************************************************************)

Step(r) ==
    \/ GetItem(r) \/ CreateSession(r) \/ DeleteSession(r) \/ DeleteItem(r)
    \/ IssueRefreshToken(r)
    \/ Redeem(r) \/ CreateRefresh(r) \/ Rotate(r)
    \/ GetPreAuthItem(r) \/ ValidateTXCode(r) \/ DeleteTXCode(r) \/ CreatePreAuth(r)
    \/ DeletePreAuth(r)

Begin(r) ==
    \/ Refuse(r) \/ BeginAuthorization(r) \/ BeginRefresh(r) \/ BeginPreAuthorized(r)

Expire ==
    \/ \E c \in AllCodes : ExpireCode(c)
    \/ \E c \in PreCodes : ExpireTXCode(c)
    \/ \E t \in Reqs : ExpireRefreshToken(t)

Next ==
    \/ \E r \in Reqs : Begin(r) \/ Step(r)
    \/ \E c \in Codes, cl \in Clients : Callback(c, cl)
    \/ \E c \in Codes : CreateInteractive(c)
    \/ \E c \in PreCodes : PreauthGenerate(c)
    \/ Expire
    \/ Crash

Spec == Init /\ [][Next]_vars

\* A handler that is running keeps running; an entry outlives its TTL by no
\* more than a while.  Nothing obliges a client to send or a user to log in.
Fairness ==
    /\ \A r \in Reqs : WF_vars(Step(r))
    /\ \A c \in AllCodes : WF_vars(ExpireCode(c))

FairSpec == Spec /\ Fairness

(***************************************************************************)
(* Properties.                                                             *)
(***************************************************************************)

\* Type correctness of the caches, the session store and the handlers' locals.
TypeOK ==
    /\ issued \subseteq AllCodes
    /\ authCodeCache \in [AllCodes -> AuthCodeItem]
    /\ preAuthCache \subseteq PreCodes
    /\ refreshTokenCache \in [Reqs -> RefreshTokenItem]
    /\ sessions \in [Reqs \cup Codes -> Session]
    /\ pc \in [Reqs -> Steps]
    /\ req \in [Reqs -> Request]

Minted(r, grant) == req[r].grant = grant /\ sessions[r].live

\* The request a session goes back to: itself, or the root of its family.
Origin(r) == IF req[r].grant = "refresh_token" THEN req[r].root ELSE r

\* The code is out of the cache, for good, before HandleAuthorization answers or
\* issues a refresh token (token.go:253), whatever store calls failed on the way
\* and whoever else was redeeming it: no answer is ever given over a live code.
AnsweredCodeIsSpent ==
    \A r \in Reqs :
        /\ req[r].grant = "authorization_code"
        /\ pc[r] \in {"issue", "ok"} \/ req[r].rotated
        /\ req[r].item # ZeroItem
        => authCodeCache[req[r].code] = ZeroItem

\* Rotation never forks: of all the tokens that go back to one redemption, at
\* most one is stored or in the hands of a handler that popped it and has not
\* yet stored its successor (token.go:316, 358; store.go:265).
Holds(r, f) == pc[r] \in {"createRefresh", "rotate"} /\ req[r].root = f
Stored(t, f) == refreshTokenCache[t] # NoToken /\ refreshTokenCache[t].root = f

RefreshFamilyLinear ==
    \A f, a, b \in Reqs :
        (Stored(a, f) \/ Holds(a, f)) /\ (Stored(b, f) \/ Holds(b, f)) => a = b

\* A family stays what its first redemption made it: every stored token and
\* every session minted by rotation has the key, the client and the user of
\* the authorization_code request at its root (token.go:328, 346, 358).
SenderConstrained ==
    /\ \A t \in Reqs :
          LET tok == refreshTokenCache[t] IN
          tok # NoToken =>
             /\ tok.root \in Reqs
             /\ tok.jkt # NoKey
             /\ tok.jkt = req[tok.root].jkt
             /\ tok.clientID = req[tok.root].clientID
             /\ tok.item = req[tok.root].item
    /\ \A r \in Reqs :
          Minted(r, "refresh_token") =>
             /\ req[r].root \in Reqs
             /\ sessions[r].jkt = sessions[req[r].root].jkt
             /\ sessions[r].subject = sessions[req[r].root].subject

\* A session that goes back to an attested wallet instance, through any number
\* of rotations, is DPoP-bound, for a code issued to that client, and under key
\* binding to a key its attestation certifies (token.go:70, 82, 189).
AttestedSessionBound ==
    \A r \in Reqs :
        sessions[r].live /\ req[r].grant \in {"authorization_code", "refresh_token"} =>
            LET o == req[Origin(r)] IN
            o.attested =>
                /\ sessions[r].jkt # NoKey
                /\ o.item.clientID = o.clientID
                /\ RequireKeyBinding => sessions[r].jkt \in CnfKeys[o.clientID]

\* Although both grants read one cache, the pre-authorized grant, which checks
\* no PKCE verifier, never mints a session for an authorization code: only the
\* missing tx_code entry stops it (token.go:471).  It needs Get to report a miss.
PreAuthGrantRedeemsOffers ==
    \A r \in Reqs : Minted(r, "pre-authorized_code") => req[r].item.code \in PreCodes

\* The authorization_code grant redeems codes: the session it mints is the one a
\* login or an offer stored under the code presented (token.go:161).
AuthorizationRedeemsCodes ==
    \A r \in Reqs :
        Minted(r, "authorization_code") =>
            req[r].code \in issued /\ sessions[r].subject = req[r].code

\* One code, one answer: of all requests that present a code to the grant of codes,
\* one at most is answered with a session (README.md:162).
CodeAnsweredOnce ==
    LET answered == {r \in Reqs : pc[r] = "ok" /\ req[r].grant = "authorization_code"} IN
    \A a, b \in answered : req[a].code = req[b].code => a = b

\* Every request that begins is answered, or lost in a crash, whatever fails.
RequestsEnd ==
    \A r \in Reqs : pc[r] \in Running ~> pc[r] \in Answered \cup {"lost"}

\* A code that is used or not, whose deletion fails or is never reached, leaves
\* the cache for good: its TTL runs out and nothing stores it again.
CodesRetire ==
    \A c \in AllCodes : authCodeCache[c] # ZeroItem ~> [](authCodeCache[c] = ZeroItem)
=============================================================================

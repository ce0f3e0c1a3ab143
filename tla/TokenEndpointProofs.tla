------------------------ MODULE TokenEndpointProofs ------------------------
(* Theorems about TokenEndpoint, for every value of its constants. *)
EXTENDS TokenEndpointRefinement, TLAPS

\* The values of pc, so that later proofs need not open the sets of steps.
LEMMA StepNames ==
    /\ {"idle", "lost", "ok", "refused", "failed"} \subseteq Steps
    /\ {"getItem", "createSession", "deleteSession", "deleteItem", "issue"} \subseteq Steps
    /\ {"redeem", "createRefresh", "rotate"} \subseteq Steps
    /\ {"getPreAuthItem", "validateTXCode", "deleteTXCode", "createPreAuth",
        "deletePreAuth"} \subseteq Steps
BY DEF Steps, Running, Answered, AuthorizationSteps, PreAuthSteps, RefreshSteps

\* The types of the values the handlers start from.
LEMMA ValueTypes ==
    /\ ZeroItem \in AuthCodeItem
    /\ NoToken \in RefreshTokenItem
    /\ NoSession \in Session
    /\ NoRequest \in Request
BY DEF ZeroItem, AuthCodeItem, NoToken, RefreshTokenItem, NoSession, Session,
       NoRequest, Request, Grants

\* A request that arrives is well typed when its record is.
LEMMA ArriveType ==
    ASSUME TypeOK, NEW r \in Reqs, NEW request \in Request, NEW step \in Steps,
           Arrive(r, request, step)
    PROVE  TypeOK'
BY DEF TypeOK, Arrive, Goto

\* An early return keeps the types.
LEMMA AnswerType ==
    ASSUME TypeOK, NEW r \in Reqs, NEW step, NEW verdict \in Steps,
           Answer(r, step, verdict)
    PROVE  TypeOK'
BY DEF TypeOK, Answer, Goto

\* The session a handler mints is well typed.
LEMMA MintSessionType ==
    ASSUME TypeOK, NEW r \in Reqs, MintSession(r)
    PROVE  sessions' \in [Reqs \cup Codes -> Session]
<1>1. req[r].jkt \in Keys \cup {NoKey} /\ req[r].item.code \in AllCodes \cup {NoCode}
    BY DEF TypeOK, Request, AuthCodeItem
<1>2. [live |-> TRUE, subject |-> req[r].item.code, jkt |-> req[r].jkt] \in Session
    BY <1>1 DEF Session
<1>3. QED
    BY <1>2 DEF TypeOK, MintSession

\* The token a handler stores is well typed.
LEMMA StoreTokenType ==
    ASSUME TypeOK, NEW r \in Reqs, NEW f \in Reqs \cup {NoReq},
           StoreToken(r, [clientID |-> req[r].clientID, jkt |-> req[r].jkt,
                          item |-> req[r].item, root |-> f])
    PROVE  refreshTokenCache' \in [Reqs -> RefreshTokenItem]
<1>1. /\ req[r].clientID \in Clients \cup {NoClient}
      /\ req[r].jkt \in Keys \cup {NoKey}
      /\ req[r].item \in AuthCodeItem
    BY DEF TypeOK, Request
<1>2. [clientID |-> req[r].clientID, jkt |-> req[r].jkt,
       item |-> req[r].item, root |-> f] \in RefreshTokenItem
    BY <1>1 DEF RefreshTokenItem
<1>3. QED
    BY <1>2 DEF TypeOK, StoreToken

\* The initial state is well typed.
LEMMA TypeInit == Init => TypeOK
BY ValueTypes, StepNames DEF Init, TypeOK, AllCodes

\* A handler that is about to use the code or token it was given has one.
LEMMA Presented ==
    ASSUME LocalInv, NEW r \in Reqs
    PROVE  /\ pc[r] \in {"getItem", "deleteItem", "getPreAuthItem", "deletePreAuth"} =>
                 req[r].code \in AllCodes
           /\ pc[r] = "redeem" => req[r].token \in Reqs
BY DEF LocalInv, RequestInv, AuthorizationSteps, PreAuthSteps, RefreshSteps

\* Every step keeps the types, given that running handlers hold a code or a token.
LEMMA TypeStep == TypeOK /\ LocalInv /\ [Next]_vars => TypeOK'
<1> SUFFICES ASSUME TypeOK, LocalInv, [Next]_vars PROVE TypeOK'
    OBVIOUS
<1> USE ValueTypes, StepNames
<1>1. ASSUME NEW r \in Reqs, Refuse(r) PROVE TypeOK'
    BY <1>1, ArriveType DEF Refuse
<1>2. ASSUME NEW r \in Reqs, BeginAuthorization(r) PROVE TypeOK'
    <2>1. PICK c \in AllCodes, cl \in Clients, k \in Keys \cup {NoKey}, attested \in BOOLEAN :
              Arrive(r, [NoRequest EXCEPT !.grant = "authorization_code", !.code = c,
                             !.clientID = cl, !.jkt = k, !.attested = attested], "getItem")
        BY <1>2 DEF BeginAuthorization
    <2>2. [NoRequest EXCEPT !.grant = "authorization_code", !.code = c,
               !.clientID = cl, !.jkt = k, !.attested = attested] \in Request
        BY DEF NoRequest, Request, Grants
    <2>3. QED
        BY <2>1, <2>2, ArriveType
<1>3. ASSUME NEW r \in Reqs, BeginRefresh(r) PROVE TypeOK'
    <2>1. PICK t \in Reqs, k \in Keys :
              Arrive(r, [NoRequest EXCEPT !.grant = "refresh_token", !.token = t,
                             !.jkt = k], "redeem")
        BY <1>3 DEF BeginRefresh
    <2>2. [NoRequest EXCEPT !.grant = "refresh_token", !.token = t, !.jkt = k] \in Request
        BY DEF NoRequest, Request, Grants
    <2>3. QED
        BY <2>1, <2>2, ArriveType
<1>4. ASSUME NEW r \in Reqs, BeginPreAuthorized(r) PROVE TypeOK'
    <2>1. PICK c \in AllCodes, k \in Keys \cup {NoKey}, attested \in BOOLEAN :
              Arrive(r, [NoRequest EXCEPT !.grant = "pre-authorized_code", !.code = c,
                             !.jkt = k, !.attested = attested], "getPreAuthItem")
        BY <1>4 DEF BeginPreAuthorized
    <2>2. [NoRequest EXCEPT !.grant = "pre-authorized_code", !.code = c,
               !.jkt = k, !.attested = attested] \in Request
        BY DEF NoRequest, Request, Grants
    <2>3. QED
        BY <2>1, <2>2, ArriveType
<1>5. ASSUME NEW r \in Reqs, GetItem(r) PROVE TypeOK'
    <2>1. pc' \in [Reqs -> Steps]
        BY <1>5 DEF TypeOK, GetItem, Goto
    <2>2. req' \in [Reqs -> Request]
        <3>1. CASE req' = req
            BY <3>1 DEF TypeOK
        <3>2. CASE req' = [req EXCEPT ![r].item = authCodeCache[req[r].code]]
            BY <1>5, <3>2, Presented DEF GetItem, TypeOK, Request
        <3>3. QED
            BY <1>5, <3>1, <3>2 DEF GetItem
    <2>3. QED
        BY <1>5, <2>1, <2>2 DEF TypeOK, GetItem
<1>6. ASSUME NEW r \in Reqs, CreateSession(r) PROVE TypeOK'
    BY <1>6, AnswerType, MintSessionType DEF CreateSession, TypeOK, Goto
<1>7. ASSUME NEW r \in Reqs, DeleteSession(r) PROVE TypeOK'
    BY <1>7, AnswerType DEF DeleteSession, TypeOK, Goto
<1>8. ASSUME NEW r \in Reqs, DeleteItem(r) PROVE TypeOK'
    BY <1>8, AnswerType, Presented DEF DeleteItem, TypeOK, Goto, Finish
<1>9. ASSUME NEW r \in Reqs, IssueRefreshToken(r) PROVE TypeOK'
    <2>1. CASE Answer(r, "issue", "ok")
        BY <2>1, AnswerType
    <2>2. CASE ~ Answer(r, "issue", "ok")
        <3>1. req' \in [Reqs -> Request]
            BY <1>9, <2>2 DEF IssueRefreshToken, TypeOK, Request
        <3>2. refreshTokenCache' \in [Reqs -> RefreshTokenItem]
            BY <1>9, <2>2, StoreTokenType DEF IssueRefreshToken
        <3>3. pc' \in [Reqs -> Steps]
            BY <1>9, <2>2 DEF IssueRefreshToken, TypeOK, Finish, Goto
        <3>4. QED
            BY <1>9, <2>2, <3>1, <3>2, <3>3 DEF IssueRefreshToken, TypeOK
    <2>3. QED
        BY <2>1, <2>2
<1>10. ASSUME NEW r \in Reqs, Redeem(r) PROVE TypeOK'
    <2>1. CASE Answer(r, "redeem", "refused")
        BY <2>1, AnswerType
    <2>2. CASE ~ Answer(r, "redeem", "refused")
        <3> DEFINE tok == refreshTokenCache[req[r].token]
        <3>1. tok \in RefreshTokenItem
            BY <1>10, <2>2, Presented DEF Redeem, Inherit, TypeOK
        <3>2. req' = req \/ req' = [req EXCEPT ![r].clientID = tok.clientID,
                                                ![r].item = tok.item, ![r].root = tok.root]
            BY <1>10, <2>2 DEF Redeem, Inherit
        <3>3. req' \in [Reqs -> Request]
            BY <3>1, <3>2 DEF TypeOK, Request, RefreshTokenItem
        <3>4. refreshTokenCache' \in [Reqs -> RefreshTokenItem]
            BY <1>10, <2>2 DEF Redeem, Inherit, TypeOK
        <3>5. pc' \in [Reqs -> Steps]
            BY <1>10, <2>2 DEF Redeem, Inherit, TypeOK, Goto
        <3>6. QED
            BY <1>10, <2>2, <3>3, <3>4, <3>5 DEF Redeem, Inherit, TypeOK
    <2>3. QED
        BY <2>1, <2>2
<1>11. ASSUME NEW r \in Reqs, CreateRefresh(r) PROVE TypeOK'
    BY <1>11, AnswerType, MintSessionType DEF CreateRefresh, TypeOK, Goto
<1>12. ASSUME NEW r \in Reqs, Rotate(r) PROVE TypeOK'
    <2>1. CASE Answer(r, "rotate", "ok")
        BY <2>1, AnswerType
    <2>2. CASE ~ Answer(r, "rotate", "ok")
        <3>0. req' = [req EXCEPT ![r].rotated = TRUE]
            BY <1>12, <2>2 DEF Rotate
        <3>1. req' \in [Reqs -> Request]
            BY <3>0 DEF TypeOK, Request
        <3>2. req[r].root \in Reqs \cup {NoReq}
            BY DEF TypeOK, Request
        <3>3. refreshTokenCache' \in [Reqs -> RefreshTokenItem]
            BY <1>12, <2>2, <3>2, StoreTokenType DEF Rotate
        <3>4. pc' \in [Reqs -> Steps]
            BY <1>12, <2>2 DEF Rotate, TypeOK, Finish, Goto
        <3>5. QED
            BY <1>12, <2>2, <3>1, <3>3, <3>4 DEF Rotate, TypeOK
    <2>3. QED
        BY <2>1, <2>2
<1>13. ASSUME NEW r \in Reqs, GetPreAuthItem(r) PROVE TypeOK'
    BY <1>13, AnswerType, Presented DEF GetPreAuthItem, TypeOK, Goto, Request
<1>14. ASSUME NEW r \in Reqs, ValidateTXCode(r) PROVE TypeOK'
    BY <1>14, AnswerType DEF ValidateTXCode
<1>15. ASSUME NEW r \in Reqs, DeleteTXCode(r) PROVE TypeOK'
    BY <1>15, AnswerType DEF DeleteTXCode, TypeOK, Goto
<1>16. ASSUME NEW r \in Reqs, CreatePreAuth(r) PROVE TypeOK'
    BY <1>16, AnswerType, MintSessionType DEF CreatePreAuth, TypeOK, Goto
<1>17. ASSUME NEW r \in Reqs, DeletePreAuth(r) PROVE TypeOK'
    BY <1>17, AnswerType, Presented DEF DeletePreAuth, TypeOK, Goto, Finish
<1>18. ASSUME NEW c \in Codes, NEW cl \in Clients, Callback(c, cl) PROVE TypeOK'
    BY <1>18 DEF Callback, TypeOK, AuthCodeItem, AllCodes
<1>19. ASSUME NEW c \in Codes, CreateInteractive(c) PROVE TypeOK'
    BY <1>19 DEF CreateInteractive, TypeOK, Session, AllCodes
<1>20. ASSUME NEW c \in PreCodes, PreauthGenerate(c) PROVE TypeOK'
    BY <1>20 DEF PreauthGenerate, TypeOK, AuthCodeItem, AllCodes
<1>21. ASSUME Expire PROVE TypeOK'
    BY <1>21 DEF Expire, ExpireCode, ExpireTXCode, ExpireRefreshToken, TypeOK
<1>22. ASSUME Crash PROVE TypeOK'
    BY <1>22 DEF Crash, TypeOK
<1>23. ASSUME UNCHANGED vars PROVE TypeOK'
    BY <1>23 DEF vars, TypeOK
<1>24. QED
    BY <1>1, <1>2, <1>3, <1>4, <1>5, <1>6, <1>7, <1>8, <1>9, <1>10, <1>11, <1>12, <1>13,
       <1>14, <1>15, <1>16, <1>17, <1>18, <1>19, <1>20, <1>21, <1>22, <1>23
       DEF Next, Begin, Step


(***************************************************************************)
(* LocalInv: a step of request r is a matter of r alone.                   *)
(***************************************************************************)

\* A step of r leaves every other request, and the session it minted, alone.
LEMMA OthersUntouched ==
    ASSUME TypeOK, LocalInv, NEW r \in Reqs, Begin(r) \/ Step(r),
           NEW q \in Reqs, q # r
    PROVE  pc'[q] = pc[q] /\ req'[q] = req[q] /\ sessions'[q] = sessions[q]
<1> USE DEF TypeOK, Goto, Arrive, Answer, Finish
<1>1. CASE Begin(r)
    BY <1>1 DEF Begin, Refuse, BeginAuthorization, BeginRefresh, BeginPreAuthorized
<1>2. CASE GetItem(r)
    BY <1>2 DEF GetItem
<1>3. CASE CreateSession(r) \/ CreateRefresh(r) \/ CreatePreAuth(r)
    BY <1>3 DEF CreateSession, CreateRefresh, CreatePreAuth, MintSession
<1>4. CASE DeleteSession(r)
    <2>1. ASSUME pc[r] = "deleteSession" PROVE q # req[r].code
        BY <2>1, DistinctAssumption DEF LocalInv, RequestInv, AuthorizationSteps
    <2>2. QED
        BY <1>4, <2>1 DEF DeleteSession
<1>5. CASE DeleteItem(r) \/ DeletePreAuth(r)
    BY <1>5 DEF DeleteItem, DeletePreAuth
<1>6. CASE IssueRefreshToken(r)
    BY <1>6 DEF IssueRefreshToken
<1>7. CASE Rotate(r)
    BY <1>7 DEF Rotate
<1>8. CASE Redeem(r)
    BY <1>8 DEF Redeem, Inherit
<1>9. CASE GetPreAuthItem(r)
    BY <1>9 DEF GetPreAuthItem
<1>10. CASE ValidateTXCode(r) \/ DeleteTXCode(r)
    BY <1>10 DEF ValidateTXCode, DeleteTXCode
<1>11. QED
    BY <1>1, <1>2, <1>3, <1>4, <1>5, <1>6, <1>7, <1>8, <1>9, <1>10 DEF Step

\* What LocalInv says of a request only depends on that request.
LEMMA LocalFrame ==
    ASSUME NEW q \in Reqs, RequestInv(q), AuthorizationInv(q),
           pc'[q] = pc[q], req'[q] = req[q], sessions'[q] = sessions[q]
    PROVE  RequestInv(q)' /\ AuthorizationInv(q)'
BY DEF RequestInv, AuthorizationInv, AttestationAdmits

\* A request arrives with nothing done yet.
LEMMA ArriveFresh ==
    ASSUME TypeOK, NEW r \in Reqs, Begin(r)
    PROVE  /\ pc[r] = "idle"
           /\ pc'[r] \in {"refused", "getItem", "redeem", "getPreAuthItem"}
           /\ req'[r].item = ZeroItem
           /\ ~ req'[r].rotated
           /\ sessions' = sessions
           /\ refreshTokenCache' = refreshTokenCache
<1> USE DEF TypeOK, Arrive, Goto, NoRequest
<1>1. CASE Refuse(r)
    BY <1>1 DEF Refuse
<1>2. CASE BeginAuthorization(r)
    BY <1>2 DEF BeginAuthorization
<1>3. CASE BeginRefresh(r)
    BY <1>3 DEF BeginRefresh
<1>4. CASE BeginPreAuthorized(r)
    BY <1>4 DEF BeginPreAuthorized
<1>5. QED
    BY <1>1, <1>2, <1>3, <1>4 DEF Begin

\* What is known of a single request holds of requests not yet sent.
LEMMA LocalInit == Init => LocalInv
BY DEF Init, LocalInv, RequestInv, AuthorizationInv, NoRequest, NoSession,
       AuthorizationSteps, PreAuthSteps, RefreshSteps

\* A step of a request keeps what is known of that request and its session.
LEMMA LocalRequestStep ==
    ASSUME TypeOK, LocalInv, NEW r \in Reqs, Begin(r) \/ Step(r)
    PROVE  RequestInv(r)' /\ AuthorizationInv(r)'
<1> USE DEF TypeOK, RequestInv, AuthorizationInv, AuthorizationSteps, PreAuthSteps,
            RefreshSteps, BeforeMint, Goto, Answer
<1>0. RequestInv(r) /\ AuthorizationInv(r)
    BY DEF LocalInv
<1>1. CASE Refuse(r)
    BY <1>0, <1>1 DEF Refuse, Arrive, NoRequest
<1>2. CASE BeginAuthorization(r)
    BY <1>0, <1>2 DEF BeginAuthorization, Arrive, NoRequest, AttestationAdmits
<1>3. CASE BeginRefresh(r)
    BY <1>0, <1>3 DEF BeginRefresh, Arrive, NoRequest
<1>4. CASE BeginPreAuthorized(r)
    BY <1>0, <1>4 DEF BeginPreAuthorized, Arrive, NoRequest
<1>5. CASE GetItem(r)
    <2> DEFINE item == authCodeCache[req[r].code]
    <2>1. CASE req' = req /\ pc' = [pc EXCEPT ![r] = "refused"]
        BY <1>0, <1>5, <2>1 DEF GetItem, AttestationAdmits
    <2>2. CASE /\ req' = [req EXCEPT ![r].item = item]
               /\ pc' = [pc EXCEPT ![r] = "createSession"]
               /\ req[r].attested => item.clientID = req[r].clientID
        <3>1. /\ req'[r].grant = req[r].grant /\ req'[r].code = req[r].code
              /\ req'[r].attested = req[r].attested /\ req'[r].clientID = req[r].clientID
              /\ req'[r].jkt = req[r].jkt /\ req'[r].rotated = req[r].rotated
              /\ req'[r].item = item
            BY <2>2 DEF Request
        <3>2. pc'[r] = "createSession" /\ pc[r] = "getItem" /\ sessions' = sessions
            BY <1>5, <2>2 DEF GetItem
        <3>3. QED
            BY <1>0, <2>2, <3>1, <3>2 DEF AttestationAdmits
    <2>3. QED
        BY <1>5, <2>1, <2>2 DEF GetItem
<1>6. CASE CreateSession(r)
    BY <1>0, <1>6 DEF CreateSession, MintSession, AttestationAdmits
<1>7. CASE DeleteSession(r)
    BY <1>0, <1>7, DistinctAssumption DEF DeleteSession, AttestationAdmits
<1>8. CASE DeleteItem(r)
    BY <1>0, <1>8 DEF DeleteItem, Finish, AttestationAdmits
<1>9. CASE IssueRefreshToken(r)
    <2>1. CASE Answer(r, "issue", "ok")
        BY <1>0, <2>1 DEF AttestationAdmits
    <2>2. CASE ~ Answer(r, "issue", "ok")
        <3>0. req' = [req EXCEPT ![r].root = r, ![r].rotated = TRUE]
            BY <1>9, <2>2 DEF IssueRefreshToken
        <3>1. /\ req'[r].grant = req[r].grant /\ req'[r].code = req[r].code
              /\ req'[r].attested = req[r].attested /\ req'[r].clientID = req[r].clientID
              /\ req'[r].jkt = req[r].jkt /\ req'[r].item = req[r].item
              /\ req'[r].rotated /\ req'[r].root = r
            BY <3>0 DEF Request
        <3>2. pc'[r] \in {"ok", "lost"} /\ pc[r] = "issue" /\ sessions' = sessions
            BY <1>9, <2>2 DEF IssueRefreshToken, Finish
        <3>3. QED
            BY <1>0, <3>1, <3>2 DEF AttestationAdmits
    <2>3. QED
        BY <2>1, <2>2
<1>10. CASE Redeem(r)
    BY <1>0, <1>10 DEF Redeem, Inherit, Request
<1>11. CASE CreateRefresh(r)
    BY <1>0, <1>11 DEF CreateRefresh, MintSession
<1>12. CASE Rotate(r)
    BY <1>0, <1>12 DEF Rotate, Finish, Request
<1>13. CASE GetPreAuthItem(r)
    BY <1>0, <1>13 DEF GetPreAuthItem, Request
<1>14. CASE ValidateTXCode(r)
    BY <1>0, <1>14 DEF ValidateTXCode
<1>15. CASE DeleteTXCode(r)
    BY <1>0, <1>15 DEF DeleteTXCode
<1>16. CASE CreatePreAuth(r)
    BY <1>0, <1>16 DEF CreatePreAuth, MintSession
<1>17. CASE DeletePreAuth(r)
    BY <1>0, <1>17 DEF DeletePreAuth, Finish
<1>18. QED
    BY <1>1, <1>2, <1>3, <1>4, <1>5, <1>6, <1>7, <1>8, <1>9, <1>10, <1>11, <1>12, <1>13,
       <1>14, <1>15, <1>16, <1>17 DEF Begin, Step

\* Every step keeps what is known of each request: requests do not disturb each other,
\* but for DeleteSession, which only reaches sessions named after a code.
LEMMA LocalStep == TypeOK /\ LocalInv /\ [Next]_vars => LocalInv'
<1> SUFFICES ASSUME TypeOK, LocalInv, [Next]_vars, NEW q \in Reqs
             PROVE  RequestInv(q)' /\ AuthorizationInv(q)'
    BY DEF LocalInv
<1>0. RequestInv(q) /\ AuthorizationInv(q)
    BY DEF LocalInv
<1>1. ASSUME NEW r \in Reqs, Begin(r) \/ Step(r)
      PROVE  RequestInv(q)' /\ AuthorizationInv(q)'
    BY <1>0, <1>1, OthersUntouched, LocalRequestStep, LocalFrame
<1>2. ASSUME NEW c \in Codes, NEW cl \in Clients, Callback(c, cl)
      PROVE  RequestInv(q)' /\ AuthorizationInv(q)'
    BY <1>0, <1>2, LocalFrame DEF Callback
<1>3. ASSUME NEW c \in Codes, CreateInteractive(c)
      PROVE  RequestInv(q)' /\ AuthorizationInv(q)'
    <2>1. q # c
        BY DistinctAssumption DEF AllCodes
    <2>2. QED
        BY <1>0, <1>3, <2>1, LocalFrame DEF CreateInteractive, TypeOK
<1>4. ASSUME NEW c \in PreCodes, PreauthGenerate(c)
      PROVE  RequestInv(q)' /\ AuthorizationInv(q)'
    BY <1>0, <1>4, LocalFrame DEF PreauthGenerate
<1>5. CASE Expire
    BY <1>0, <1>5, LocalFrame DEF Expire, ExpireCode, ExpireTXCode, ExpireRefreshToken
<1>6. CASE Crash
    BY <1>0, <1>6 DEF Crash, TypeOK, RequestInv, AuthorizationInv, AttestationAdmits,
          AuthorizationSteps, PreAuthSteps, RefreshSteps, Running, BeforeMint
<1>7. CASE UNCHANGED vars
    BY <1>0, <1>7, LocalFrame DEF vars
<1>8. QED
    BY <1>1, <1>2, <1>3, <1>4, <1>5, <1>6, <1>7 DEF Next

(***************************************************************************)
(* CodeInv: the authorization code cache and the copies taken from it.     *)
(***************************************************************************)

\* No item is stored or copied at the start.
LEMMA CodeInit == Init => CodeInv
BY DEF Init, CodeInv, StoredInv, CopyInv, NoRequest, NoSession

\* A request only ever takes items out of the code cache.
LEMMA RequestsOnlyDelete ==
    ASSUME TypeOK, LocalInv, NEW r \in Reqs, Begin(r) \/ Step(r)
    PROVE  /\ issued' = issued
           /\ \A c \in AllCodes : authCodeCache'[c] \in {authCodeCache[c], ZeroItem}
<1> USE DEF TypeOK, Arrive, Answer
<1>1. CASE Begin(r)
    BY <1>1 DEF Begin, Refuse, BeginAuthorization, BeginRefresh, BeginPreAuthorized
<1>2. CASE DeleteItem(r) \/ DeletePreAuth(r)
    BY <1>2 DEF DeleteItem, DeletePreAuth
<1>3. CASE Step(r) /\ ~ DeleteItem(r) /\ ~ DeletePreAuth(r)
    BY <1>3 DEF Step, GetItem, CreateSession, DeleteSession, IssueRefreshToken, Redeem,
          CreateRefresh, Rotate, GetPreAuthItem, ValidateTXCode, DeleteTXCode, CreatePreAuth
<1>4. QED
    BY <1>1, <1>2, <1>3

\* Items stay stored under their own, issued code: only logins and offers store any.
LEMMA StoredStep == TypeOK /\ LocalInv /\ StoredInv /\ [Next]_vars => StoredInv'
<1> SUFFICES ASSUME TypeOK, LocalInv, StoredInv, [Next]_vars PROVE StoredInv'
    OBVIOUS
<1>1. ASSUME NEW r \in Reqs, Begin(r) \/ Step(r) PROVE StoredInv'
    BY <1>1, RequestsOnlyDelete DEF StoredInv
<1>2. ASSUME NEW c \in Codes, NEW cl \in Clients, Callback(c, cl) PROVE StoredInv'
    BY <1>2 DEF Callback, StoredInv, TypeOK, AllCodes
<1>3. ASSUME NEW c \in Codes, CreateInteractive(c) PROVE StoredInv'
    BY <1>3 DEF CreateInteractive, StoredInv
<1>4. ASSUME NEW c \in PreCodes, PreauthGenerate(c) PROVE StoredInv'
    BY <1>4 DEF PreauthGenerate, StoredInv, TypeOK, AllCodes
<1>5. CASE Expire
    BY <1>5 DEF Expire, ExpireCode, ExpireTXCode, ExpireRefreshToken, StoredInv, TypeOK
<1>6. CASE Crash \/ UNCHANGED vars
    BY <1>6 DEF Crash, vars, StoredInv
<1>7. QED
    BY <1>1, <1>2, <1>3, <1>4, <1>5, <1>6 DEF Next

\* What CopyInv says of a request survives whatever only adds issued codes.
LEMMA CopyFrame ==
    ASSUME NEW q \in Reqs, CopyInv(q), issued \subseteq issued',
           pc'[q] \in {pc[q], "lost"}, req'[q] = req[q], sessions'[q] = sessions[q]
    PROVE  CopyInv(q)'
BY DEF CopyInv

\* A step of a request keeps its copy of an item true to the code it presented.
LEMMA CopyRequestStep ==
    ASSUME TypeOK, LocalInv, CodeInv, NEW r \in Reqs, Begin(r) \/ Step(r)
    PROVE  CopyInv(r)'
<1> USE DEF TypeOK, CopyInv, Goto, Answer
<1>0. CopyInv(r) /\ RequestInv(r) /\ StoredInv
    BY DEF LocalInv, CodeInv
<1>1. CASE Begin(r)
    <2>1. /\ pc'[r] \in {"refused", "getItem", "redeem", "getPreAuthItem"}
          /\ req'[r].item = ZeroItem
          /\ pc[r] = "idle" /\ sessions' = sessions
        BY <1>1, ArriveFresh
    <2>2. ~ sessions'[r].live
        BY <1>0, <2>1 DEF RequestInv, BeforeMint
    <2>3. QED
        BY <2>1, <2>2
<1>2. CASE GetItem(r)
    BY <1>0, <1>2 DEF GetItem, Request, RequestInv, AuthorizationSteps, StoredInv
<1>3. CASE CreateSession(r)
    BY <1>0, <1>3 DEF CreateSession, MintSession, RequestInv, AuthorizationSteps
<1>4. CASE DeleteSession(r)
    BY <1>0, <1>4, DistinctAssumption DEF DeleteSession, RequestInv, AuthorizationSteps
<1>5. CASE DeleteItem(r) \/ DeletePreAuth(r)
    BY <1>0, <1>5 DEF DeleteItem, DeletePreAuth, Finish
<1>6. CASE IssueRefreshToken(r)
    BY <1>0, <1>6 DEF IssueRefreshToken, Finish, Request
<1>7. CASE Redeem(r)
    BY <1>0, <1>7 DEF Redeem, Inherit, Request, RequestInv, RefreshSteps
<1>8. CASE CreateRefresh(r)
    BY <1>0, <1>8 DEF CreateRefresh, MintSession, RequestInv, RefreshSteps
<1>9. CASE Rotate(r)
    BY <1>0, <1>9 DEF Rotate, Finish, Request
<1>10. CASE GetPreAuthItem(r)
    BY <1>0, <1>10 DEF GetPreAuthItem, Request, RequestInv, PreAuthSteps, BeforeMint,
          StoredInv, ZeroItem
<1>11. CASE ValidateTXCode(r)
    BY <1>0, <1>11 DEF ValidateTXCode, TXCodeMatches
<1>12. CASE DeleteTXCode(r)
    BY <1>0, <1>12 DEF DeleteTXCode
<1>13. CASE CreatePreAuth(r)
    BY <1>0, <1>13 DEF CreatePreAuth, MintSession, RequestInv, PreAuthSteps
<1>14. QED
    BY <1>1, <1>2, <1>3, <1>4, <1>5, <1>6, <1>7, <1>8, <1>9, <1>10, <1>11, <1>12, <1>13
       DEF Step

\* Every step keeps the code cache and the copies taken from it consistent.
LEMMA CodeStep == TypeOK /\ LocalInv /\ CodeInv /\ [Next]_vars => CodeInv'
<1> SUFFICES ASSUME TypeOK, LocalInv, CodeInv, [Next]_vars, NEW q \in Reqs
             PROVE  CopyInv(q)'
    BY StoredStep DEF CodeInv
<1>0. CopyInv(q)
    BY DEF CodeInv
<1>1. ASSUME NEW r \in Reqs, Begin(r) \/ Step(r) PROVE CopyInv(q)'
    <2>1. CASE q = r
        BY <1>1, <2>1, CopyRequestStep
    <2>2. CASE q # r
        BY <1>0, <1>1, <2>2, RequestsOnlyDelete, OthersUntouched, CopyFrame
    <2>3. QED
        BY <2>1, <2>2
<1>2. ASSUME NEW c \in Codes, NEW cl \in Clients, Callback(c, cl) PROVE CopyInv(q)'
    BY <1>0, <1>2, CopyFrame DEF Callback
<1>3. ASSUME NEW c \in Codes, CreateInteractive(c) PROVE CopyInv(q)'
    <2>1. q # c
        BY DistinctAssumption DEF AllCodes
    <2>2. QED
        BY <1>0, <1>3, <2>1, CopyFrame DEF CreateInteractive, TypeOK
<1>4. ASSUME NEW c \in PreCodes, PreauthGenerate(c) PROVE CopyInv(q)'
    BY <1>0, <1>4, CopyFrame DEF PreauthGenerate
<1>5. CASE Expire
    BY <1>0, <1>5, CopyFrame DEF Expire, ExpireCode, ExpireTXCode, ExpireRefreshToken
<1>6. CASE Crash \/ UNCHANGED vars
    BY <1>0, <1>6, CopyFrame DEF Crash, vars, TypeOK
<1>7. QED
    BY <1>1, <1>2, <1>3, <1>4, <1>5, <1>6 DEF Next

(***************************************************************************)
(* AnsweredCodeIsSpent.                                                    *)
(***************************************************************************)

\* Nothing is answered at the start.
LEMMA SpentInit == Init => AnsweredCodeIsSpent
BY DEF Init, AnsweredCodeIsSpent, NoRequest

\* A code that was answered stays out of the cache: the handler deletes it before it
\* answers, and nothing stores an issued code again.
LEMMA SpentStep ==
    TypeOK /\ LocalInv /\ CodeInv /\ AnsweredCodeIsSpent /\ [Next]_vars => AnsweredCodeIsSpent'
<1> DEFINE
        Answering(q) == /\ req[q].grant = "authorization_code"
                        /\ pc[q] \in {"issue", "ok"} \/ req[q].rotated
                        /\ req[q].item # ZeroItem
        Spent(q) == Answering(q) => authCodeCache[req[q].code] = ZeroItem
<1> SUFFICES ASSUME TypeOK, LocalInv, CodeInv, AnsweredCodeIsSpent, [Next]_vars, NEW q \in Reqs
             PROVE  Spent(q)'
    BY DEF AnsweredCodeIsSpent
<1>0. Spent(q)
    BY DEF AnsweredCodeIsSpent
\* A code that someone has a copy of was issued, so it is not stored again.
<1>1. req[q].grant = "authorization_code" /\ req[q].item # ZeroItem =>
          req[q].code \in AllCodes /\ req[q].code \in issued
    BY DEF CodeInv, CopyInv
<1>2. ASSUME NEW r \in Reqs, Begin(r) \/ Step(r) PROVE Spent(q)'
    <2>1. CASE q # r
        <3>1. pc'[q] = pc[q] /\ req'[q] = req[q]
            BY <1>2, <2>1, OthersUntouched
        <3>2. QED
            BY <1>0, <1>1, <1>2, <3>1, RequestsOnlyDelete
    <2>2. CASE q = r /\ DeleteItem(r)
        <3>1. CASE Answer(r, "deleteItem", "failed")
            BY <1>0, <2>2, <3>1 DEF Answer, Goto, TypeOK
        <3>2. CASE ~ Answer(r, "deleteItem", "failed")
            <4>1. authCodeCache' = [authCodeCache EXCEPT ![req[r].code] = ZeroItem] /\ req' = req
                BY <2>2, <3>2 DEF DeleteItem
            <4>2. QED
                BY <1>1, <2>2, <4>1 DEF TypeOK
        <3>3. QED
            BY <3>1, <3>2
    <2>3. CASE q = r /\ IssueRefreshToken(r)
        <3>1. pc[r] = "issue" /\ authCodeCache' = authCodeCache
            BY <2>3 DEF IssueRefreshToken, Answer
        <3>2. /\ req'[r].grant = req[r].grant /\ req'[r].code = req[r].code
              /\ req'[r].item = req[r].item
            BY <2>3 DEF IssueRefreshToken, Answer, TypeOK, Request
        <3>3. QED
            BY <1>0, <2>3, <3>1, <3>2
    <2>4. CASE q = r /\ Begin(r)
        <3>1. req'[r].item = ZeroItem
            BY <2>4, ArriveFresh
        <3>2. QED
            BY <2>4, <3>1
    <2>5. CASE q = r /\ Step(r) /\ ~ DeleteItem(r) /\ ~ IssueRefreshToken(r)
        <3>1. req[r].grant = "authorization_code" =>
                  pc'[r] \notin {"issue", "ok"} /\ ~ req'[r].rotated
            BY <2>5 DEF Step, GetItem, CreateSession, DeleteSession, Redeem, Inherit, CreateRefresh,
                  Rotate, GetPreAuthItem, ValidateTXCode, DeleteTXCode, CreatePreAuth,
                  DeletePreAuth, Answer, Goto, TypeOK, Request, LocalInv, RequestInv,
                  RefreshSteps, PreAuthSteps
        <3>2. req'[r].grant = req[r].grant
            BY <2>5 DEF Step, GetItem, CreateSession, DeleteSession, Redeem, Inherit, CreateRefresh,
                  Rotate, GetPreAuthItem, ValidateTXCode, DeleteTXCode, CreatePreAuth,
                  DeletePreAuth, Answer, TypeOK, Request
        <3>3. QED
            BY <2>5, <3>1, <3>2
    <2>6. QED
        BY <1>2, <2>1, <2>2, <2>3, <2>4, <2>5
<1>3. ASSUME NEW c \in Codes, NEW cl \in Clients, Callback(c, cl) PROVE Spent(q)'
    BY <1>0, <1>1, <1>3 DEF Callback, TypeOK
<1>4. ASSUME NEW c \in Codes, CreateInteractive(c) PROVE Spent(q)'
    BY <1>0, <1>4 DEF CreateInteractive
<1>5. ASSUME NEW c \in PreCodes, PreauthGenerate(c) PROVE Spent(q)'
    BY <1>0, <1>1, <1>5 DEF PreauthGenerate, TypeOK
<1>6. CASE Expire
    BY <1>0, <1>1, <1>6 DEF Expire, ExpireCode, ExpireTXCode, ExpireRefreshToken, TypeOK
<1>7. CASE Crash \/ UNCHANGED vars
    BY <1>0, <1>7 DEF Crash, vars, TypeOK
<1>8. QED
    BY <1>2, <1>3, <1>4, <1>5, <1>6, <1>7 DEF Next

(***************************************************************************)
(* FamilyInv and RefreshFamilyLinear.                                      *)
(***************************************************************************)

\* There is no family at the start.
LEMMA FamilyInit == Init => FamilyInv /\ RefreshFamilyLinear
BY DEF Init, FamilyInv, TokenRooted, RequestRooted, NoRequest, RefreshFamilyLinear,
       Stored, Holds

\* No request steps after its answer.
LEMMA RunningFirst ==
    ASSUME TypeOK, NEW r \in Reqs, Begin(r) \/ Step(r)
    PROVE  pc[r] \notin {"ok", "lost"}
<1>1. CASE Begin(r)
    BY <1>1, ArriveFresh
<1>2. CASE Step(r)
    BY <1>2 DEF Step, GetItem, CreateSession, DeleteSession, DeleteItem, IssueRefreshToken,
          Redeem, CreateRefresh, Rotate, GetPreAuthItem, ValidateTXCode, DeleteTXCode,
          CreatePreAuth, DeletePreAuth, Answer
<1>3. QED
    BY <1>1, <1>2

\* The root of a family has been answered, so it never changes again.
LEMMA RootStays ==
    ASSUME TypeOK, LocalInv, NEW r \in Reqs, Begin(r) \/ Step(r),
           NEW f, NEW k, NEW cl, NEW i, Rooted(f, k, cl, i)
    PROVE  f # r /\ Rooted(f, k, cl, i)'
<1>1. f \in Reqs /\ req[f].rotated
    BY DEF Rooted
<1>2. pc[f] \in {"ok", "lost"}
    BY <1>1 DEF LocalInv, RequestInv
<1>3. pc[r] \notin {"ok", "lost"}
    BY RunningFirst
<1>4. req'[f] = req[f]
    BY <1>1, <1>2, <1>3, OthersUntouched
<1>5. QED
    BY <1>2, <1>3, <1>4 DEF Rooted

\* A request step that does not store token q keeps what is known of it.
LEMMA TokenStays ==
    ASSUME TypeOK, LocalInv, NEW r \in Reqs, Begin(r) \/ Step(r),
           NEW q \in Reqs, TokenRooted(q),
           refreshTokenCache'[q] \in {refreshTokenCache[q], NoToken}
    PROVE  TokenRooted(q)'
<1>1. CASE refreshTokenCache'[q] = NoToken
    BY <1>1 DEF TokenRooted
<1>2. CASE refreshTokenCache[q] # NoToken /\ refreshTokenCache'[q] = refreshTokenCache[q]
    <2> DEFINE tok == refreshTokenCache[q]
    <2>1. req[q].rotated /\ Rooted(tok.root, tok.jkt, tok.clientID, tok.item)
        BY <1>2 DEF TokenRooted
    <2>2. Rooted(tok.root, tok.jkt, tok.clientID, tok.item)'
        <3> HIDE DEF tok
        <3>1. ASSUME NEW x, x = tok, Rooted(x.root, x.jkt, x.clientID, x.item)
              PROVE  Rooted(x.root, x.jkt, x.clientID, x.item)'
            BY <3>1, RootStays
        <3>2. Rooted(tok.root, tok.jkt, tok.clientID, tok.item)
            BY <2>1
        <3>3. tok' = tok
            BY <1>2 DEF tok
        <3>4. QED
            BY <3>1, <3>2, <3>3 DEF Rooted
    <2>3. req'[q].rotated
        <3>1. CASE q = r
            <4>1. pc[r] \in {"ok", "lost"}
                BY <2>1, <3>1 DEF LocalInv, RequestInv
            <4>2. QED
                BY <4>1, RunningFirst
        <3>2. QED
            BY <2>1, <3>1, OthersUntouched
    <2>4. QED
        BY <1>2, <2>2, <2>3 DEF TokenRooted
<1>3. QED
    BY <1>1, <1>2

\* A request that does not step keeps its root.
LEMMA RequestStays ==
    ASSUME TypeOK, LocalInv, NEW r \in Reqs, Begin(r) \/ Step(r),
           NEW q \in Reqs, RequestRooted(q),
           req'[q] = req[q],
           pc'[q] \in {"createRefresh", "rotate"} \/ sessions'[q].live =>
              pc[q] \in {"createRefresh", "rotate"} \/ sessions[q].live
    PROVE  RequestRooted(q)'
<1> SUFFICES ASSUME req[q].grant = "refresh_token",
                    pc[q] \in {"createRefresh", "rotate"} \/ sessions[q].live
             PROVE  Rooted(req[q].root, req[q].jkt, req[q].clientID, req[q].item)'
    BY DEF RequestRooted
<1>1. Rooted(req[q].root, req[q].jkt, req[q].clientID, req[q].item)
    BY DEF RequestRooted
<1>2. \A f, k, cl, i : Rooted(f, k, cl, i) => Rooted(f, k, cl, i)'
    BY RootStays
<1>3. QED
    BY <1>1, <1>2 DEF Rooted

\* The handlers that store or pop no refresh token.
LEMMA OtherHandlers ==
    ASSUME TypeOK, LocalInv, NEW r \in Reqs, Begin(r) \/ Step(r),
           ~ IssueRefreshToken(r), ~ Redeem(r), ~ CreateRefresh(r), ~ Rotate(r)
    PROVE  /\ refreshTokenCache' = refreshTokenCache
           /\ pc'[r] \notin {"createRefresh", "rotate"}
           /\ req'[r].grant = "refresh_token" => ~ sessions'[r].live
<1>1. CASE Begin(r)
    <2>1. ~ sessions[r].live
        BY <1>1, ArriveFresh DEF LocalInv, RequestInv, BeforeMint
    <2>2. QED
        BY <1>1, <2>1, ArriveFresh
<1>2. CASE Step(r)
    <2>1. refreshTokenCache' = refreshTokenCache /\ pc'[r] \notin {"createRefresh", "rotate"}
        BY <1>2 DEF Step, GetItem, CreateSession, DeleteSession, DeleteItem, GetPreAuthItem,
              ValidateTXCode, DeleteTXCode, CreatePreAuth, DeletePreAuth, Answer, Goto,
              Finish, TypeOK
    <2>2. pc[r] \in AuthorizationSteps \cup PreAuthSteps
        BY <1>2 DEF Step, GetItem, CreateSession, DeleteSession, DeleteItem, GetPreAuthItem,
              ValidateTXCode, DeleteTXCode, CreatePreAuth, DeletePreAuth, Answer,
              AuthorizationSteps, PreAuthSteps
    <2>3. req[r].grant # "refresh_token"
        BY <2>2 DEF LocalInv, RequestInv
    <2>4. req'[r].grant = req[r].grant
        BY <1>2 DEF Step, GetItem, CreateSession, DeleteSession, DeleteItem, GetPreAuthItem,
              ValidateTXCode, DeleteTXCode, CreatePreAuth, DeletePreAuth, Answer, TypeOK,
              Request
    <2>5. QED
        BY <2>1, <2>3, <2>4
<1>3. QED
    BY <1>1, <1>2

\* A step of a request keeps every stored token and every refresh rooted in a redemption.
LEMMA FamilyRequestStep ==
    ASSUME TypeOK, LocalInv, FamilyInv, NEW r \in Reqs, Begin(r) \/ Step(r), NEW q \in Reqs
    PROVE  TokenRooted(q)' /\ RequestRooted(q)'
<1>0. TokenRooted(q) /\ RequestRooted(q) /\ TokenRooted(r) /\ RequestRooted(r) /\ RequestInv(r)
    BY DEF FamilyInv, LocalInv
<1>1. q # r => RequestRooted(q)'
    BY <1>0, OthersUntouched, RequestStays
<1>2. CASE IssueRefreshToken(r)
    <2>1. CASE Answer(r, "issue", "ok")
        <3>1. refreshTokenCache' = refreshTokenCache /\ req' = req /\ pc[r] = "issue"
            BY <2>1 DEF Answer
        <3>2. TokenRooted(q)'
            BY <1>0, <3>1, TokenStays
        <3>3. req[r].grant = "authorization_code"
            BY <1>0, <3>1 DEF RequestInv, AuthorizationSteps
        <3>4. QED
            BY <1>1, <3>1, <3>2, <3>3 DEF RequestRooted
    <2>2. CASE ~ Answer(r, "issue", "ok")
        <3> DEFINE tok == [clientID |-> req[r].clientID, jkt |-> req[r].jkt,
                           item |-> req[r].item, root |-> r]
        <3>1. /\ pc[r] = "issue"
              /\ refreshTokenCache' = [refreshTokenCache EXCEPT ![r] = tok]
              /\ req' = [req EXCEPT ![r].root = r, ![r].rotated = TRUE]
            BY <1>2, <2>2 DEF IssueRefreshToken, StoreToken
        <3>2. /\ req'[r].grant = "authorization_code" /\ req'[r].rotated
              /\ req'[r].jkt = req[r].jkt /\ req'[r].clientID = req[r].clientID
              /\ req'[r].item = req[r].item
            BY <1>0, <3>1 DEF RequestInv, AuthorizationSteps, TypeOK, Request
        <3>3. TokenRooted(r)'
            <4>1. refreshTokenCache'[r] = tok
                BY <3>1 DEF TypeOK
            <4>2. Rooted(r, req[r].jkt, req[r].clientID, req[r].item)'
                BY <3>2 DEF Rooted
            <4>3. QED
                BY <3>2, <4>1 DEF TokenRooted, Rooted
        <3>4. q # r => TokenRooted(q)'
            BY <1>0, <3>1, TokenStays DEF TypeOK
        <3>5. QED
            BY <1>1, <3>2, <3>3, <3>4 DEF RequestRooted
    <2>3. QED
        BY <2>1, <2>2
<1>3. CASE Redeem(r)
    <2>1. pc[r] = "redeem" /\ ~ sessions[r].live /\ sessions' = sessions
        BY <1>0, <1>3 DEF Redeem, Inherit, Answer, RequestInv, BeforeMint
    <2>2. req[r].token \in Reqs
        BY <2>1, Presented
    <2>3. TokenRooted(q)'
        BY <1>0, <1>3, TokenStays DEF Redeem, Inherit, Answer, TypeOK
    <2>4. RequestRooted(r)'
        <3> DEFINE tok == refreshTokenCache[req[r].token]
        <3>1. CASE pc'[r] = "refused"
            BY <2>1, <3>1 DEF RequestRooted
        <3>2. CASE pc'[r] # "refused"
            <4>1. /\ tok # NoToken /\ tok.jkt = req[r].jkt
                  /\ req' = [req EXCEPT ![r].clientID = tok.clientID, ![r].item = tok.item,
                                        ![r].root = tok.root]
                BY <1>3, <3>2 DEF Redeem, Inherit, Answer, Goto, TypeOK
            <4>2. /\ req'[r].clientID = tok.clientID /\ req'[r].item = tok.item
                  /\ req'[r].root = tok.root /\ req'[r].jkt = tok.jkt
                BY <4>1 DEF TypeOK, Request
            <4>3. Rooted(tok.root, tok.jkt, tok.clientID, tok.item)
                BY <2>2, <4>1 DEF FamilyInv, TokenRooted
            <4>4. \A f, k, cl, i : Rooted(f, k, cl, i) => Rooted(f, k, cl, i)'
                BY RootStays
            <4>5. QED
                BY <4>2, <4>3, <4>4 DEF RequestRooted, Rooted
        <3>3. QED
            BY <3>1, <3>2
    <2>5. QED
        BY <1>1, <2>3, <2>4
<1>4. CASE CreateRefresh(r)
    <2>1. pc[r] = "createRefresh" /\ req' = req /\ refreshTokenCache' = refreshTokenCache
        BY <1>4 DEF CreateRefresh, Answer
    <2>2. TokenRooted(q)' /\ RequestRooted(r)'
        BY <1>0, <2>1, TokenStays, RequestStays
    <2>3. QED
        BY <1>1, <2>2
<1>5. CASE Rotate(r)
    <2>1. pc[r] = "rotate" /\ req[r].grant = "refresh_token"
        BY <1>0, <1>5 DEF Rotate, Answer, RequestInv, RefreshSteps
    <2>2. Rooted(req[r].root, req[r].jkt, req[r].clientID, req[r].item)
        BY <1>0, <2>1 DEF RequestRooted
    <2>3. \A f, k, cl, i : Rooted(f, k, cl, i) => Rooted(f, k, cl, i)'
        BY RootStays
    <2>4. CASE Answer(r, "rotate", "ok")
        BY <1>0, <1>1, <2>1, <2>4, TokenStays, RequestStays DEF Answer
    <2>5. CASE ~ Answer(r, "rotate", "ok")
        <3> DEFINE tok == [clientID |-> req[r].clientID, jkt |-> req[r].jkt,
                           item |-> req[r].item, root |-> req[r].root]
        <3>1. /\ refreshTokenCache' = [refreshTokenCache EXCEPT ![r] = tok]
              /\ req' = [req EXCEPT ![r].rotated = TRUE]
            BY <1>5, <2>5 DEF Rotate, StoreToken
        <3>2. /\ req'[r].rotated /\ req'[r].root = req[r].root /\ req'[r].jkt = req[r].jkt
              /\ req'[r].clientID = req[r].clientID /\ req'[r].item = req[r].item
            BY <3>1 DEF TypeOK, Request
        <3>3. TokenRooted(r)'
            <4>1. refreshTokenCache'[r] = tok
                BY <3>1 DEF TypeOK
            <4>2. QED
                BY <2>2, <2>3, <3>2, <4>1 DEF TokenRooted, Rooted
        <3>4. q # r => TokenRooted(q)'
            BY <1>0, <3>1, TokenStays DEF TypeOK
        <3>5. RequestRooted(r)'
            BY <2>2, <2>3, <3>2 DEF RequestRooted, Rooted
        <3>6. QED
            BY <1>1, <3>3, <3>4, <3>5
    <2>6. QED
        BY <2>4, <2>5
<1>6. CASE ~ IssueRefreshToken(r) /\ ~ Redeem(r) /\ ~ CreateRefresh(r) /\ ~ Rotate(r)
    BY <1>0, <1>1, <1>6, OtherHandlers, TokenStays DEF RequestRooted
<1>7. QED
    BY <1>2, <1>3, <1>4, <1>5, <1>6

\* Steps of the environment keep requests' data and never store a token.
LEMMA EnvironmentKeeps ==
    ASSUME TypeOK, [Next]_vars, ~ \E r \in Reqs : Begin(r) \/ Step(r), NEW q \in Reqs
    PROVE  /\ req' = req
           /\ refreshTokenCache'[q] \in {refreshTokenCache[q], NoToken}
           /\ pc'[q] \in {pc[q], "lost"}
           /\ sessions'[q] = sessions[q]
<1>1. ASSUME NEW c \in Codes, CreateInteractive(c)
      PROVE  /\ req' = req /\ refreshTokenCache' = refreshTokenCache
             /\ pc' = pc /\ sessions'[q] = sessions[q]
    BY <1>1, DistinctAssumption DEF CreateInteractive, AllCodes, TypeOK
<1>2. CASE \E c \in Codes, cl \in Clients : Callback(c, cl)
    BY <1>2 DEF Callback
<1>3. CASE \E c \in PreCodes : PreauthGenerate(c)
    BY <1>3 DEF PreauthGenerate
<1>4. CASE Expire
    BY <1>4 DEF Expire, ExpireCode, ExpireTXCode, ExpireRefreshToken, TypeOK
<1>5. CASE Crash \/ UNCHANGED vars
    BY <1>5 DEF Crash, vars, TypeOK
<1>6. QED
    BY <1>1, <1>2, <1>3, <1>4, <1>5 DEF Next

\* Every step keeps families rooted in the redemption that opened them.
LEMMA FamilyStep == TypeOK /\ LocalInv /\ FamilyInv /\ [Next]_vars => FamilyInv'
<1> SUFFICES ASSUME TypeOK, LocalInv, FamilyInv, [Next]_vars, NEW q \in Reqs
             PROVE  TokenRooted(q)' /\ RequestRooted(q)'
    BY DEF FamilyInv
<1>1. CASE \E r \in Reqs : Begin(r) \/ Step(r)
    BY <1>1, FamilyRequestStep
<1>2. CASE ~ \E r \in Reqs : Begin(r) \/ Step(r)
    <2>1. TokenRooted(q) /\ RequestRooted(q)
        BY DEF FamilyInv
    <2>2. \A f, k, cl, i : Rooted(f, k, cl, i) => Rooted(f, k, cl, i)'
        BY <1>2, EnvironmentKeeps DEF Rooted
    <2>3. QED
        BY <1>2, <2>1, <2>2, EnvironmentKeeps DEF TokenRooted, RequestRooted, Rooted
<1>3. QED
    BY <1>1, <1>2

(***************************************************************************)
(* RefreshFamilyLinear: Tied(x, f) says that x carries family f on.        *)
(***************************************************************************)

Tied(x, f) == Stored(x, f) \/ Holds(x, f)

\* No family is carried on by a request that has not been answered yet as root.
LEMMA TiedRooted ==
    ASSUME FamilyInv, LocalInv, NEW x \in Reqs, NEW f \in Reqs, Tied(x, f)
    PROVE  /\ req[f].rotated
           /\ Stored(x, f) => pc[x] \in {"ok", "lost"}
           /\ pc[f] \in {"ok", "lost"}
<1>1. req[f].rotated /\ (Stored(x, f) => req[x].rotated)
    BY DEF Tied, Stored, Holds, FamilyInv, TokenRooted, RequestRooted, Rooted, LocalInv,
           RequestInv, RefreshSteps
<1>2. QED
    BY <1>1 DEF LocalInv, RequestInv

\* Only issuing the first token and redeeming a token tie anything new.
LEMMA NoNewTies ==
    ASSUME TypeOK, LocalInv, FamilyInv, NEW r \in Reqs, Begin(r) \/ Step(r),
           IssueRefreshToken(r) => Answer(r, "issue", "ok"), ~ Redeem(r),
           NEW x \in Reqs, NEW f \in Reqs, Tied(x, f)'
    PROVE  Tied(x, f)
<1>1. RequestInv(r)
    BY DEF LocalInv
<1>2. CASE IssueRefreshToken(r)
    BY <1>2 DEF Tied, Stored, Holds, Answer, Goto, TypeOK
<1>3. CASE CreateRefresh(r)
    BY <1>3 DEF CreateRefresh, Tied, Stored, Holds, Answer, Goto, TypeOK
<1>4. CASE Rotate(r)
    <2>1. CASE Answer(r, "rotate", "ok")
        BY <2>1 DEF Tied, Stored, Holds, Answer, Goto, TypeOK
    <2>2. CASE ~ Answer(r, "rotate", "ok")
        <3> DEFINE tok == [clientID |-> req[r].clientID, jkt |-> req[r].jkt,
                           item |-> req[r].item, root |-> req[r].root]
        <3>1. /\ pc[r] = "rotate" /\ pc'[r] \in {"ok", "lost"}
              /\ refreshTokenCache' = [refreshTokenCache EXCEPT ![r] = tok]
            BY <1>4, <2>2 DEF Rotate, StoreToken, Finish, Goto, TypeOK
        <3>2. CASE x = r
            BY <3>1, <3>2 DEF Tied, Stored, Holds, TypeOK
        <3>3. CASE x # r
            BY <3>1, <3>3, OthersUntouched DEF Tied, Stored, Holds, TypeOK
        <3>4. QED
            BY <3>2, <3>3
    <2>3. QED
        BY <2>1, <2>2
<1>5. CASE ~ IssueRefreshToken(r) /\ ~ CreateRefresh(r) /\ ~ Rotate(r)
    BY <1>5, OtherHandlers, OthersUntouched DEF Tied, Stored, Holds
<1>6. QED
    BY <1>2, <1>3, <1>4, <1>5

\* A step of a request does not fork a family: what it ties anew, it untied before.
LEMMA LinearRequestStep ==
    ASSUME TypeOK, LocalInv, FamilyInv, RefreshFamilyLinear,
           NEW r \in Reqs, Begin(r) \/ Step(r),
           NEW f \in Reqs, NEW a \in Reqs, NEW b \in Reqs, Tied(a, f)', Tied(b, f)'
    PROVE  a = b
<1>0. \A x, y \in Reqs : Tied(x, f) /\ Tied(y, f) => x = y
    BY DEF RefreshFamilyLinear, Tied
<1>1. CASE IssueRefreshToken(r) /\ ~ Answer(r, "issue", "ok")
    <2> DEFINE tok == [clientID |-> req[r].clientID, jkt |-> req[r].jkt,
                       item |-> req[r].item, root |-> r]
    <2>1. /\ pc[r] = "issue" /\ pc'[r] \in {"ok", "lost"}
          /\ refreshTokenCache' = [refreshTokenCache EXCEPT ![r] = tok]
        BY <1>1 DEF IssueRefreshToken, StoreToken, Finish, Goto, TypeOK
    <2>2. ASSUME NEW x \in Reqs, Tied(x, f)' PROVE (x = r /\ f = r) \/ (x # r /\ Tied(x, f))
        <3>1. CASE x = r
            BY <2>1, <2>2, <3>1 DEF Tied, Stored, Holds, TypeOK
        <3>2. CASE x # r
            BY <2>1, <2>2, <3>2, OthersUntouched DEF Tied, Stored, Holds, TypeOK
        <3>3. QED
            BY <3>1, <3>2
    <2>3. CASE f = r
        BY <2>1, <2>2, <2>3, TiedRooted
    <2>4. CASE f # r
        BY <1>0, <2>2, <2>4
    <2>5. QED
        BY <2>3, <2>4
<1>2. CASE Redeem(r)
    <2> DEFINE t == req[r].token
    <2>1. pc[r] = "redeem"
        BY <1>2 DEF Redeem, Inherit, Answer
    <2>2. t \in Reqs
        BY <2>1, Presented
    <2>3. CASE Answer(r, "redeem", "refused")
        BY <1>0, <2>3 DEF Tied, Stored, Holds, Answer, Goto, TypeOK
    <2>4. CASE ~ Answer(r, "redeem", "refused")
        <3>1. /\ refreshTokenCache[t] # NoToken
              /\ refreshTokenCache' = [refreshTokenCache EXCEPT ![t] = NoToken]
              /\ pc'[r] = "createRefresh" => req'[r].root = refreshTokenCache[t].root
              /\ pc'[r] \in {"createRefresh", "refused"}
            BY <1>2, <2>4 DEF Redeem, Inherit, Goto, TypeOK, Request
        <3>2. Tied(r, f)' => Stored(t, f)
            <4>1. ~ Stored(r, f)
                BY <2>1, TiedRooted DEF Tied
            <4>2. QED
                BY <3>1, <4>1 DEF Tied, Stored, Holds, TypeOK
        <3>3. ASSUME NEW x \in Reqs, x # r, Tied(x, f)'
              PROVE  Tied(x, f) /\ (Stored(t, f) => x # t)
            <4>1. pc'[x] = pc[x] /\ req'[x] = req[x]
                BY <3>3, OthersUntouched
            <4>2. Tied(x, f)
                BY <3>1, <3>3, <4>1 DEF Tied, Stored, Holds, TypeOK
            <4>3. ASSUME x = t, Stored(t, f) PROVE FALSE
                <5>1. pc[t] \in {"ok", "lost"}
                    BY <2>2, <4>3, TiedRooted DEF Tied
                <5>2. refreshTokenCache'[t] = NoToken
                    BY <2>2, <3>1 DEF TypeOK
                <5>3. QED
                    BY <3>3, <4>1, <4>3, <5>1, <5>2 DEF Tied, Stored, Holds
            <4>4. QED
                BY <4>2, <4>3
        <3>4. QED
            BY <1>0, <2>2, <3>2, <3>3 DEF Tied
    <2>5. QED
        BY <2>3, <2>4
<1>3. CASE (IssueRefreshToken(r) => Answer(r, "issue", "ok")) /\ ~ Redeem(r)
    BY <1>0, <1>3, NoNewTies
<1>4. QED
    BY <1>1, <1>2, <1>3

\* No step forks a family.
LEMMA LinearStep ==
    TypeOK /\ LocalInv /\ FamilyInv /\ RefreshFamilyLinear /\ [Next]_vars
        => RefreshFamilyLinear'
<1> SUFFICES ASSUME TypeOK, LocalInv, FamilyInv, RefreshFamilyLinear, [Next]_vars,
                    NEW f \in Reqs, NEW a \in Reqs, NEW b \in Reqs, Tied(a, f)', Tied(b, f)'
             PROVE  a = b
    BY DEF RefreshFamilyLinear, Tied, Stored, Holds
<1>1. CASE \E r \in Reqs : Begin(r) \/ Step(r)
    BY <1>1, LinearRequestStep
<1>2. CASE ~ \E r \in Reqs : Begin(r) \/ Step(r)
    <2>1. ASSUME NEW x \in Reqs, Tied(x, f)' PROVE Tied(x, f)
        BY <1>2, <2>1, EnvironmentKeeps DEF Tied, Stored, Holds
    <2>2. QED
        BY <2>1 DEF RefreshFamilyLinear, Tied
<1>3. QED
    BY <1>1, <1>2

(***************************************************************************)
(* Theorems.                                                               *)
(***************************************************************************)

\* Every step keeps families rooted, linear and well typed.
LEMMA RotationStep == RotationInv /\ [Next]_vars => RotationInv'
BY TypeStep, LocalStep, FamilyStep, LinearStep DEF RotationInv

\* The strengthened invariant holds in every behaviour.
LEMMA InvInductive == Spec => []Inv
<1>1. Init => Inv
    BY TypeInit, LocalInit, CodeInit, SpentInit, FamilyInit DEF Inv, RotationInv
<1>2. Inv /\ [Next]_vars => Inv'
    BY RotationStep, CodeStep, SpentStep DEF Inv, RotationInv
<1>3. QED
    BY <1>1, <1>2, PTL DEF Spec

\* In every behaviour the stores and the handlers' locals hold values of their types.
THEOREM TypeCorrect == Spec => []TypeOK
BY InvInductive, PTL DEF Inv, RotationInv

\* Whatever overlaps or fails, HandleAuthorization answers only once the code is
\* out of the cache, and a code that was answered never comes back.
THEOREM AnsweredCodesAreSpent == Spec => []AnsweredCodeIsSpent
BY InvInductive, PTL DEF Inv

\* Rotation never forks a family, for any number of overlapping refreshes.
THEOREM FamiliesAreLinear == Spec => []RefreshFamilyLinear
BY InvInductive, PTL DEF Inv, RotationInv

\* A family has the key, the client and the user of the request it is rooted in.
LEMMA RootConstrains == RotationInv => SenderConstrained
<1> SUFFICES ASSUME RotationInv PROVE SenderConstrained
    OBVIOUS
<1>1. ASSUME NEW f, NEW k, NEW cl, NEW i, Rooted(f, k, cl, i)
      PROVE  f \in Reqs /\ k # NoKey /\ sessions[f].jkt = k /\ sessions[f].subject = i.code
    BY <1>1 DEF RotationInv, LocalInv, RequestInv, AuthorizationInv, Rooted
<1>2. ASSUME NEW t \in Reqs, refreshTokenCache[t] # NoToken
      PROVE  LET tok == refreshTokenCache[t] IN
             Rooted(tok.root, tok.jkt, tok.clientID, tok.item)
    BY <1>2 DEF RotationInv, FamilyInv, TokenRooted
<1>3. ASSUME NEW r \in Reqs, Minted(r, "refresh_token")
      PROVE  /\ Rooted(req[r].root, req[r].jkt, req[r].clientID, req[r].item)
             /\ sessions[r].jkt = req[r].jkt
             /\ sessions[r].subject = req[r].item.code
    BY <1>3 DEF RotationInv, FamilyInv, RequestRooted, Minted, LocalInv, RequestInv
<1>4. QED
    BY <1>1, <1>2, <1>3 DEF SenderConstrained, Rooted

\* Key, client and user of a family are those of the redemption that opened it.
THEOREM FamiliesAreSenderConstrained == Spec => []SenderConstrained
BY RootConstrains, InvInductive, PTL DEF Inv

\* The redemption a session goes back to, with its item, key and client.
LEMMA OriginOf ==
    ASSUME RotationInv, NEW r \in Reqs, sessions[r].live,
           req[r].grant \in {"authorization_code", "refresh_token"}
    PROVE  /\ Origin(r) \in Reqs
           /\ req[Origin(r)].grant = "authorization_code"
           /\ sessions[Origin(r)].live
           /\ req[Origin(r)].item = req[r].item
           /\ sessions[r].jkt = req[Origin(r)].jkt
           /\ sessions[r].subject = req[Origin(r)].item.code
BY DEF Origin, RotationInv, FamilyInv, RequestRooted, Rooted, LocalInv, RequestInv,
       AuthorizationInv

LEMMA OriginBinds == RotationInv => AttestedSessionBound
<1> SUFFICES ASSUME RotationInv, NEW r \in Reqs, sessions[r].live,
                    req[r].grant \in {"authorization_code", "refresh_token"},
                    req[Origin(r)].attested
             PROVE  /\ sessions[r].jkt # NoKey
                    /\ req[Origin(r)].item.clientID = req[Origin(r)].clientID
                    /\ RequireKeyBinding =>
                          sessions[r].jkt \in CnfKeys[req[Origin(r)].clientID]
    BY DEF AttestedSessionBound
<1>1. AttestationAdmits(req[Origin(r)].clientID, req[Origin(r)].jkt)
      /\ req[Origin(r)].item.clientID = req[Origin(r)].clientID
    BY OriginOf DEF RotationInv, LocalInv, AuthorizationInv
<1>2. QED
    BY <1>1, OriginOf DEF AttestationAdmits

\* Sessions that go back to an attested wallet are bound to its key and its codes.
THEOREM AttestedSessionsAreBound == Spec => []AttestedSessionBound
BY OriginBinds, InvInductive, PTL DEF Inv

LEMMA OffersOnly == ~ MissReturnsZero /\ CodeInv => PreAuthGrantRedeemsOffers
BY DEF CodeInv, CopyInv, PreAuthGrantRedeemsOffers, Minted

\* When Get reports a miss, the pre-authorized grant never redeems a login's code.
THEOREM PreAuthGrantKeepsToOffers ==
    ASSUME ~ MissReturnsZero
    PROVE  Spec => []PreAuthGrantRedeemsOffers
BY OffersOnly, InvInductive, PTL DEF Inv

(***************************************************************************)
(* TokenEndpoint implements RefreshRotation.  Linearity makes TokenOf and  *)
(* HolderOf say who carries a family; a step that ties nobody to a family  *)
(* maps to Lose, and only the first token, its redemption and its rotation *)
(* tie anyone.                                                             *)
(***************************************************************************)

\* TokenOf and HolderOf name whoever carries family f, at most one of them anyone.
Carried(f) ==
    /\ \A x \in Reqs : Stored(x, f) <=> TokenOf(f) = x
    /\ \A x \in Reqs : Holds(x, f) <=> HolderOf(f) = x
    /\ (TokenOf(f) = NoReq) <=> (\A x \in Reqs : ~ Stored(x, f))
    /\ (HolderOf(f) = NoReq) <=> (\A x \in Reqs : ~ Holds(x, f))
    /\ TokenOf(f) # NoReq => HolderOf(f) = NoReq

AllCarried == \A f \in Reqs : Carried(f)

\* By linearity, and since a stored token's request has been answered.
LEMMA Carriers == RotationInv => AllCarried
<1> SUFFICES ASSUME RotationInv, NEW f \in Reqs PROVE Carried(f)
    BY DEF AllCarried
<1> DEFINE S == {t \in Reqs : Stored(t, f)}
           H == {r \in Reqs : Holds(r, f)}
<1>1. /\ TokenOf(f) = IF S = {} THEN NoReq ELSE CHOOSE r \in S : TRUE
      /\ HolderOf(f) = IF H = {} THEN NoReq ELSE CHOOSE r \in H : TRUE
    BY DEF TokenOf, HolderOf, Bearer
<1>2. \A a, b \in Reqs : (a \in S \cup H) /\ (b \in S \cup H) => a = b
    BY DEF RotationInv, RefreshFamilyLinear
<1>3. NoReq \notin Reqs
    BY DistinctAssumption
<1>4. S # {} => TokenOf(f) \in S
    BY <1>1
<1>5. H # {} => HolderOf(f) \in H
    BY <1>1
<1>6. ASSUME NEW x \in Reqs PROVE Stored(x, f) => H = {}
    <2> SUFFICES ASSUME Stored(x, f), NEW y \in H PROVE FALSE
        OBVIOUS
    <2>1. y = x
        BY <1>2
    <2>2. pc[x] \in {"ok", "lost"}
        BY TiedRooted DEF RotationInv, Tied
    <2>3. QED
        BY <2>1, <2>2 DEF Holds
<1>7. QED
    BY <1>1, <1>2, <1>3, <1>4, <1>5, <1>6 DEF Carried

\* The same of the next state.
LEMMA CarriersNext == RotationInv' => AllCarried'
BY Carriers, PTL

\* A step that ties no one to a family and answers no one a token loses the
\* families whose carrier it unties, which may be none.
LEMMA NoTieLoses ==
    ASSUME RotationInv, RotationInv', Given' = Given,
           \A x, f \in Reqs : (Stored(x, f)' => Stored(x, f)) /\ (Holds(x, f)' => Holds(x, f))
    PROVE  Rotation!Next
<1> DEFINE F == {f \in Reqs : TokenOf(f)' # TokenOf(f) \/ HolderOf(f)' # HolderOf(f)}
<1>1. ASSUME NEW f \in Reqs
      PROVE  /\ TokenOf(f)' = IF f \in F THEN NoReq ELSE TokenOf(f)
             /\ HolderOf(f)' = IF f \in F THEN NoReq ELSE HolderOf(f)
    <2>1. Carried(f) /\ Carried(f)'
        BY Carriers, CarriersNext DEF AllCarried
    <2>2. ASSUME TokenOf(f)' # NoReq PROVE TokenOf(f)' = TokenOf(f)
        <3>1. PICK x \in Reqs : Stored(x, f)'
            BY <2>1, <2>2 DEF Carried
        <3>2. Stored(x, f)
            BY <3>1 DEF Stored
        <3>3. QED
            BY <2>1, <3>1, <3>2 DEF Carried
    <2>3. ASSUME HolderOf(f)' # NoReq PROVE HolderOf(f)' = HolderOf(f)
        <3>1. PICK x \in Reqs : Holds(x, f)'
            BY <2>1, <2>3 DEF Carried
        <3>2. Holds(x, f)
            BY <3>1 DEF Holds
        <3>3. QED
            BY <2>1, <3>1, <3>2 DEF Carried
    <2>4. f \in F <=> TokenOf(f)' # TokenOf(f) \/ HolderOf(f)' # HolderOf(f)
        OBVIOUS
    <2> HIDE DEF F
    <2>5. CASE f \notin F
        BY <2>4, <2>5
    <2>6. CASE f \in F
        <3>1. TokenOf(f)' = NoReq /\ HolderOf(f)' = NoReq
            BY <2>1, <2>2, <2>3, <2>4, <2>6 DEF Carried
        <3>2. QED
            BY <2>6, <3>1
    <2>7. QED
        BY <2>5, <2>6
<1>3. F \in SUBSET Reqs
    OBVIOUS
<1>4. /\ Current' = [f \in Reqs |-> IF f \in F THEN NoReq ELSE Current[f]]
      /\ Holder' = [f \in Reqs |-> IF f \in F THEN NoReq ELSE Holder[f]]
    BY <1>1 DEF Current, Holder
<1>5. QED
    BY <1>3, <1>4 DEF Rotation!Lose, Rotation!Next

Issues(r) == IssueRefreshToken(r) /\ ~ Answer(r, "issue", "ok")
Redeems(r) == Redeem(r) /\ pc'[r] = "createRefresh"
Rotates(r) == Rotate(r) /\ ~ Answer(r, "rotate", "ok")

\* Every other step of a request ties it to no family and keeps what it was given.
LEMMA QuietStep ==
    ASSUME RotationInv, NEW r \in Reqs, Begin(r) \/ Step(r),
           ~ Issues(r), ~ Redeems(r), ~ Rotates(r)
    PROVE  /\ req'[r].rotated <=> req[r].rotated
           /\ \A x \in Reqs : refreshTokenCache'[x] \in {refreshTokenCache[x], NoToken}
           /\ pc'[r] \in {"createRefresh", "rotate"} =>
                 pc[r] \in {"createRefresh", "rotate"} /\ req'[r].root = req[r].root
<1> USE DEF RotationInv
<1>0. RequestInv(r) /\ req \in [Reqs -> Request] /\ pc \in [Reqs -> Steps]
    BY DEF LocalInv, TypeOK
<1>1. CASE Begin(r)
    <2>1. ~ req[r].rotated
        BY <1>0, <1>1, ArriveFresh DEF RequestInv, NoRequest
    <2>2. QED
        BY <1>1, <2>1, ArriveFresh
<1>2. CASE IssueRefreshToken(r)
    BY <1>0, <1>2 DEF Issues, Answer, Goto
<1>3. CASE Redeem(r)
    <2>1. /\ req' = req \/ pc'[r] = "createRefresh"
          /\ pc'[r] \in {"createRefresh", "refused"}
        BY <1>0, <1>3 DEF Redeem, Inherit, Answer, Goto
    <2>2. \A x \in Reqs : refreshTokenCache'[x] \in {refreshTokenCache[x], NoToken}
        BY <1>3 DEF Redeem, Answer, TypeOK
    <2>3. QED
        BY <1>3, <2>1, <2>2 DEF Redeems
<1>4. CASE Rotate(r)
    BY <1>0, <1>4 DEF Rotates, Answer, Goto
<1>5. CASE CreateRefresh(r)
    BY <1>0, <1>5 DEF CreateRefresh, Answer, Goto
<1>6. CASE Step(r) /\ ~ IssueRefreshToken(r) /\ ~ Redeem(r) /\ ~ Rotate(r) /\ ~ CreateRefresh(r)
    <2>1. refreshTokenCache' = refreshTokenCache /\ pc'[r] \notin {"createRefresh", "rotate"}
        BY <1>6, OtherHandlers
    <2>2. req'[r].rotated = req[r].rotated
        BY <1>0, <1>6 DEF Step, GetItem, CreateSession, DeleteSession, DeleteItem,
              GetPreAuthItem, ValidateTXCode, DeleteTXCode, CreatePreAuth, DeletePreAuth,
              Answer, Request
    <2>3. QED
        BY <2>1, <2>2
<1>7. QED
    BY <1>1, <1>2, <1>3, <1>4, <1>5, <1>6

\* So does a step of the environment.
LEMMA QuietNext ==
    ASSUME RotationInv, RotationInv', [Next]_vars,
           \A r \in Reqs : Begin(r) \/ Step(r) => ~ Issues(r) /\ ~ Redeems(r) /\ ~ Rotates(r)
    PROVE  Rotation!Next
<1>1. /\ \A q \in Reqs : req'[q].rotated <=> req[q].rotated
      /\ \A x \in Reqs : refreshTokenCache'[x] \in {refreshTokenCache[x], NoToken}
      /\ \A q \in Reqs : pc'[q] \in {"createRefresh", "rotate"} =>
            pc[q] \in {"createRefresh", "rotate"} /\ req'[q].root = req[q].root
    <2>1. CASE \E r \in Reqs : Begin(r) \/ Step(r)
        BY <2>1, QuietStep, OthersUntouched DEF RotationInv
    <2>2. CASE ~ \E r \in Reqs : Begin(r) \/ Step(r)
        BY <2>2, EnvironmentKeeps DEF RotationInv
    <2>3. QED
        BY <2>1, <2>2
<1>2. Given' = Given
    BY <1>1 DEF Given
<1>3. ASSUME NEW x \in Reqs, NEW f \in Reqs
      PROVE  (Stored(x, f)' => Stored(x, f)) /\ (Holds(x, f)' => Holds(x, f))
    BY <1>1 DEF Stored, Holds
<1>4. QED
    BY <1>2, <1>3, NoTieLoses

\* A family whose tokens and handlers are who they were is carried as it was.
LEMMA CarriedAsBefore ==
    ASSUME RotationInv, RotationInv', NEW f \in Reqs
    PROVE  /\ (\A x \in Reqs : Stored(x, f)' <=> Stored(x, f)) => TokenOf(f)' = TokenOf(f)
           /\ (\A x \in Reqs : Holds(x, f)' <=> Holds(x, f)) => HolderOf(f)' = HolderOf(f)
<1>1. Carried(f) /\ Carried(f)'
    BY Carriers, CarriersNext DEF AllCarried
<1>2. QED
    BY <1>1 DEF Carried

\* The first refresh token opens the family of its request.
LEMMA IssueOpens ==
    ASSUME RotationInv, RotationInv', NEW r \in Reqs, Step(r), Issues(r)
    PROVE  Rotation!Open(r)
<1> DEFINE tok == [clientID |-> req[r].clientID, jkt |-> req[r].jkt,
                   item |-> req[r].item, root |-> r]
<1>1. /\ pc[r] = "issue" /\ pc'[r] \in {"ok", "lost"}
      /\ refreshTokenCache' = [refreshTokenCache EXCEPT ![r] = tok]
      /\ req'[r].rotated
    BY DEF Issues, IssueRefreshToken, StoreToken, Finish, Goto, RotationInv, TypeOK, Request
<1>2. ~ req[r].rotated
    BY <1>1 DEF RotationInv, LocalInv, RequestInv
<1>3. \A q \in Reqs : q # r => pc'[q] = pc[q] /\ req'[q] = req[q]
    BY OthersUntouched DEF RotationInv
<1>4. \A f \in Reqs : ~ Stored(r, f) /\ \A x \in Reqs : ~ Stored(x, r)
    <2>1. refreshTokenCache[r] = NoToken
        BY <1>2 DEF RotationInv, FamilyInv, TokenRooted
    <2>2. QED
        BY <1>2, <2>1, TiedRooted DEF Stored, Tied, RotationInv
<1>5. ASSUME NEW x \in Reqs, NEW f \in Reqs
      PROVE  /\ Stored(x, f)' <=> (x = r /\ f = r) \/ (x # r /\ Stored(x, f))
             /\ Holds(x, f)' <=> Holds(x, f)
    <2>1. tok # NoToken /\ tok.root = r
        BY DistinctAssumption DEF NoToken
    <2> HIDE DEF tok
    <2>2. refreshTokenCache'[x] = IF x = r THEN tok ELSE refreshTokenCache[x]
        BY <1>1 DEF RotationInv, TypeOK
    <2>3. QED
        BY <1>1, <1>3, <2>1, <2>2 DEF Stored, Holds
<1>6. ASSUME NEW f \in Reqs
      PROVE  /\ TokenOf(f)' = IF f = r THEN r ELSE TokenOf(f)
             /\ HolderOf(f)' = HolderOf(f)
    <2>1. CASE f = r
        BY <1>5, <2>1, CarriedAsBefore, CarriersNext DEF AllCarried, Carried
    <2>2. CASE f # r
        BY <1>4, <1>5, <2>2, CarriedAsBefore
    <2>3. QED
        BY <2>1, <2>2
<1>7. /\ r \notin Given
      /\ Given' = Given \cup {r}
    BY <1>1, <1>2, <1>3 DEF Given
<1>8. Current' = [Current EXCEPT ![r] = r] /\ Holder' = Holder
    BY <1>6 DEF Current, Holder
<1>9. QED
    BY <1>7, <1>8 DEF Rotation!Open

\* A redemption takes the token of its family.
LEMMA RedeemRedeems ==
    ASSUME RotationInv, RotationInv', NEW r \in Reqs, Step(r), Redeems(r)
    PROVE  \E f \in Reqs : Rotation!Redeem(f, r)
<1> DEFINE t == req[r].token
           g == refreshTokenCache[t].root
<1>1. pc[r] = "redeem"
    BY DEF Redeems, Redeem, Answer
<1>2. t \in Reqs
    BY <1>1, Presented DEF RotationInv
<1>3. /\ refreshTokenCache[t] # NoToken
      /\ refreshTokenCache' = [refreshTokenCache EXCEPT ![t] = NoToken]
      /\ pc'[r] = "createRefresh" /\ req'[r].root = g
      /\ req'[r].rotated = req[r].rotated
    BY DEF Redeems, Redeem, Inherit, Answer, Goto, RotationInv, TypeOK, Request
<1>4. g \in Reqs
    BY <1>2, <1>3 DEF RotationInv, FamilyInv, TokenRooted, Rooted
<1>5. ~ req[r].rotated
    BY <1>1 DEF RotationInv, LocalInv, RequestInv
<1>6. \A q \in Reqs : q # r => pc'[q] = pc[q] /\ req'[q] = req[q]
    BY OthersUntouched DEF RotationInv
<1>7. Stored(t, g)
    BY <1>3 DEF Stored
<1>8. ASSUME NEW x \in Reqs, NEW f \in Reqs
      PROVE  /\ Stored(x, f)' <=> x # t /\ Stored(x, f)
             /\ Holds(x, f)' <=> (x = r /\ f = g) \/ (x # r /\ Holds(x, f))
             /\ Stored(t, f) => f = g
             /\ ~ Holds(r, f)
    <2>1. refreshTokenCache'[x] = IF x = t THEN NoToken ELSE refreshTokenCache[x]
        BY <1>2, <1>3 DEF RotationInv, TypeOK
    <2> HIDE DEF t
    <2>2. QED
        BY <1>1, <1>3, <1>6, <2>1 DEF Stored, Holds
<1> HIDE DEF t, g
<1>9. ASSUME NEW f \in Reqs
      PROVE  /\ TokenOf(f)' = IF f = g THEN NoReq ELSE TokenOf(f)
             /\ HolderOf(f)' = IF f = g THEN r ELSE HolderOf(f)
    <2>1. Carried(f) /\ Carried(f)'
        BY Carriers, CarriersNext DEF AllCarried
    <2>2. CASE f = g
        BY <1>2, <1>7, <1>8, <2>1, <2>2 DEF Carried
    <2>3. CASE f # g
        BY <1>2, <1>8, <2>3, CarriedAsBefore
    <2>4. QED
        BY <2>2, <2>3
<1>10. TokenOf(g) # NoReq
    BY <1>2, <1>4, <1>7, Carriers, DistinctAssumption DEF AllCarried, Carried
<1>11. r \notin Given /\ Given' = Given
    BY <1>3, <1>5, <1>6 DEF Given
<1>12. /\ Current' = [Current EXCEPT ![g] = NoReq]
       /\ Holder' = [Holder EXCEPT ![g] = r]
       /\ Current[g] # NoReq
    BY <1>4, <1>9, <1>10 DEF Current, Holder
<1>13. QED
    BY <1>4, <1>11, <1>12 DEF Rotation!Redeem

\* Storing the next token ends the hold.
LEMMA RotateRotates ==
    ASSUME RotationInv, RotationInv', NEW r \in Reqs, Step(r), Rotates(r)
    PROVE  \E f \in Reqs : Rotation!Rotate(f)
<1> DEFINE g == req[r].root
           tok == [clientID |-> req[r].clientID, jkt |-> req[r].jkt,
                   item |-> req[r].item, root |-> g]
<1>1. /\ pc[r] = "rotate" /\ pc'[r] \in {"ok", "lost"}
      /\ refreshTokenCache' = [refreshTokenCache EXCEPT ![r] = tok]
      /\ req'[r].rotated
    BY DEF Rotates, Rotate, StoreToken, Finish, Goto, RotationInv, TypeOK, Request
<1>2. g \in Reqs /\ ~ req[r].rotated
    BY <1>1 DEF RotationInv, LocalInv, RequestInv, FamilyInv, RequestRooted, Rooted, RefreshSteps
<1>3. \A q \in Reqs : q # r => pc'[q] = pc[q] /\ req'[q] = req[q]
    BY OthersUntouched DEF RotationInv
<1>4. refreshTokenCache[r] = NoToken
    BY <1>2 DEF RotationInv, FamilyInv, TokenRooted
<1>5. ASSUME NEW x \in Reqs, NEW f \in Reqs
      PROVE  /\ Stored(x, f)' <=> (x = r /\ f = g) \/ (x # r /\ Stored(x, f))
             /\ Holds(x, f)' <=> x # r /\ Holds(x, f)
             /\ Holds(r, f) <=> f = g
             /\ ~ Stored(r, f)
    <2>1. tok # NoToken /\ tok.root = g
        BY <1>2, DistinctAssumption DEF NoToken
    <2> HIDE DEF tok
    <2>2. refreshTokenCache'[x] = IF x = r THEN tok ELSE refreshTokenCache[x]
        BY <1>1 DEF RotationInv, TypeOK
    <2>3. QED
        BY <1>1, <1>3, <1>4, <2>1, <2>2 DEF Stored, Holds
<1> HIDE DEF tok, g
<1>6. ASSUME NEW f \in Reqs
      PROVE  /\ TokenOf(f)' = IF f = g THEN r ELSE TokenOf(f)
             /\ HolderOf(f)' = IF f = g THEN NoReq ELSE HolderOf(f)
    <2>1. Carried(f) /\ Carried(f)'
        BY Carriers, CarriersNext DEF AllCarried
    <2>2. CASE f = g
        BY <1>5, <2>1, <2>2 DEF Carried
    <2>3. CASE f # g
        BY <1>5, <2>3, CarriedAsBefore
    <2>4. QED
        BY <2>2, <2>3
<1>7. HolderOf(g) = r
    BY <1>2, <1>5, Carriers DEF AllCarried, Carried
<1>8. Given' = Given \cup {r}
    BY <1>1, <1>3 DEF Given
<1>9. /\ Current' = [Current EXCEPT ![g] = r]
      /\ Holder' = [Holder EXCEPT ![g] = NoReq]
      /\ Holder[g] = r
    BY <1>2, <1>6, <1>7 DEF Current, Holder
<1>10. QED
    BY <1>2, <1>8, <1>9, DistinctAssumption DEF Rotation!Rotate

LEMMA InitMaps == Init => Rotation!Init
<1> SUFFICES ASSUME Init PROVE Rotation!Init
    OBVIOUS
<1>1. \A f, x \in Reqs : ~ Stored(x, f) /\ ~ Holds(x, f)
    BY DEF Init, Stored, Holds
<1>2. \A f \in Reqs : TokenOf(f) = NoReq /\ HolderOf(f) = NoReq
    BY <1>1 DEF TokenOf, HolderOf, Bearer
<1>3. Given = {}
    BY DEF Init, Given, NoRequest
<1>4. QED
    BY <1>2, <1>3 DEF Rotation!Init, Current, Holder

\* Every step maps to a step of the baton.
LEMMA NextMaps == RotationInv /\ RotationInv' /\ [Next]_vars => Rotation!Next
<1> SUFFICES ASSUME RotationInv, RotationInv', [Next]_vars PROVE Rotation!Next
    OBVIOUS
<1>1. ASSUME NEW r \in Reqs, Begin(r) \/ Step(r), Issues(r) PROVE Rotation!Next
    <2>1. Step(r)
        BY <1>1 DEF Issues, Step
    <2>2. QED
        BY <1>1, <2>1, IssueOpens DEF Rotation!Next
<1>2. ASSUME NEW r \in Reqs, Begin(r) \/ Step(r), Redeems(r) PROVE Rotation!Next
    <2>1. Step(r)
        BY <1>2 DEF Redeems, Step
    <2>2. QED
        BY <1>2, <2>1, RedeemRedeems DEF Rotation!Next
<1>3. ASSUME NEW r \in Reqs, Begin(r) \/ Step(r), Rotates(r) PROVE Rotation!Next
    <2>1. Step(r)
        BY <1>3 DEF Rotates, Step
    <2>2. QED
        BY <1>3, <2>1, RotateRotates DEF Rotation!Next
<1>4. QED
    BY <1>1, <1>2, <1>3, QuietNext

\* For any number of requests, overlaps, failures and crashes, the refresh
\* tokens of HandleAuthorization and HandleRefreshToken are batons.
THEOREM TokensAreBatons == Spec => ImplementsRotation
<1>1. RotationInv /\ RotationInv' /\ [Next]_vars => [Rotation!Next]_Rotation!vars
    BY NextMaps
<1>2. QED
    BY <1>1, InitMaps, InvInductive, PTL DEF Inv, ImplementsRotation, Spec, Rotation!Spec
=============================================================================

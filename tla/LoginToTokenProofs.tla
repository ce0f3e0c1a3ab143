------------------------- MODULE LoginToTokenProofs -------------------------
(***************************************************************************)
(* To the token endpoint the login flow is what TokenEndpoint says of it.  *)
(* The invariant of LoginFlow holds of the composition, whose steps are    *)
(* steps of LoginFlow or leave it alone; GlueInv relates its calls to the  *)
(* stores they write; and a step that writes them is then a Callback or a  *)
(* CreateInteractive of TokenEndpoint, or changes nothing there.           *)
(***************************************************************************)
EXTENDS LoginToToken, LoginFlowProofs, TokenEndpointProofs

\* A login that is under way has a client.
ClientInv ==
    \A l \in Logins : login[l].stage \in {"redirected", "open"} => login[l].client \in Clients

\* Only a callback that minted issues a code.
IssuedInv ==
    \A l \in Logins : l \in issued => \E k \in Calls : call[k].minted /\ call[k].login = l

InteractiveSession(l) == [live |-> TRUE, subject |-> l, jkt |-> NoKey]

\* Under a login's own ID there is no session or the one its callback made.
SessionInv ==
    /\ sessions = [s \in Reqs \cup Logins |-> sessions[s]]
    /\ \A l \in Logins : sessions[l] \in {NoSession, InteractiveSession(l)}

GlueInv == ClientInv /\ IssuedInv /\ SessionInv

(***************************************************************************)
(* The composition keeps LoginFlow's promises.                             *)
(***************************************************************************)

LEMMA StepsOfLoginFlow == [JointNext]_jointVars => [LoginNext]_loginVars
<1> SUFFICES ASSUME [JointNext]_jointVars PROVE [LoginNext]_loginVars
    OBVIOUS
<1>1. CASE LoginStep
    BY <1>1 DEF LoginStep, LoginNext, CallStep
<1>2. CASE TokenStep
    BY <1>2 DEF TokenStep
<1>3. ASSUME NEW k \in Calls, StoreItem(k) \/ StoreSession(k) PROVE LoginNext
    BY <1>3 DEF StoreItem, StoreSession, LoginNext, CallStep
<1>4. CASE ProcessCrash
    BY <1>4 DEF ProcessCrash, LoginNext
<1>5. CASE UNCHANGED jointVars
    BY <1>5 DEF jointVars, loginVars
<1>6. QED
    BY <1>1, <1>2, <1>3, <1>4, <1>5 DEF JointNext

\* Nothing the token endpoint, the issuer or an expiry in their stores does disturbs
\* a login, and a restart of the process ends the callbacks as LoginFlow has it: its
\* theorems hold of the composition (edim.go:329-363, authorization.go:24).
THEOREM ImplementsLoginFlow == JointSpec => LoginSpec
BY StepsOfLoginFlow, PTL DEF JointSpec, JointInit, LoginSpec

\* Storing an item is the doing of one call, and changes nobody's login.
LEMMA SetItemEffect ==
    ASSUME LoginTypeOK, NEW k \in Calls, SetItem(k)
    PROVE  /\ call[k].stage = "store"
           /\ call'[k].login = call[k].login
           /\ call'[k].popped = call[k].popped
           /\ \A j \in Calls \ {k} : call'[j] = call[j]
<1>1. PICK b \in BOOLEAN, to \in {"finish", "fail"} :
          Does(k, "store", [call[k] EXCEPT !.minted = b, !.stage = to])
    BY DEF SetItem
<1>2. call[k] \in Call
    BY DEF LoginTypeOK
<1>3. /\ call[k].stage = "store"
      /\ call'[k] = [call[k] EXCEPT !.minted = b, !.stage = to]
      /\ \A j \in Calls \ {k} : call'[j] = call[j]
    BY <1>1 DEF Does, LoginTypeOK
<1>4. QED
    BY <1>2, <1>3 DEF Call

\* With distinct states a callback that mints is the first of its login to do so.
LEMMA FirstMint ==
    ASSUME LoginInv, LoginInv', \A l, m \in Logins : StateOf[l] = StateOf[m] => l = m,
           NEW k \in Calls, SetItem(k), call'[k].minted
    PROVE  \A b \in Calls : call[b].minted => call[b].login # call[k].login
<1>1. call'[k].login = call[k].login /\ call'[k].popped = call[k].popped
      /\ ~ call[k].minted
    BY SetItemEffect DEF LoginInv, CallInv
<1>2. ASSUME NEW b \in Calls, call[b].minted PROVE b # k /\ call'[b] = call[b]
    BY <1>1, <1>2, SetItemEffect DEF LoginInv
<1>3. ASSUME NEW b \in Calls, call'[b].minted
      PROVE  call'[b].popped = call'[b].login /\ call'[b].popped # NoLogin
    BY <1>3 DEF LoginInv, CallInv, NoCall, LoginTypeOK, Call
<1>4. ASSUME NEW b \in Calls, call[b].minted, call[b].login = call[k].login PROVE FALSE
    BY <1>1, <1>2, <1>3, <1>4 DEF LoginInv, SavedRequestSpentOnce
<1>5. QED
    BY <1>4

(***************************************************************************)
(* The glue is kept.                                                       *)
(***************************************************************************)

LEMMA GlueInit == JointInit => GlueInv
<1> SUFFICES ASSUME JointInit PROVE GlueInv
    OBVIOUS
<1>1. ClientInv
    BY DEF JointInit, LoginInit, ClientInv, Unopened
<1>2. IssuedInv
    BY DEF JointInit, Init, IssuedInv
<1>3. SessionInv
    BY CodesAreLogins DEF JointInit, Init, SessionInv
<1>4. QED
    BY <1>1, <1>2, <1>3 DEF GlueInv

\* Logins are opened with a client and keep it.
LEMMA ClientStep == ASSUME LoginTypeOK, ClientInv, [LoginNext]_loginVars PROVE ClientInv'
<1>1. ASSUME NEW l \in Logins, NEW request, Opens(l, request),
             request.stage \in {"redirected", "open"} => request.client \in Clients
      PROVE  ClientInv'
    BY <1>1 DEF Opens, ClientInv, LoginTypeOK
<1>2. ASSUME NEW l \in Logins, NEW p \in Pushes, NEW c \in Clients, FromPAR(l, p, c)
      PROVE  ClientInv'
    BY <1>1, <1>2 DEF FromPAR, Unopened
<1>3. ASSUME NEW l \in Logins, NEW c \in Clients, FromQuery(l, c) PROVE ClientInv'
    BY <1>1, <1>3 DEF FromQuery
<1>4. ASSUME NEW l \in Logins, NEW c \in Clients, Direct(l, c) PROVE ClientInv'
    BY <1>1, <1>4 DEF Direct
<1>5. ASSUME NEW l \in Logins, Authorize(l) PROVE ClientInv'
    BY <1>5 DEF Authorize, ClientInv, LoginTypeOK, Login
<1>6. CASE UNCHANGED login
    BY <1>6 DEF ClientInv
<1>7. ASSUME NEW k \in Calls, CallStep(k) PROVE UNCHANGED login
    BY <1>7 DEF CallStep, Verify, PopState, SetItem, CreateLoginSession, Audit, Redirect, Moves, Does
<1>8. ASSUME NEW k \in Calls, NEW l \in Logins, BeginCallback(k, l) \/ BeginReturn(k, l)
      PROVE  UNCHANGED login
    BY <1>8 DEF BeginCallback, BeginReturn, Does
<1>9. CASE LoginExpire \/ LoginCrash
    BY <1>6, <1>9 DEF LoginExpire, LoginCrash, ExpirePush, ExpireState, ExpireCorrelation, ExpireTx
<1>10. ASSUME NEW p \in Pushes, NEW c \in Clients, Push(p, c) PROVE UNCHANGED login
    BY <1>10 DEF Push
<1>11. CASE UNCHANGED loginVars
    BY <1>6, <1>11 DEF loginVars
<1>12. QED
    BY <1>2, <1>3, <1>4, <1>5, <1>6, <1>7, <1>8, <1>9, <1>10, <1>11 DEF LoginNext, Enter

\* What a call minted stays minted, for the same login.
LEMMA MintedStays ==
    ASSUME LoginTypeOK, \A k \in Calls : CallInv(k), [LoginNext]_loginVars,
           NEW k \in Calls, call[k].minted
    PROVE  call'[k].minted /\ call'[k].login = call[k].login
<1>1. call[k].stage \notin {"idle", "store"}
    BY DEF CallInv, NoCall
<1>2. ASSUME NEW j \in Calls, CallStep(j)
      PROVE  call'[k].minted /\ call'[k].login = call[k].login
    <2>1. CASE SetItem(j)
        BY <1>1, <2>1, SetItemEffect
    <2>2. CASE PopState(j)
        BY <2>2 DEF PopState, LoginTypeOK, Call
    <2>3. CASE Verify(j) \/ Redirect(j)
        BY <2>3 DEF Verify, Redirect, Moves, Does, LoginTypeOK, Call
    <2>4. CASE CreateLoginSession(j) \/ Audit(j)
        <3>1. call[j] \in Call
            BY DEF LoginTypeOK
        <3>2. \A b, to : LET next == [call[j] EXCEPT !.created = b, !.stage = to] IN
                  next.minted = call[j].minted /\ next.login = call[j].login
            BY <3>1 DEF Call
        <3>3. \A b, to : LET next == [call[j] EXCEPT !.audited = b, !.stage = to] IN
                  next.minted = call[j].minted /\ next.login = call[j].login
            BY <3>1 DEF Call
        <3>4. \A to : LET next == [call[j] EXCEPT !.stage = to] IN
                  next.minted = call[j].minted /\ next.login = call[j].login
            BY <3>1 DEF Call
        <3>5. ASSUME NEW from, NEW next, Does(j, from, next), next.minted = call[j].minted,
                     next.login = call[j].login
              PROVE  call'[k].minted /\ call'[k].login = call[k].login
            BY <3>5 DEF Does, LoginTypeOK
        <3>6. CASE CreateLoginSession(j)
            BY <3>2, <3>5, <3>6 DEF CreateLoginSession
        <3>7. CASE Audit(j)
            BY <3>3, <3>4, <3>5, <3>7 DEF Audit, Moves
        <3>8. QED
            BY <2>4, <3>6, <3>7
    <2>5. QED
        BY <1>2, <2>1, <2>2, <2>3, <2>4 DEF CallStep
<1>3. ASSUME NEW j \in Calls, NEW l \in Logins, BeginCallback(j, l) \/ BeginReturn(j, l)
      PROVE  call'[k] = call[k]
    BY <1>1, <1>3 DEF BeginCallback, BeginReturn, Does, LoginTypeOK
<1>4. CASE LoginCrash
    BY <1>4 DEF LoginCrash, LoginTypeOK, Call
<1>5. CASE \/ LoginExpire
           \/ \E l \in Logins : Enter(l)
           \/ \E p \in Pushes, c \in Clients : Push(p, c)
    BY <1>5 DEF LoginExpire, ExpirePush, ExpireState, ExpireCorrelation, ExpireTx, Enter, FromPAR,
                FromQuery, Direct, Opens, Authorize, Push
<1>6. CASE UNCHANGED loginVars
    BY <1>6 DEF loginVars
<1>7. QED
    BY <1>2, <1>3, <1>4, <1>5, <1>6 DEF LoginNext

\* The token endpoint issues no login's code.
LEMMA TokenIssues ==
    ASSUME TokenStep, NEW l \in Logins, l \in issued' PROVE l \in issued
<1>1. ASSUME NEW c \in PreCodes, PreauthGenerate(c) PROVE l \in issued
    BY <1>1, DistinctAssumption, CodesAreLogins DEF PreauthGenerate
<1>2. ASSUME NEW r \in Reqs, Begin(r) PROVE UNCHANGED issued
    BY <1>2 DEF Begin, Refuse, BeginAuthorization, BeginRefresh,
                BeginPreAuthorized, Arrive
<1>3. ASSUME NEW r \in Reqs, Step(r) PROVE UNCHANGED issued
    BY <1>3 DEF Step, GetItem, CreateSession, DeleteSession,
                DeleteItem, IssueRefreshToken, Redeem, CreateRefresh,
                Rotate, GetPreAuthItem, ValidateTXCode, DeleteTXCode,
                CreatePreAuth, DeletePreAuth, Answer
<1>4. CASE Expire
    BY <1>4 DEF Expire, ExpireCode, ExpireTXCode, ExpireRefreshToken
<1>5. QED
    BY <1>1, <1>2, <1>3, <1>4 DEF TokenStep

LEMMA IssuedStep ==
    ASSUME LoginInv, IssuedInv, [JointNext]_jointVars PROVE IssuedInv'
<1>1. [LoginNext]_loginVars
    BY StepsOfLoginFlow
<1>2. ASSUME NEW l \in Logins, l \in issued
      PROVE  \E k \in Calls : call'[k].minted /\ call'[k].login = l
    <2>1. PICK k \in Calls : call[k].minted /\ call[k].login = l
        BY <1>2 DEF IssuedInv
    <2>2. call'[k].minted /\ call'[k].login = l
        BY <1>1, <2>1, MintedStays DEF LoginInv
    <2>3. QED
        BY <2>2
<1>3. ASSUME NEW k \in Calls, StoreItem(k), NEW l \in Logins, l \in issued', l \notin issued
      PROVE  call'[k].minted /\ call'[k].login = l
    <2>1. call'[k].login = call[k].login
        BY <1>3, SetItemEffect DEF StoreItem, LoginInv
    <2>2. QED
        BY <1>3, <2>1 DEF StoreItem
<1>4. ASSUME NEW l \in Logins, l \in issued', l \notin issued
      PROVE  \E k \in Calls : StoreItem(k)
    BY <1>4, TokenIssues
    DEF JointNext, LoginStep, StoreSession, ProcessCrash, Crash, vars, jointVars
<1>5. QED
    BY <1>2, <1>3, <1>4 DEF IssuedInv

LEMMA SessionStep == ASSUME LoginInv, SessionInv, [JointNext]_jointVars PROVE SessionInv'
<1> USE DEF SessionInv
<1>1. CASE UNCHANGED sessions
    BY <1>1
<1>2. ASSUME NEW r \in Reqs, NEW s, sessions' = [sessions EXCEPT ![r] = s] PROVE SessionInv'
    BY <1>2, DistinctAssumption, CodesAreLogins DEF AllCodes
<1>3. ASSUME NEW r \in Reqs, Step(r) PROVE SessionInv'
    <2>1. CASE DeleteSession(r)
        BY <2>1, DistinctAssumption, CodesAreLogins DEF DeleteSession, Answer
    <2>2. CASE CreateSession(r) \/ CreateRefresh(r) \/ CreatePreAuth(r)
        BY <1>1, <1>2, <2>2 DEF CreateSession, CreateRefresh, CreatePreAuth,
                                MintSession, Answer
    <2>3. CASE GetItem(r) \/ DeleteItem(r) \/ IssueRefreshToken(r)
        BY <1>1, <2>3 DEF GetItem, DeleteItem, IssueRefreshToken, Answer
    <2>4. CASE Redeem(r) \/ Rotate(r)
        BY <1>1, <2>4 DEF Redeem, Rotate, Answer
    <2>5. CASE GetPreAuthItem(r) \/ ValidateTXCode(r) \/ DeleteTXCode(r)
               \/ DeletePreAuth(r)
        BY <1>1, <2>5 DEF GetPreAuthItem, ValidateTXCode, DeleteTXCode,
                          DeletePreAuth, Answer
    <2>6. QED
        BY <1>3, <2>1, <2>2, <2>3, <2>4, <2>5 DEF Step
<1>4. ASSUME NEW r \in Reqs, Begin(r) PROVE UNCHANGED sessions
    BY <1>4 DEF Begin, Refuse, BeginAuthorization, BeginRefresh,
                BeginPreAuthorized, Arrive
<1>5. ASSUME NEW c \in PreCodes, PreauthGenerate(c) PROVE UNCHANGED sessions
    BY <1>5 DEF PreauthGenerate
<1>6. CASE Expire
    BY <1>1, <1>6
    DEF Expire, ExpireCode, ExpireTXCode, ExpireRefreshToken
<1>7. CASE TokenStep
    BY <1>1, <1>3, <1>4, <1>5, <1>6, <1>7 DEF TokenStep
<1>8. ASSUME NEW k \in Calls, StoreSession(k) PROVE SessionInv'
    <2>1. call[k].login \in Logins
        BY <1>8 DEF StoreSession, CreateLoginSession, Does, LoginInv, CallInv
    <2>2. QED
        BY <1>1, <1>8, <2>1, DistinctAssumption, CodesAreLogins DEF StoreSession, InteractiveSession
<1>9. ASSUME NEW k \in Calls, StoreItem(k) PROVE UNCHANGED sessions
    BY <1>9 DEF StoreItem
<1>10. CASE LoginStep \/ ProcessCrash \/ UNCHANGED jointVars
    BY <1>1, <1>10 DEF LoginStep, ProcessCrash, Crash, vars, jointVars
<1>11. QED
    BY <1>1, <1>7, <1>8, <1>9, <1>10 DEF JointNext

(***************************************************************************)
(* Every step is a step of the token endpoint or none, unless a login that *)
(* shares its state with another stores its code again.                    *)
(***************************************************************************)

\* Callback k stores the code of its login, perhaps not for the first time.
Stores(k) == StoreItem(k) /\ call'[k].minted

LEMMA TokenStepOrStores ==
    ASSUME LoginInv, GlueInv, [JointNext]_jointVars
    PROVE  [Next]_vars \/ \E k \in Calls : Stores(k)
<1>1. CASE LoginStep
    BY <1>1 DEF LoginStep
<1>2. CASE TokenStep
    BY <1>2 DEF TokenStep, Next
<1>3. ASSUME NEW k \in Calls, StoreItem(k), ~ call'[k].minted PROVE UNCHANGED vars
    BY <1>3 DEF StoreItem, vars
<1>4. ASSUME NEW k \in Calls, StoreSession(k) PROVE [Next]_vars
    <2> DEFINE l == call[k].login
    <2>1. l \in Logins
        BY <1>4 DEF StoreSession, CreateLoginSession, Does, LoginInv, CallInv
    <2>2. CASE call'[k].created /\ ~ sessions[l].live
        BY <1>4, <2>1, <2>2, CodesAreLogins DEF StoreSession, CreateInteractive, Next
    <2>3. CASE call'[k].created /\ sessions[l].live
        <3>1. sessions[l] = InteractiveSession(l)
            BY <2>1, <2>3 DEF GlueInv, SessionInv, NoSession
        <3>2. sessions' = sessions
            BY <1>4, <2>1, <2>3, <3>1 DEF StoreSession, InteractiveSession, GlueInv, SessionInv
        <3>3. QED
            BY <1>4, <3>2 DEF StoreSession, vars
    <2>4. CASE ~ call'[k].created
        BY <1>4, <2>4 DEF StoreSession, vars
    <2>5. QED
        BY <2>2, <2>3, <2>4
<1>5. CASE ProcessCrash
    BY <1>5 DEF ProcessCrash, Next
<1>6. CASE UNCHANGED jointVars
    BY <1>6 DEF jointVars, vars
<1>7. QED
    BY <1>1, <1>2, <1>3, <1>4, <1>5, <1>6 DEF JointNext, Stores

\* What is stored is an item of an open login, for its client.
LEMMA StoresItem ==
    ASSUME LoginInv, GlueInv, NEW k \in Calls, Stores(k)
    PROVE  /\ call[k].login \in Logins
           /\ login[call[k].login].stage = "open"
           /\ login[call[k].login].client \in Clients
           /\ issued' = issued \cup {call[k].login}
           /\ authCodeCache' = [authCodeCache EXCEPT ![call[k].login] =
                 [code |-> call[k].login, clientID |-> login[call[k].login].client,
                  noTXCode |-> FALSE]]
           /\ UNCHANGED <<preAuthCache, refreshTokenCache, sessions, pc, req, login>>
<1>1. call[k].login \in Logins /\ login[call[k].login].stage = "open"
    BY DEF Stores, StoreItem, SetItem, Does, LoginInv, CallInv
<1>2. login[call[k].login].client \in Clients
    BY <1>1 DEF GlueInv, ClientInv
<1>3. QED
    BY <1>1, <1>2 DEF Stores, StoreItem, SetItem, Does

LEMMA MapsToTokenStep ==
    ASSUME LoginInv, LoginInv', GlueInv, [JointNext]_jointVars,
           \A l, m \in Logins : StateOf[l] = StateOf[m] => l = m
    PROVE  [Next]_vars
<1>1. ASSUME NEW k \in Calls, Stores(k) PROVE Next
    <2>1. call[k].login \notin issued
        BY <1>1, StoresItem, FirstMint DEF GlueInv, IssuedInv, Stores, StoreItem
    <2>2. Callback(call[k].login, login[call[k].login].client)
        BY <1>1, <2>1, StoresItem DEF Callback
    <2>3. QED
        BY <1>1, <2>2, StoresItem, CodesAreLogins DEF Next
<1>2. QED
    BY <1>1, TokenStepOrStores

LEMMA GlueStep ==
    ASSUME LoginInv, GlueInv, [JointNext]_jointVars PROVE GlueInv'
BY ClientStep, IssuedStep, SessionStep, StepsOfLoginFlow DEF GlueInv, LoginInv

\* When states are distinct, callbacks give the token endpoint each code once, for
\* the client of its login, however often they are repeated: what TokenEndpoint
\* takes for granted, and with it all its theorems, hold of the two together.
THEOREM LoginsFeedTokens ==
    ASSUME \A l, m \in Logins : StateOf[l] = StateOf[m] => l = m
    PROVE  JointSpec => ImplementsTokenEndpoint
<1>1. JointSpec => []LoginInv
    BY ImplementsLoginFlow, LoginInvInductive, PTL
<1>2. LoginInv /\ GlueInv /\ [JointNext]_jointVars => GlueInv'
    BY GlueStep
<1>3. LoginInv /\ LoginInv' /\ GlueInv /\ [JointNext]_jointVars => [Next]_vars
    BY MapsToTokenStep
<1>4. JointInit => Init
    BY DEF JointInit
<1>5. QED
    BY <1>1, <1>2, <1>3, <1>4, GlueInit, PTL
    DEF JointSpec, ImplementsTokenEndpoint, Spec

(***************************************************************************)
(* What holds whoever shares a state: rotation does not mind a code that   *)
(* is stored again, and an item stays its login's.                         *)
(***************************************************************************)

LEMMA StoresKeepRotation ==
    ASSUME LoginInv, GlueInv, RotationInv, CodeInv, NEW k \in Calls, Stores(k)
    PROVE  RotationInv' /\ CodeInv'
<1> DEFINE l == call[k].login
           item == [code |-> l, clientID |-> login[l].client, noTXCode |-> FALSE]
<1>1. l \in AllCodes /\ item \in AuthCodeItem
    BY StoresItem, CodesAreLogins DEF AuthCodeItem, AllCodes
<1>2. TypeOK'
    BY <1>1, StoresItem DEF RotationInv, TypeOK
<1>3. LocalInv'
    BY StoresItem, LocalFrame DEF RotationInv, LocalInv
<1>4. UNCHANGED <<req, pc, sessions, refreshTokenCache>>
    BY StoresItem
<1>5. FamilyInv'
    <2> SUFFICES ASSUME NEW r \in Reqs PROVE TokenRooted(r)' /\ RequestRooted(r)'
        BY DEF FamilyInv
    <2>1. TokenRooted(r) /\ RequestRooted(r)
        BY DEF RotationInv, FamilyInv
    <2>2. \A f, x, cl, i : Rooted(f, x, cl, i) => Rooted(f, x, cl, i)'
        BY <1>4 DEF Rooted
    <2>3. QED
        BY <1>4, <2>1, <2>2 DEF TokenRooted, RequestRooted, Rooted
<1>6. RefreshFamilyLinear'
    BY <1>4 DEF RotationInv, RefreshFamilyLinear, Stored, Holds
<1>7. StoredInv'
    BY <1>1, StoresItem DEF CodeInv, StoredInv, RotationInv, TypeOK
<1>8. ASSUME NEW r \in Reqs PROVE CopyInv(r)'
    BY StoresItem, CopyFrame DEF CodeInv
<1>9. QED
    BY <1>2, <1>3, <1>5, <1>6, <1>7, <1>8 DEF RotationInv, CodeInv

LEMMA RotationKept ==
    ASSUME LoginInv, GlueInv, RotationInv, CodeInv, [JointNext]_jointVars
    PROVE  RotationInv' /\ CodeInv'
BY TokenStepOrStores, StoresKeepRotation, RotationStep, CodeStep DEF RotationInv

\* Items, copies in requests and copies in refresh tokens: all are in S.
OnlyItems(S) ==
    /\ \A c \in AllCodes : authCodeCache[c] \in S
    /\ \A r \in Reqs : req[r].item \in S /\ refreshTokenCache[r].item \in S

\* A handler only copies items, and deletes them.
LEMMA HandlersCopyItems ==
    ASSUME TypeOK, LocalInv, NEW r \in Reqs, Begin(r) \/ Step(r),
           NEW S, ZeroItem \in S, OnlyItems(S)
    PROVE  OnlyItems(S)'
<1>1. \A c \in AllCodes : authCodeCache'[c] \in S
    BY RequestsOnlyDelete DEF OnlyItems
<1>2. \A q \in Reqs \ {r} : req'[q].item \in S
    BY OthersUntouched DEF OnlyItems
<1>3. CASE Begin(r)
    BY <1>1, <1>2, <1>3, ArriveFresh DEF OnlyItems
<1>4. CASE IssueRefreshToken(r)
    BY <1>1, <1>2, <1>4 DEF IssueRefreshToken, StoreToken, Answer, OnlyItems, TypeOK, Request
<1>5. CASE Rotate(r)
    BY <1>1, <1>2, <1>5 DEF Rotate, StoreToken, Answer, OnlyItems, TypeOK, Request
<1>6. CASE Redeem(r)
    <2>1. pc[r] = "redeem"
        BY <1>6 DEF Redeem, Answer
    <2>2. refreshTokenCache[req[r].token].item \in S
        BY <2>1, Presented DEF OnlyItems
    <2>3. NoToken.item \in S
        BY DEF NoToken
    <2>4. req'[r].item \in S
        BY <1>6, <2>2 DEF Redeem, Inherit, Answer, OnlyItems, TypeOK, Request
    <2>5. \A q \in Reqs : refreshTokenCache'[q].item \in S
        BY <1>6, <2>3 DEF Redeem, Answer, OnlyItems, TypeOK
    <2>6. QED
        BY <1>1, <1>2, <2>4, <2>5 DEF OnlyItems
<1>7. CASE GetItem(r) \/ GetPreAuthItem(r)
    <2>1. req[r].code \in AllCodes
        BY <1>7 DEF GetItem, GetPreAuthItem, Answer, LocalInv, RequestInv, AuthorizationSteps,
                    PreAuthSteps
    <2>2. req'[r].item \in S /\ refreshTokenCache' = refreshTokenCache
        BY <1>7, <2>1 DEF GetItem, GetPreAuthItem, Answer, OnlyItems, TypeOK, Request
    <2>3. QED
        BY <1>1, <1>2, <2>2 DEF OnlyItems
<1>8. CASE \/ CreateSession(r) \/ DeleteSession(r) \/ DeleteItem(r) \/ CreateRefresh(r)
           \/ ValidateTXCode(r) \/ DeleteTXCode(r) \/ CreatePreAuth(r) \/ DeletePreAuth(r)
    <2>1. req' = req /\ refreshTokenCache' = refreshTokenCache
        BY <1>8 DEF CreateSession, DeleteSession, DeleteItem, CreateRefresh, ValidateTXCode,
              DeleteTXCode, CreatePreAuth, DeletePreAuth, Answer
    <2>2. QED
        BY <1>1, <2>1 DEF OnlyItems
<1>9. QED
    BY <1>3, <1>4, <1>5, <1>6, <1>7, <1>8 DEF Step

\* An item with a login's code is for the client of that login.
OwnItem(item) ==
    item.code \in Logins =>
       login[item.code].stage # "none" /\ login[item.code].client = item.clientID

OwnItems ==
    /\ \A c \in AllCodes : OwnItem(authCodeCache[c])
    /\ \A r \in Reqs : OwnItem(req[r].item) /\ OwnItem(refreshTokenCache[r].item)

\* The zero item and an offer's are nobody's login.
LEMMA NoLoginsItem ==
    /\ ZeroItem.code \notin Logins
    /\ NoToken.item = ZeroItem
    /\ \A c \in PreCodes : c \notin Logins
BY DistinctAssumption, CodesAreLogins DEF ZeroItem, NoToken, AllCodes

LEMMA OwnItemsInit == JointInit => OwnItems
BY NoLoginsItem DEF JointInit, Init, OwnItems, OwnItem, NoRequest

\* A login that was opened keeps its client.
LEMMA OwnItemStays ==
    ASSUME LoginTypeOK, [LoginNext]_loginVars, NEW item, OwnItem(item)
    PROVE  OwnItem(item)'
<1>1. CASE item.code \in Logins
    BY <1>1, LoginStays DEF OwnItem
<1>2. CASE item.code \notin Logins
    BY <1>2 DEF OwnItem
<1>3. QED
    BY <1>1, <1>2

LEMMA OwnItemsStep ==
    ASSUME LoginInv, GlueInv, RotationInv, OwnItems, [JointNext]_jointVars
    PROVE  OwnItems'
<1> USE DEF RotationInv
<1> PICK S : S = {item \in AuthCodeItem : OwnItem(item)'}
    OBVIOUS
<1>1. [LoginNext]_loginVars
    BY StepsOfLoginFlow
<1>2. OnlyItems(S)
    BY <1>1, OwnItemStays DEF LoginInv, TypeOK, OwnItems, OnlyItems, Request, RefreshTokenItem
<1>3. ZeroItem \in S /\ NoToken.item \in S
    BY NoLoginsItem, ValueTypes DEF OwnItem
<1>4. OnlyItems(S)' => OwnItems'
    BY DEF OnlyItems, OwnItems
<1>5. ASSUME NEW r \in Reqs, Begin(r) \/ Step(r) PROVE OnlyItems(S)'
    BY <1>2, <1>3, <1>5, HandlersCopyItems
<1>6. ASSUME NEW c \in PreCodes, PreauthGenerate(c) PROVE OnlyItems(S)'
    <2>1. \A noTX \in BOOLEAN :
             [code |-> c, clientID |-> IssuerBackend, noTXCode |-> noTX] \in S
        BY NoLoginsItem DEF OwnItem, AuthCodeItem, AllCodes
    <2>2. QED
        BY <1>2, <1>6, <2>1 DEF PreauthGenerate, OnlyItems, TypeOK
<1>7. ASSUME Expire PROVE OnlyItems(S)'
    BY <1>2, <1>3, <1>7 DEF Expire, ExpireCode, ExpireTXCode, ExpireRefreshToken, OnlyItems, TypeOK
<1>8. ASSUME NEW k \in Calls, Stores(k) PROVE OnlyItems(S)'
    <2> DEFINE l == call[k].login
               item == [code |-> l, clientID |-> login[l].client, noTXCode |-> FALSE]
    <2>1. item \in S
        BY <1>8, StoresItem, CodesAreLogins DEF OwnItem, AuthCodeItem, AllCodes
    <2>2. QED
        BY <1>2, <1>8, <2>1, StoresItem DEF OnlyItems, TypeOK
<1>9. ASSUME \/ LoginStep \/ ProcessCrash \/ UNCHANGED jointVars
             \/ \E k \in Calls : StoreSession(k) \/ (StoreItem(k) /\ ~ Stores(k))
      PROVE  OnlyItems(S)'
    BY <1>2, <1>9
    DEF LoginStep, ProcessCrash, Crash, StoreSession, StoreItem, Stores, vars, jointVars, OnlyItems
<1>10. QED
    BY <1>4, <1>5, <1>6, <1>7, <1>8, <1>9 DEF JointNext, TokenStep

JointInv == LoginInv /\ GlueInv /\ RotationInv /\ CodeInv /\ OwnItems

LEMMA JointInvariant == JointSpec => []JointInv
<1>1. JointSpec => []LoginInv
    BY ImplementsLoginFlow, LoginInvInductive, PTL
<1>2. JointInit => GlueInv /\ RotationInv /\ CodeInv /\ OwnItems
    BY GlueInit, TypeInit, LocalInit, CodeInit, FamilyInit, OwnItemsInit
    DEF JointInit, RotationInv
<1>3. /\ LoginInv /\ GlueInv /\ RotationInv /\ CodeInv /\ OwnItems
      /\ [JointNext]_jointVars
      => (GlueInv /\ RotationInv /\ CodeInv /\ OwnItems)'
    BY GlueStep, RotationKept, OwnItemsStep
<1>4. QED
    BY <1>1, <1>2, <1>3, PTL DEF JointSpec, JointInv

(***************************************************************************)
(* Theorems about the two together.                                        *)
(***************************************************************************)

\* The user of a session is a login that a callback minted a code for.
LEMMA SessionWasMinted ==
    ASSUME JointInv, NEW r \in Reqs, sessions[r].live,
           req[r].grant \in {"authorization_code", "refresh_token"},
           sessions[r].subject \in Logins
    PROVE  \E k \in Calls : call[k].minted /\ call[k].login = sessions[r].subject
<1> DEFINE l == sessions[r].subject
<1>1. /\ Origin(r) \in Reqs /\ req[Origin(r)].grant = "authorization_code"
      /\ l = req[Origin(r)].item.code
    BY OriginOf DEF JointInv
<1>2. l \in issued
    BY <1>1, NoLoginsItem DEF JointInv, CodeInv, CopyInv
<1>3. QED
    BY <1>2 DEF JointInv, GlueInv, IssuedInv

\* A session's user is its redemption's code, an attested redemption compared the
\* client of the item with its own, and an open login has pushed its request itself.
LEMMA SessionsOfOwnClients == JointInv => AttestedSessionOfOwnClient
<1> SUFFICES ASSUME JointInv, NEW r \in Reqs, sessions[r].live,
                    req[r].grant \in {"authorization_code", "refresh_token"},
                    req[Origin(r)].attested, sessions[r].subject \in Logins
             PROVE  LET l == sessions[r].subject IN
                    /\ login[l].client = req[Origin(r)].clientID
                    /\ login[l].push # NoPush =>
                          pusher[login[l].push] = req[Origin(r)].clientID
    BY DEF AttestedSessionOfOwnClient
<1> DEFINE o == Origin(r)
           l == sessions[r].subject
<1>1. /\ o \in Reqs /\ req[o].grant = "authorization_code" /\ sessions[o].live
      /\ sessions[r].subject = req[o].item.code
    BY OriginOf DEF JointInv
<1>2. req[o].item.clientID = req[o].clientID
    BY <1>1 DEF JointInv, RotationInv, LocalInv, AuthorizationInv
<1>3. login[l].client = req[o].clientID
    BY <1>1, <1>2 DEF JointInv, OwnItems, OwnItem
<1>4. login[l].stage = "open"
    <2>1. PICK k \in Calls : call[k].minted /\ call[k].login = l
        BY SessionWasMinted
    <2>2. CallInv(k)
        BY DEF JointInv, LoginInv
    <2>3. QED
        BY <2>1, <2>2 DEF CallInv, NoCall
<1>5. login[l].push # NoPush => pusher[login[l].push] = login[l].client
    BY <1>4 DEF JointInv, LoginInv, PushInv
<1>6. QED
    BY <1>3, <1>5

\* For any number of logins, callbacks, requests and rotations, whoever repeats a
\* callback and whichever logins share a state: the session of an attested wallet is
\* for the user of a login that was opened for that wallet, with its own pushed
\* request if there was one (authorization.go:131, token.go:189, 346).
THEOREM AttestedSessionsKeepClient == JointSpec => []AttestedSessionOfOwnClient
BY JointInvariant, SessionsOfOwnClients, PTL

\* A session's code was minted, and with distinct states only for a login that
\* asked for one.
LEMMA SessionsFromOwnLogins ==
    JointInv /\ CodeOfItsLogin => AttestedSessionFromOwnLogin
<1> SUFFICES ASSUME JointInv, CodeOfItsLogin, NEW r \in Reqs, sessions[r].live,
                    req[r].grant \in {"authorization_code", "refresh_token"},
                    req[Origin(r)].attested, sessions[r].subject \in Logins
             PROVE  login[sessions[r].subject].asks = "code"
    BY SessionsOfOwnClients DEF AttestedSessionFromOwnLogin, AttestedSessionOfOwnClient
<1>1. PICK k \in Calls : call[k].minted /\ call[k].login = sessions[r].subject
    BY SessionWasMinted
<1>2. QED
    BY <1>1 DEF CodeOfItsLogin

\* When states are distinct, that login also asked for a code (validation.go:62).
THEOREM AttestedSessionsFromOwnLogins ==
    ASSUME \A l, m \in Logins : StateOf[l] = StateOf[m] => l = m
    PROVE  JointSpec => []AttestedSessionFromOwnLogin
<1>1. JointSpec => []CodeOfItsLogin
    BY ImplementsLoginFlow, CodesOfTheirLogins, PTL
<1>2. QED
    BY <1>1, JointInvariant, SessionsFromOwnLogins, PTL

\* Whichever logins share a state, and even if a code is stored again after it was
\* redeemed: families do not fork and keep key, client and user, and sessions of
\* attested wallets are bound to their keys.
THEOREM FamiliesSurviveSharedStates ==
    JointSpec => [](RefreshFamilyLinear /\ SenderConstrained /\ AttestedSessionBound)
<1>1. JointInv => RefreshFamilyLinear /\ SenderConstrained /\ AttestedSessionBound
    BY RootConstrains, OriginBinds DEF JointInv, RotationInv
<1>2. QED
    BY <1>1, JointInvariant, PTL

\* Nor does the pre-authorized grant then redeem a login's code, when Get reports a
\* miss: only an offer has a tx_code entry or needs none (token.go:471).
THEOREM OffersSurviveSharedStates ==
    ASSUME ~ MissReturnsZero
    PROVE  JointSpec => []PreAuthGrantRedeemsOffers
BY JointInvariant, OffersOnly, PTL DEF JointInv

\* So the refresh tokens of the two together are batons.
THEOREM JointTokensAreBatons == JointSpec => ImplementsRotation
<1>1. ASSUME JointInv, JointInv', [JointNext]_jointVars
      PROVE  [Rotation!Next]_Rotation!vars
    <2>1. CASE [Next]_vars
        BY <1>1, <2>1, NextMaps DEF JointInv
    <2>2. ASSUME NEW k \in Calls, Stores(k) PROVE UNCHANGED Rotation!vars
        <3>1. req' = req /\ pc' = pc /\ refreshTokenCache' = refreshTokenCache
            BY <1>1, <2>2, StoresItem DEF JointInv
        <3>2. \A f, x \in Reqs : /\ Stored(x, f)' <=> Stored(x, f)
                                 /\ Holds(x, f)' <=> Holds(x, f)
            BY <3>1 DEF Stored, Holds
        <3>3. \A f \in Reqs : TokenOf(f)' = TokenOf(f) /\ HolderOf(f)' = HolderOf(f)
            BY <1>1, <3>2, CarriedAsBefore DEF JointInv
        <3>4. Current' = Current /\ Holder' = Holder /\ Given' = Given
            BY <3>1, <3>3 DEF Current, Holder, Given
        <3>5. QED
            BY <3>4 DEF Rotation!vars
    <2>3. QED
        BY <1>1, <2>1, <2>2, TokenStepOrStores DEF JointInv
<1>2. JointInit => Rotation!Init
    BY InitMaps DEF JointInit
<1>3. QED
    BY <1>1, <1>2, JointInvariant, PTL DEF JointSpec, ImplementsRotation, Rotation!Spec
=============================================================================

-------------------------- MODULE LoginFlowProofs --------------------------
(* Proofs about LoginFlow, for any number of logins, calls and pushes. *)
EXTENDS LoginFlowInv, TLAPS

\* What a step that is no login's arrival or Authorize and no call's does: it takes
\* things out of caches, pushes a request, or crashes.
Environment ==
    \/ \E p \in Pushes, c \in Clients : Push(p, c)
    \/ LoginExpire
    \/ LoginCrash

\* The ways a login reaches /authorize.
Arrival(l) ==
    \/ \E p \in Pushes, c \in Clients : FromPAR(l, p, c)
    \/ \E c \in Clients : FromQuery(l, c) \/ Direct(l, c)

\* Every step of the specification, in the order the proofs treat them.
LEMMA StepCases ==
    ASSUME [LoginNext]_loginVars
    PROVE  \/ \E l \in Logins : Arrival(l) \/ Authorize(l)
           \/ \E k \in Calls, l \in Logins : BeginCallback(k, l) \/ BeginReturn(k, l)
           \/ \E k \in Calls : CallStep(k)
           \/ Environment
           \/ UNCHANGED loginVars
BY DEF LoginNext, Enter, Arrival, Environment

\* A login arrives once, and nothing else that calls look at changes.
LEMMA ArrivalEffect ==
    ASSUME LoginTypeOK, NEW l \in Logins, Arrival(l)
    PROVE  /\ login[l].stage = "none"
           /\ \E request \in Login :
                 /\ request.stage \in {"redirected", "refused"}
                 /\ login' = [login EXCEPT ![l] = request]
           /\ UNCHANGED <<pusher, stateCache, correlations, walletTx, call, dropped>>
           /\ parCache' \subseteq parCache
<1>1. ASSUME NEW p \in Pushes, NEW c \in Clients, p \in parCache, parCache' = parCache \ {p},
             Opens(l, [stage |-> IF pusher[p] = c THEN "redirected" ELSE "refused",
                       client |-> c, asks |-> "code", push |-> p])
      PROVE  /\ login[l].stage = "none"
             /\ \E request \in Login :
                   /\ request.stage \in {"redirected", "refused"}
                   /\ login' = [login EXCEPT ![l] = request]
             /\ UNCHANGED <<pusher, stateCache, correlations, walletTx, call, dropped>>
             /\ parCache' \subseteq parCache
    <2>1. [stage |-> IF pusher[p] = c THEN "redirected" ELSE "refused",
           client |-> c, asks |-> "code", push |-> p] \in Login
        BY DEF Login, Asks
    <2>2. QED
        BY <1>1, <2>1 DEF Opens
<1>2. ASSUME NEW request \in Login, request.stage \in {"redirected", "refused"},
             Opens(l, request), parCache' = parCache
      PROVE  /\ login[l].stage = "none"
             /\ login' = [login EXCEPT ![l] = request]
             /\ UNCHANGED <<pusher, stateCache, correlations, walletTx, call, dropped>>
             /\ parCache' \subseteq parCache
    BY <1>2 DEF Opens
<1>3. [Unopened EXCEPT !.stage = "refused"] \in Login
    BY DEF Unopened, Login, Asks
<1>4. [Unopened EXCEPT !.stage = "refused"].stage = "refused"
    BY DEF Unopened
<1>5. \A c \in Clients, asks \in Asks :
          [stage |-> "redirected", client |-> c, asks |-> asks, push |-> NoPush] \in Login
    BY DEF Login
<1>6. "code" \in Asks
    BY DEF Asks
<1>7. ASSUME NEW p \in Pushes, NEW c \in Clients, FromPAR(l, p, c)
      PROVE  /\ login[l].stage = "none"
             /\ \E request \in Login :
                   /\ request.stage \in {"redirected", "refused"}
                   /\ login' = [login EXCEPT ![l] = request]
             /\ UNCHANGED <<pusher, stateCache, correlations, walletTx, call, dropped>>
             /\ parCache' \subseteq parCache
    BY <1>1, <1>2, <1>3, <1>4, <1>7 DEF FromPAR
<1>8. ASSUME NEW c \in Clients, FromQuery(l, c) \/ Direct(l, c)
      PROVE  \E request \in Login :
                 /\ request.stage \in {"redirected", "refused"}
                 /\ Opens(l, request)
                 /\ parCache' = parCache
    BY <1>5, <1>6, <1>8 DEF FromQuery, Direct
<1>9. QED
    BY <1>2, <1>7, <1>8 DEF Arrival

\* Every step keeps the types, given that a call past its start has its login.
LEMMA LoginTypeStep ==
    ASSUME LoginTypeOK, \A k \in Calls : CallInv(k), [LoginNext]_loginVars
    PROVE  LoginTypeOK'
<1>1. ASSUME NEW l \in Logins, Arrival(l) PROVE LoginTypeOK'
    BY <1>1, ArrivalEffect DEF LoginTypeOK
<1>2. ASSUME NEW l \in Logins, Authorize(l) PROVE LoginTypeOK'
    <2>1. \A stage \in {"open", "refused"} : [login[l] EXCEPT !.stage = stage] \in Login
        BY DEF LoginTypeOK, Login
    <2>2. login' \in [Logins -> Login]
        BY <1>2, <2>1 DEF Authorize, LoginTypeOK
    <2>3. Saved(l) \in [States -> Logins \cup {NoLogin}] /\ Unspent(StateOf[l]) \subseteq Logins
        BY LoginsAssumption DEF Saved, Unspent, LoginTypeOK
    <2>4. stateCache' \in [States -> Logins \cup {NoLogin}] /\ dropped' \subseteq Logins
        BY <1>2, <2>3 DEF Authorize, SavesState, LoginTypeOK
    <2>5. QED
        BY <1>2, <2>2, <2>4 DEF Authorize, LoginTypeOK
<1>3. ASSUME NEW k \in Calls, NEW from, NEW next \in Call, Does(k, from, next) PROVE LoginTypeOK'
    BY <1>3 DEF Does, LoginTypeOK
<1>4. ASSUME NEW k \in Calls, NEW l \in Logins, BeginCallback(k, l) PROVE LoginTypeOK'
    <2>1. [call[k] EXCEPT !.login = l,
              !.stage = IF l \in correlations THEN "verify" ELSE "error"] \in Call
        BY DEF LoginTypeOK, Call, InCallback, Outcomes
    <2>2. QED
        BY <1>3, <1>4, <2>1 DEF BeginCallback
<1>5. ASSUME NEW k \in Calls, NEW l \in Logins, BeginReturn(k, l) PROVE LoginTypeOK'
    BY <1>5 DEF BeginReturn, LoginTypeOK, Call, InCallback, Outcomes
<1>6. \A k \in Calls, to \in {"pop", "create", "fail", "finish", "code", "error"} :
          [call[k] EXCEPT !.stage = to] \in Call
    BY DEF LoginTypeOK, Call, InCallback, Outcomes
<1>7. ASSUME NEW k \in Calls, Verify(k) \/ Redirect(k) PROVE LoginTypeOK'
    BY <1>3, <1>6, <1>7 DEF Verify, Redirect, Moves
<1>8. ASSUME NEW k \in Calls, PopState(k) PROVE LoginTypeOK'
    <2>1. call[k].stage = "pop" /\ call[k].login \in Logins
        BY <1>8 DEF PopState, CallInv
    <2>2. StateOf[call[k].login] \in States
        BY <2>1, LoginsAssumption
    <2>3. Unspent(StateOf[call[k].login]) \subseteq Logins
        BY <2>2 DEF Unspent, LoginTypeOK
    <2>4. \A t \in States : [stateCache EXCEPT ![t] = NoLogin] \in [States -> Logins \cup {NoLogin}]
        BY DEF LoginTypeOK
    <2>5. stateCache' \in [States -> Logins \cup {NoLogin}] /\ dropped' \subseteq Logins
        BY <1>8, <2>2, <2>3, <2>4 DEF PopState, LoginTypeOK
    <2>6. call' \in [Calls -> Call]
        BY <1>8, <2>2 DEF PopState, LoginTypeOK, Call, InCallback
    <2>7. QED
        BY <1>8, <2>5, <2>6 DEF PopState, LoginTypeOK
<1>9. ASSUME NEW k \in Calls, SetItem(k) PROVE LoginTypeOK'
    <2>1. \A b \in BOOLEAN, to \in {"finish", "fail"} :
              [call[k] EXCEPT !.minted = b, !.stage = to] \in Call
        BY DEF LoginTypeOK, Call, InCallback
    <2>2. QED
        BY <1>3, <1>9, <2>1 DEF SetItem
<1>10. ASSUME NEW k \in Calls, CreateLoginSession(k) PROVE LoginTypeOK'
    <2>1. \A b \in BOOLEAN, to \in {"audit", "fail"} :
              [call[k] EXCEPT !.created = b, !.stage = to] \in Call
        BY DEF LoginTypeOK, Call, InCallback
    <2>2. QED
        BY <1>3, <1>10, <2>1 DEF CreateLoginSession
<1>11. ASSUME NEW k \in Calls, Audit(k) PROVE LoginTypeOK'
    <2>1. [call[k] EXCEPT !.audited = TRUE, !.stage = "finish"] \in Call
        BY DEF LoginTypeOK, Call, InCallback
    <2>2. QED
        BY <1>3, <1>6, <1>11, <2>1 DEF Audit, Moves
<1>12. ASSUME Environment PROVE LoginTypeOK'
    <2>1. ASSUME NEW p \in Pushes, NEW c \in Clients, Push(p, c) PROVE LoginTypeOK'
        BY <2>1 DEF Push, LoginTypeOK
    <2>2. ASSUME LoginExpire PROVE LoginTypeOK'
        BY <2>2 DEF LoginExpire, ExpirePush, ExpireState, ExpireCorrelation, ExpireTx, LoginTypeOK,
                    Unspent
    <2>3. ASSUME LoginCrash PROVE LoginTypeOK'
        BY <2>3 DEF LoginCrash, LoginTypeOK, Call, Outcomes
    <2>4. QED
        BY <1>12, <2>1, <2>2, <2>3 DEF Environment
<1>13. ASSUME UNCHANGED loginVars PROVE LoginTypeOK'
    BY <1>13 DEF loginVars, LoginTypeOK
<1>14. QED
    BY StepCases, <1>1, <1>2, <1>4, <1>5, <1>7, <1>8, <1>9, <1>10, <1>11, <1>12, <1>13
       DEF CallStep

\* An open or refused login keeps what it asked for, its push and its client.
LEMMA LoginStays ==
    ASSUME LoginTypeOK, NEW l \in Logins, [LoginNext]_loginVars, login[l].stage # "none"
    PROVE  /\ login'[l].asks = login[l].asks
           /\ login'[l].push = login[l].push
           /\ login'[l].client = login[l].client
           /\ login[l].stage \in {"open", "refused"} => login'[l].stage = login[l].stage
           /\ login'[l].stage # "none"
<1> DEFINE Stays == /\ login'[l].asks = login[l].asks
                    /\ login'[l].push = login[l].push
                    /\ login'[l].client = login[l].client
                    /\ login[l].stage \in {"open", "refused"} => login'[l].stage = login[l].stage
                    /\ login'[l].stage # "none"
<1>1. ASSUME NEW m \in Logins, Arrival(m) PROVE Stays
    <2>1. m # l
        BY <1>1, ArrivalEffect
    <2>2. login'[l] = login[l]
        BY <1>1, <2>1, ArrivalEffect DEF LoginTypeOK
    <2>3. QED
        BY <2>2
<1>2. ASSUME NEW m \in Logins, Authorize(m) PROVE Stays
    BY <1>2 DEF Authorize, LoginTypeOK, Login
<1>3. ASSUME UNCHANGED login PROVE Stays
    BY <1>3
<1>4. ASSUME NEW k \in Calls, CallStep(k) PROVE UNCHANGED login
    BY <1>4 DEF CallStep, Verify, PopState, SetItem, CreateLoginSession, Audit, Redirect, Moves, Does
<1>5. ASSUME NEW k \in Calls, NEW m \in Logins, BeginCallback(k, m) \/ BeginReturn(k, m)
      PROVE  UNCHANGED login
    BY <1>5 DEF BeginCallback, BeginReturn, Does
<1>6. ASSUME Environment PROVE UNCHANGED login
    BY <1>6 DEF Environment, Push, LoginExpire, ExpirePush, ExpireState, ExpireCorrelation,
                ExpireTx, LoginCrash
<1>7. QED
    BY StepCases, <1>1, <1>2, <1>3, <1>4, <1>5, <1>6 DEF loginVars

(***************************************************************************)
(* SavedInv, OpenInv, CallInv and SavedRequestSpentOnce: the state cache.  *)
(***************************************************************************)

\* What the proofs below assume of a state, and show of the next one.
Known ==
    /\ LoginTypeOK
    /\ SavedInv
    /\ OpenInv
    /\ \A k \in Calls : CallInv(k)
    /\ SavedRequestSpentOnce

Kept == SavedInv' /\ OpenInv' /\ (\A k \in Calls : CallInv(k)') /\ SavedRequestSpentOnce'

\* That a login goes unserved is for good.
LEMMA UnservedStays ==
    ASSUME dropped \subseteq dropped', NEW l \in Logins, Unserved(l),
           \A k \in Calls : call[k].popped # NoLogin => call'[k].popped = call[k].popped
    PROVE  Unserved(l)'
BY NamesAssumption DEF Unserved

\* A call that stands still keeps its invariant while logins go on.
LEMMA CallStays ==
    ASSUME Known, NEW k \in Calls, call'[k] = call[k], dropped \subseteq dropped',
           \A j \in Calls : call[j].popped # NoLogin => call'[j].popped = call[j].popped,
           \A l \in Logins : login[l].stage \in {"open", "refused"} =>
               login'[l].asks = login[l].asks /\ login'[l].stage = login[l].stage
    PROVE  CallInv(k)'
<1>1. CallInv(k)
    BY DEF Known
<1>2. call[k].popped # NoLogin => call[k].popped \in Logins
    BY DEF Known, LoginTypeOK, Call
<1>3. call[k].stage # "idle" => call[k].login \in Logins
    BY <1>1 DEF CallInv
<1>4. call[k].stage # "idle" /\ Unserved(call[k].login) => Unserved(call[k].login)'
    <2>1. ASSUME call[k].stage # "idle", Unserved(call[k].login) PROVE Unserved(call[k].login)'
        <3>1. \A l \in Logins : Unserved(l) => Unserved(l)'
            BY UnservedStays
        <3>2. Unserved(call[k].login) => (\E l \in Logins : l = call[k].login /\ Unserved(l)')
            BY <1>3, <2>1, <3>1
        <3>3. QED
            BY <2>1, <3>2
    <2>2. QED
        BY <2>1
<1>5. call[k].stage = "idle" => ~ call[k].created
    BY <1>1 DEF CallInv, NoCall
<1>6. QED
    BY <1>1, <1>2, <1>3, <1>4, <1>5 DEF CallInv

\* A step that changes logins only keeps what is known of calls and saved requests.
LEMMA LoginStepKeeps ==
    ASSUME Known, [LoginNext]_loginVars, UNCHANGED <<stateCache, call, dropped>>,
           \A l \in Logins : login'[l].stage = "open" => login[l].stage = "open"
    PROVE  Kept
<1>1. \A l \in Logins : login[l].stage \in {"open", "refused"} =>
          login'[l].asks = login[l].asks /\ login'[l].stage = login[l].stage
    BY LoginStays DEF Known
<1>2. SavedInv'
    <2>1. \A s \in States : stateCache[s] # NoLogin => stateCache[s] \in Logins
        BY DEF Known, LoginTypeOK
    <2>2. QED
        BY <1>1, <2>1 DEF Known, SavedInv
<1>3. OpenInv'
    BY <1>1 DEF Known, OpenInv, Unserved
<1>4. \A k \in Calls : CallInv(k)'
    BY <1>1, CallStays
<1>5. SavedRequestSpentOnce'
    BY DEF Known, SavedRequestSpentOnce
<1>6. QED
    BY <1>2, <1>3, <1>4, <1>5 DEF Kept

\* Authorize saves the request of a login no call has popped: it was not open yet.
\* What it overwrites is dropped.
LEMMA AuthorizeKeeps ==
    ASSUME Known, NEW l \in Logins, Authorize(l), [LoginNext]_loginVars
    PROVE  Kept
<1>1. login[l].stage = "redirected" /\ UNCHANGED call /\ dropped \subseteq dropped'
    BY DEF Authorize, SavesState
<1>2. \A m \in Logins : login[m].stage \in {"open", "refused"} =>
          login'[m].asks = login[m].asks /\ login'[m].stage = login[m].stage
    BY LoginStays DEF Known
<1>3. /\ \A m \in Logins \ {l} : login'[m] = login[m]
      /\ login'[l].asks = login[l].asks
      /\ login'[l].stage \in {"open", "refused"}
    BY DEF Authorize, Known, LoginTypeOK, Login
<1>4. StateOf[l] \in States
    BY LoginsAssumption
<1>5. \/ UNCHANGED <<stateCache, dropped>>
      \/ /\ login[l].asks = "code"
         /\ \A s \in States : stateCache'[s] = IF s = StateOf[l] THEN l ELSE stateCache[s]
         /\ stateCache[StateOf[l]] # NoLogin => stateCache[StateOf[l]] \in dropped'
    BY <1>4 DEF Authorize, SavesState, Saved, Unspent, Known, LoginTypeOK
<1>6. ASSUME NEW s \in States, stateCache'[s] # NoLogin
      PROVE  /\ StateOf[stateCache'[s]] = s
             /\ login'[stateCache'[s]].asks = "code"
             /\ login'[stateCache'[s]].stage \in {"open", "refused"}
             /\ \A k \in Calls : call'[k].popped # stateCache'[s]
    <2>1. CASE stateCache'[s] = stateCache[s]
        <3>1. stateCache[s] \in Logins
            BY <1>6, <2>1 DEF Known, LoginTypeOK
        <3>2. QED
            BY <1>1, <1>2, <1>6, <2>1, <3>1 DEF Known, SavedInv
    <2>2. CASE stateCache'[s] # stateCache[s]
        <3>1. login[l].asks = "code" /\ s = StateOf[l] /\ stateCache'[s] = l
            BY <1>5, <2>2
        <3>2. \A k \in Calls : call[k].popped # l
            BY <1>1, NamesAssumption DEF Known, CallInv
        <3>3. QED
            BY <1>1, <1>3, <3>1, <3>2
    <2>3. QED
        BY <2>1, <2>2
<1>7. ASSUME NEW m \in Logins, login'[m].stage = "open", login'[m].asks = "code"
      PROVE  stateCache'[StateOf[m]] = m \/ Unserved(m)'
    <2>1. CASE m = l
        <3>1. login'[l].stage = "open" /\ login[l].asks = "code"
            BY <1>3, <1>7, <2>1
        <3>2. stateCache' = Saved(l)
            BY <3>1 DEF Authorize, SavesState, Known, LoginTypeOK, Login
        <3>3. QED
            BY <1>4, <2>1, <3>2 DEF Saved, Known, LoginTypeOK
    <2>2. CASE m # l
        <3>1. stateCache[StateOf[m]] = m \/ Unserved(m)
            BY <1>3, <1>7, <2>2 DEF Known, OpenInv
        <3>2. Unserved(m) => Unserved(m)'
            BY <1>1, UnservedStays
        <3>3. StateOf[m] \in States /\ m # NoLogin
            BY LoginsAssumption, NamesAssumption
        <3>4. stateCache[StateOf[m]] = m => stateCache'[StateOf[m]] = m \/ m \in dropped'
            BY <1>5, <3>3
        <3>5. QED
            BY <3>1, <3>2, <3>4 DEF Unserved
    <2>3. QED
        BY <2>1, <2>2
<1>8. \A k \in Calls : CallInv(k)'
    BY <1>1, <1>2, CallStays
<1>9. QED
    BY <1>1, <1>6, <1>7, <1>8 DEF Kept, Known, SavedInv, OpenInv, SavedRequestSpentOnce

\* A call that pops nothing keeps every saved request and every other call.
LEMMA CallKeeps ==
    ASSUME Known, NEW k \in Calls, NEW next \in Call, call' = [call EXCEPT ![k] = next],
           UNCHANGED <<stateCache, login, dropped>>, next.popped = call[k].popped, CallInv(k)'
    PROVE  Kept
<1>1. \A j \in Calls : call'[j] = IF j = k THEN next ELSE call[j]
    BY DEF Known, LoginTypeOK
<1>2. \A j \in Calls : call'[j].popped = call[j].popped
    BY <1>1
<1>3. ASSUME NEW j \in Calls, j # k PROVE CallInv(j)'
    BY <1>1, <1>2, <1>3, CallStays
<1>4. QED
    BY <1>2, <1>3 DEF Kept, Known, SavedInv, OpenInv, Unserved, SavedRequestSpentOnce

\* The same of a step that Does describes, when the record it writes fits.
LEMMA DoesKeeps ==
    ASSUME Known, NEW k \in Calls, NEW from, NEW next \in Call, Does(k, from, next),
           from # "idle",
           next.login = call[k].login, next.popped = call[k].popped,
           next.stage \in {"pop", "finish", "fail", "audit", "code", "error"},
           next.stage = "pop" => from = "verify",
           next.stage = "audit" => next.created /\ ~ next.minted,
           next.stage \in {"finish", "code"} => next.minted \/ (next.created /\ next.audited),
           next.minted # call[k].minted => from = "store" /\ ~ next.created,
           next.created # call[k].created => from = "create"
    PROVE  Kept
<1>1. call[k].stage = from /\ call' = [call EXCEPT ![k] = next]
      /\ UNCHANGED <<stateCache, login, dropped>>
    BY DEF Does
<1>2. call'[k] = next /\ \A j \in Calls : call'[j].popped = call[j].popped
    BY <1>1 DEF Known, LoginTypeOK
<1>3. CallInv(k)
    BY DEF Known
<1>4. next.minted \in BOOLEAN /\ next.created \in BOOLEAN /\ next.audited \in BOOLEAN
      /\ call[k].minted \in BOOLEAN /\ call[k].created \in BOOLEAN
    BY DEF Known, LoginTypeOK, Call
<1>5. Unserved(call[k].login) <=> Unserved(call[k].login)'
    BY <1>1, <1>2 DEF Unserved
<1>6. CallInv(k)'
    BY <1>1, <1>2, <1>3, <1>4, <1>5 DEF CallInv
<1>7. QED
    BY <1>1, <1>6, CallKeeps

\* Popping takes the saved request out, so no call can have it again; a Pop that
\* fails drops it.
LEMMA PopStateKeeps ==
    ASSUME Known, NEW k \in Calls, PopState(k)
    PROVE  Kept
<1>1. call[k].stage = "pop" /\ UNCHANGED login
    BY DEF PopState
<1>2. call[k].login \in Logins /\ login[call[k].login].stage = "open" /\ call[k].popped = NoLogin
      /\ ~ call[k].created /\ ~ call[k].minted
    BY <1>1 DEF Known, CallInv
<1> DEFINE s == StateOf[call[k].login]
<1>3. s \in States
    BY <1>2, LoginsAssumption
<1>4. dropped \subseteq dropped'
    BY DEF PopState
<1>5. \A t \in States : stateCache'[t] = stateCache[t] \/ (t = s /\ stateCache'[t] = NoLogin)
    BY <1>3 DEF PopState, Known, LoginTypeOK
<1>6. \A j \in Calls \ {k} : call'[j] = call[j]
    BY DEF PopState, Known, LoginTypeOK
<1>7. /\ call'[k].login = call[k].login
      /\ call'[k].created = call[k].created
      /\ call'[k].minted = call[k].minted
    BY DEF PopState, Known, LoginTypeOK, Call
<1>8. \/ /\ call'[k].popped = stateCache[s]
         /\ call'[k].stage = IF stateCache[s] = NoLogin THEN "create" ELSE "store"
         /\ stateCache'[s] = NoLogin
      \/ /\ call'[k].popped = NoLogin
         /\ call'[k].stage = "create"
         /\ stateCache[s] # NoLogin => stateCache[s] \in dropped'
    BY <1>2, <1>3 DEF PopState, Unspent, Known, LoginTypeOK, Call
<1>9. \A j \in Calls : call[j].popped # NoLogin => call'[j].popped = call[j].popped
    BY <1>2, <1>6
<1>10. \A l \in Logins : Unserved(l) => Unserved(l)'
    BY <1>4, <1>9, UnservedStays
<1>11. \A t \in States : t # s /\ stateCache[t] # NoLogin => stateCache[t] # stateCache[s]
    BY <1>3 DEF Known, SavedInv
<1>12. SavedInv'
    BY <1>1, <1>3, <1>5, <1>6, <1>8, <1>11 DEF Known, SavedInv
<1>13. OpenInv'
    <2> SUFFICES ASSUME NEW l \in Logins, login[l].stage = "open", login[l].asks = "code"
                 PROVE  stateCache'[StateOf[l]] = l \/ Unserved(l)'
        BY <1>1 DEF OpenInv
    <2>1. stateCache[StateOf[l]] = l \/ Unserved(l)
        BY DEF Known, OpenInv
    <2>2. StateOf[l] \in States /\ l # NoLogin
        BY LoginsAssumption, NamesAssumption
    <2>3. CASE stateCache[StateOf[l]] = l /\ stateCache'[StateOf[l]] # l
        <3>1. stateCache[s] = l /\ stateCache'[s] = NoLogin
            BY <1>5, <2>2, <2>3
        <3>2. call'[k].popped = l \/ l \in dropped'
            BY <1>8, <2>2, <3>1
        <3>3. QED
            BY <3>2 DEF Unserved
    <2>4. QED
        BY <1>10, <2>1, <2>3
<1>14. CallInv(k)'
    <2>1. ASSUME call'[k].stage = "create", login[call[k].login].asks = "code"
          PROVE  Unserved(call[k].login)'
        <3>1. stateCache[s] = call[k].login \/ Unserved(call[k].login)
            BY <1>2, <2>1 DEF Known, OpenInv
        <3>2. CASE Unserved(call[k].login)
            BY <1>2, <1>7, <1>10, <3>2 DEF Unserved
        <3>3. CASE stateCache[s] = call[k].login
            <4>1. call[k].login \in dropped'
                BY <1>2, <1>8, <2>1, <3>3, NamesAssumption
            <4>2. QED
                BY <1>7, <4>1 DEF Unserved
        <3>4. QED
            BY <3>1, <3>2, <3>3
    <2>2. stateCache[s] # NoLogin =>
              /\ StateOf[stateCache[s]] = s
              /\ login[stateCache[s]].asks = "code"
              /\ login[stateCache[s]].stage \in {"open", "refused"}
        BY <1>3 DEF Known, SavedInv
    <2>3. call'[k].stage \in {"create", "store"}
        BY <1>8
    <2>4. QED
        BY <1>1, <1>2, <1>7, <1>8, <2>1, <2>2, <2>3 DEF CallInv
<1>15. \A j \in Calls \ {k} : CallInv(j)'
    BY <1>1, <1>4, <1>6, <1>9, CallStays
<1>16. SavedRequestSpentOnce'
    BY <1>3, <1>6, <1>8 DEF Known, SavedRequestSpentOnce, SavedInv
<1>17. QED
    BY <1>12, <1>13, <1>14, <1>15, <1>16 DEF Kept

\* A step of a call keeps what is known of the calls and the saved requests.
LEMMA CallStepKeeps ==
    ASSUME Known, NEW k \in Calls, CallStep(k)
    PROVE  Kept
<1>1. call[k] \in Call /\ CallInv(k)
    BY DEF Known, LoginTypeOK
<1>2. ASSUME NEW from \in {"verify", "create", "audit", "finish", "fail"},
             NEW to \in {"pop", "fail", "code", "error"}, Moves(k, from, to),
             to = "pop" => from = "verify", to = "code" => from = "finish"
      PROVE  Kept
    <2> DEFINE next == [call[k] EXCEPT !.stage = to]
    <2>1. /\ next \in Call
          /\ next.stage = to
          /\ next.login = call[k].login
          /\ next.popped = call[k].popped
          /\ next.minted = call[k].minted
          /\ next.created = call[k].created
          /\ next.audited = call[k].audited
        BY <1>1 DEF Call, InCallback, Outcomes
    <2>2. call[k].stage = from /\ Does(k, from, next)
        BY <1>2 DEF Moves, Does
    <2>3. to = "code" => next.minted \/ (next.created /\ next.audited)
        BY <1>1, <1>2, <2>1, <2>2 DEF CallInv
    <2> HIDE DEF next
    <2>4. QED
        BY <1>2, <2>1, <2>2, <2>3, DoesKeeps
<1>3. CASE Verify(k)
    BY <1>2, <1>3 DEF Verify
<1>4. CASE PopState(k)
    BY <1>4, PopStateKeeps
<1>5. CASE SetItem(k)
    <2>1. PICK b \in BOOLEAN, to \in {"finish", "fail"} :
              /\ Does(k, "store", [call[k] EXCEPT !.minted = b, !.stage = to])
              /\ to = "finish" => b
        BY <1>5 DEF SetItem
    <2> DEFINE next == [call[k] EXCEPT !.minted = b, !.stage = to]
    <2>2. /\ next \in Call
          /\ next.stage = to
          /\ next.login = call[k].login
          /\ next.popped = call[k].popped
          /\ next.minted = b
          /\ next.created = call[k].created
        BY <1>1 DEF Call, InCallback
    <2>3. ~ next.created /\ Does(k, "store", next)
        BY <1>1, <2>1, <2>2 DEF Does, CallInv
    <2> HIDE DEF next
    <2>4. QED
        BY <2>1, <2>2, <2>3, DoesKeeps
<1>6. CASE CreateLoginSession(k)
    <2>1. PICK b \in BOOLEAN, to \in {"audit", "fail"} :
              /\ Does(k, "create", [call[k] EXCEPT !.created = b, !.stage = to])
              /\ to = "audit" => b
        BY <1>6 DEF CreateLoginSession
    <2> DEFINE next == [call[k] EXCEPT !.created = b, !.stage = to]
    <2>2. /\ next \in Call
          /\ next.stage = to
          /\ next.login = call[k].login
          /\ next.popped = call[k].popped
          /\ next.minted = call[k].minted
          /\ next.created = b
        BY <1>1 DEF Call, InCallback
    <2>3. ~ next.minted /\ Does(k, "create", next)
        BY <1>1, <2>1, <2>2 DEF Does, CallInv
    <2> HIDE DEF next
    <2>4. QED
        BY <2>1, <2>2, <2>3, DoesKeeps
<1>7. CASE Audit(k)
    <2>1. CASE Moves(k, "audit", "fail")
        BY <1>2, <2>1
    <2>2. CASE Does(k, "audit", [call[k] EXCEPT !.audited = TRUE, !.stage = "finish"])
        <3> DEFINE next == [call[k] EXCEPT !.audited = TRUE, !.stage = "finish"]
        <3>1. /\ next \in Call
              /\ next.stage = "finish"
              /\ next.login = call[k].login
              /\ next.popped = call[k].popped
              /\ next.minted = call[k].minted
              /\ next.created = call[k].created
              /\ next.audited = TRUE
            BY <1>1 DEF Call, InCallback
        <3>2. next.created /\ Does(k, "audit", next)
            BY <1>1, <2>2, <3>1 DEF Does, CallInv
        <3> HIDE DEF next
        <3>3. QED
            BY <3>1, <3>2, DoesKeeps
    <2>3. QED
        BY <1>7, <2>1, <2>2 DEF Audit
<1>8. CASE Redirect(k)
    BY <1>2, <1>8 DEF Redirect
<1>9. QED
    BY <1>3, <1>4, <1>5, <1>6, <1>7, <1>8 DEF CallStep

\* A call begins for an open login with nothing popped.
LEMMA BeginKeeps ==
    ASSUME Known, NEW k \in Calls, NEW l \in Logins, BeginCallback(k, l) \/ BeginReturn(k, l)
    PROVE  Kept
<1>1. /\ call[k].stage = "idle"
      /\ login[l].stage = "open"
      /\ UNCHANGED <<stateCache, login, dropped>>
      /\ \E to \in {"verify", "pop", "fail", "error"} :
            call' = [call EXCEPT ![k] = [call[k] EXCEPT !.login = l, !.stage = to]]
    BY DEF BeginCallback, BeginReturn, Does
<1>2. call[k] = NoCall
    BY <1>1 DEF Known, CallInv
<1>3. PICK to \in {"verify", "pop", "fail", "error"} :
          call' = [call EXCEPT ![k] = [call[k] EXCEPT !.login = l, !.stage = to]]
    BY <1>1
<1> DEFINE next == [call[k] EXCEPT !.login = l, !.stage = to]
<1>4. next \in Call /\ next.popped = call[k].popped
    BY DEF Known, LoginTypeOK, Call, InCallback, Outcomes
<1>5. CallInv(k)'
    BY <1>1, <1>2, <1>3 DEF CallInv, NoCall, Known, LoginTypeOK, Call
<1>6. QED
    BY <1>1, <1>3, <1>4, <1>5, CallKeeps

\* Expiry and crashes only lose things, and what is lost unspent is dropped.
LEMMA LoginEnvironmentKeeps ==
    ASSUME Known, Environment
    PROVE  Kept
<1>1. UNCHANGED login
    BY DEF Environment, Push, LoginExpire, ExpirePush, ExpireState, ExpireCorrelation, ExpireTx,
           LoginCrash
<1>2. ASSUME UNCHANGED call, dropped \subseteq dropped',
             \A s \in States :
                 \/ stateCache'[s] = stateCache[s]
                 \/ /\ stateCache'[s] = NoLogin
                    /\ stateCache[s] # NoLogin => stateCache[s] \in dropped'
      PROVE  Kept
    <2>1. SavedInv'
        BY <1>1, <1>2 DEF Known, SavedInv
    <2>2. \A l \in Logins : Unserved(l) => Unserved(l)'
        BY <1>2 DEF Unserved
    <2>3. \A l \in Logins : l \in dropped' => Unserved(l)'
        BY DEF Unserved
    <2>4. OpenInv'
        BY <1>1, <1>2, <2>2, <2>3, LoginsAssumption, NamesAssumption DEF Known, OpenInv
    <2>5. \A k \in Calls : CallInv(k)'
        BY <1>1, <1>2, CallStays
    <2>6. QED
        BY <1>2, <2>1, <2>4, <2>5 DEF Kept, Known, SavedRequestSpentOnce
<1>3. ASSUME NEW p \in Pushes, NEW c \in Clients, Push(p, c) PROVE Kept
    BY <1>2, <1>3 DEF Push
<1>4. ASSUME LoginExpire PROVE Kept
    <2>1. UNCHANGED call /\ dropped \subseteq dropped'
        BY <1>4 DEF LoginExpire, ExpirePush, ExpireState, ExpireCorrelation, ExpireTx
    <2>2. ASSUME NEW t \in States, ExpireState(t), NEW s \in States
          PROVE  \/ stateCache'[s] = stateCache[s]
                 \/ /\ stateCache'[s] = NoLogin
                    /\ stateCache[s] # NoLogin => stateCache[s] \in dropped'
        BY <2>2 DEF ExpireState, Unspent, Known, LoginTypeOK
    <2>3. (\E t \in States : ExpireState(t)) \/ UNCHANGED stateCache
        BY <1>4 DEF LoginExpire, ExpirePush, ExpireCorrelation, ExpireTx
    <2>4. QED
        BY <1>2, <2>1, <2>2, <2>3
<1>5. ASSUME LoginCrash PROVE Kept
    <2>1. UNCHANGED <<stateCache, dropped>>
        BY <1>5 DEF LoginCrash
    <2>2. \A k \in Calls :
              /\ call'[k].login = call[k].login
              /\ call'[k].popped = call[k].popped
              /\ call'[k].minted = call[k].minted
              /\ call'[k].created = call[k].created
              /\ call'[k].audited = call[k].audited
              /\ \/ call'[k] = call[k]
                 \/ call[k].stage \in InCallback /\ call'[k].stage = "lost"
        BY <1>5 DEF LoginCrash, Known, LoginTypeOK, Call
    <2>3. ASSUME NEW k \in Calls PROVE CallInv(k)'
        <3>1. CASE call'[k] = call[k]
            BY <1>1, <2>1, <2>2, <3>1, CallStays
        <3>2. CASE call[k].stage \in InCallback /\ call'[k].stage = "lost"
            <4>1. CallInv(k) /\ (Unserved(call[k].login) <=> Unserved(call[k].login)')
                BY <2>1, <2>2 DEF Known, Unserved
            <4>2. QED
                BY <1>1, <2>2, <3>2, <4>1 DEF CallInv, InCallback
        <3>3. QED
            BY <2>2, <3>1, <3>2
    <2>4. QED
        BY <1>1, <2>1, <2>2, <2>3 DEF Kept, Known, SavedInv, OpenInv, Unserved, SavedRequestSpentOnce
<1>6. QED
    BY <1>3, <1>4, <1>5 DEF Environment

\* Every step keeps what is known of the calls and the saved requests.
LEMMA StateStep ==
    ASSUME Known, [LoginNext]_loginVars
    PROVE  Kept
<1>1. ASSUME NEW l \in Logins, Arrival(l) PROVE Kept
    <2>1. UNCHANGED <<stateCache, call, dropped>>
        BY <1>1, ArrivalEffect DEF Known
    <2>2. \A m \in Logins : login'[m].stage = "open" => login[m].stage = "open"
        BY <1>1, ArrivalEffect DEF Known, LoginTypeOK
    <2>3. QED
        BY <2>1, <2>2, LoginStepKeeps
<1>2. ASSUME UNCHANGED loginVars PROVE Kept
    BY <1>2, LoginStepKeeps DEF loginVars
<1>3. QED
    BY StepCases, <1>1, <1>2, AuthorizeKeeps, BeginKeeps, CallStepKeeps, LoginEnvironmentKeeps

(***************************************************************************)
(* PushInv: pushed requests.                                               *)
(***************************************************************************)

\* A pushed request is used by the one login that takes it out of the cache.
LEMMA FromPARKeeps ==
    ASSUME LoginTypeOK, PushInv, NEW l \in Logins, NEW p \in Pushes, NEW c \in Clients,
           FromPAR(l, p, c)
    PROVE  PushInv'
<1>1. CASE p \in parCache /\ parCache' = parCache \ {p}
           /\ Opens(l, [stage |-> IF pusher[p] = c THEN "redirected" ELSE "refused",
                        client |-> c, asks |-> "code", push |-> p])
    <2>1. /\ login'[l].push = p
          /\ login'[l].client = c
          /\ login'[l].stage = IF pusher[p] = c THEN "redirected" ELSE "refused"
          /\ \A m \in Logins \ {l} : login'[m] = login[m]
          /\ UNCHANGED pusher
        BY <1>1 DEF Opens, LoginTypeOK
    <2>2. \A m \in Logins \ {l} : login[m].push = p => p = NoPush
        BY <1>1 DEF PushInv
    <2>3. QED
        BY <1>1, <2>1, <2>2, NamesAssumption DEF PushInv
<1>2. CASE Opens(l, [Unopened EXCEPT !.stage = "refused"]) /\ UNCHANGED parCache
    <2>1. /\ login'[l].push = NoPush
          /\ \A m \in Logins \ {l} : login'[m] = login[m]
          /\ UNCHANGED pusher
        BY <1>2 DEF Opens, LoginTypeOK, Unopened
    <2>2. QED
        BY <1>2, <2>1 DEF PushInv
<1>3. QED
    BY <1>1, <1>2 DEF FromPAR

\* Every step keeps pushed requests single-use and their client's.
LEMMA PushStep ==
    ASSUME LoginTypeOK, PushInv, [LoginNext]_loginVars
    PROVE  PushInv'
<1>1. ASSUME NEW l \in Logins, NEW c \in Clients, FromQuery(l, c) \/ Direct(l, c) PROVE PushInv'
    <2>1. /\ login'[l].push = NoPush
          /\ \A m \in Logins \ {l} : login'[m] = login[m]
          /\ UNCHANGED <<pusher, parCache>>
        BY <1>1 DEF FromQuery, Direct, Opens, LoginTypeOK
    <2>2. QED
        BY <2>1 DEF PushInv
<1>2. ASSUME NEW l \in Logins, Authorize(l) PROVE PushInv'
    <2>1. /\ \A m \in Logins \ {l} : login'[m] = login[m]
          /\ login'[l].push = login[l].push
          /\ login'[l].client = login[l].client
          /\ login'[l].stage # "none"
          /\ login[l].stage # "refused"
          /\ UNCHANGED <<pusher, parCache>>
        BY <1>2 DEF Authorize, LoginTypeOK, Login
    <2>2. QED
        BY <2>1 DEF PushInv
<1>3. ASSUME NEW p \in Pushes, NEW c \in Clients, Push(p, c) PROVE PushInv'
    <2>1. /\ pusher[p] = NoClient
          /\ pusher'[p] # NoClient
          /\ \A q \in Pushes \ {p} : pusher'[q] = pusher[q]
          /\ parCache' = parCache \cup {p}
          /\ UNCHANGED login
        BY <1>3, DeploymentAssumption DEF Push, LoginTypeOK
    <2>2. \A l \in Logins : login[l].push # NoPush => login[l].push \in Pushes \ {p}
        BY <2>1 DEF PushInv, LoginTypeOK, Login
    <2>3. QED
        BY <2>1, <2>2 DEF PushInv, LoginTypeOK
<1>4. ASSUME UNCHANGED <<pusher, login>>, parCache' \subseteq parCache PROVE PushInv'
    BY <1>4 DEF PushInv
<1>5. ASSUME NEW k \in Calls, CallStep(k) PROVE UNCHANGED <<pusher, login, parCache>>
    BY <1>5 DEF CallStep, Verify, PopState, SetItem, CreateLoginSession, Audit, Redirect, Moves, Does
<1>6. ASSUME NEW k \in Calls, NEW l \in Logins, BeginCallback(k, l) \/ BeginReturn(k, l)
      PROVE  UNCHANGED <<pusher, login, parCache>>
    BY <1>6 DEF BeginCallback, BeginReturn, Does
<1>7. ASSUME LoginExpire \/ LoginCrash
      PROVE  UNCHANGED <<pusher, login>> /\ parCache' \subseteq parCache
    BY <1>7 DEF LoginExpire, ExpirePush, ExpireState, ExpireCorrelation, ExpireTx, LoginCrash
<1>8. QED
    BY StepCases, FromPARKeeps, <1>1, <1>2, <1>3, <1>4, <1>5, <1>6, <1>7
       DEF Arrival, Environment, loginVars

(***************************************************************************)
(* Theorems.                                                               *)
(***************************************************************************)

\* The strengthened invariant holds in every behaviour.
LEMMA LoginInvInductive == LoginSpec => []LoginInv
<1>1. LoginInit => LoginInv
    <2>1. ASSUME LoginInit PROVE LoginTypeOK
        BY <2>1 DEF LoginInit, LoginTypeOK, Unopened, Login, Asks, NoCall, Call
    <2>2. ASSUME LoginInit PROVE SavedInv /\ OpenInv /\ SavedRequestSpentOnce /\ PushInv
        BY <2>2 DEF LoginInit, SavedInv, OpenInv, SavedRequestSpentOnce, PushInv, Unopened, NoCall
    <2>3. ASSUME LoginInit, NEW k \in Calls PROVE CallInv(k)
        BY <2>3 DEF LoginInit, CallInv, NoCall
    <2>4. QED
        BY <2>1, <2>2, <2>3 DEF LoginInv
<1>2. LoginInv /\ [LoginNext]_loginVars => LoginInv'
    BY LoginTypeStep, StateStep, PushStep DEF LoginInv, Known, Kept
<1>3. QED
    BY <1>1, <1>2, PTL DEF LoginSpec

\* In every behaviour caches, logins and calls hold values of their types.
THEOREM LoginTypes == LoginSpec => []LoginTypeOK
BY LoginInvInductive, PTL DEF LoginInv

\* However many callbacks overlap, and whichever logins share a state, a saved
\* request is spent once.
THEOREM SavedRequestsSpentOnce == LoginSpec => []SavedRequestSpentOnce
BY LoginInvInductive, PTL DEF LoginInv

\* When states are distinct each login gets at most one code, for its own request.
THEOREM CodesOfTheirLogins ==
    ASSUME \A l, m \in Logins : StateOf[l] = StateOf[m] => l = m
    PROVE  LoginSpec => []CodeOfItsLogin
<1>1. LoginInv => CodeOfItsLogin
    <2> SUFFICES ASSUME LoginInv PROVE CodeOfItsLogin
        OBVIOUS
    <2>1. ASSUME NEW a \in Calls, call[a].minted
          PROVE  call[a].popped = call[a].login /\ login[call[a].login].asks = "code"
                 /\ call[a].popped # NoLogin
        BY <2>1 DEF LoginInv, CallInv, NoCall, LoginTypeOK, Call
    <2>2. QED
        BY <2>1 DEF LoginInv, CodeOfItsLogin, SavedRequestSpentOnce
<1>2. QED
    BY <1>1, LoginInvInductive, PTL

\* Whatever store call fails, with or without effect, whatever expires and however
\* callbacks overlap, also of logins that share a state: the code that a browser is
\* sent back with has an item or an audited session under it, and a session takes the
\* item's place only when the saved request was lost or spent by another call.
THEOREM RedirectsBackTheirCodes == LoginSpec => []RedirectBacksItsCode
<1>1. LoginInv => RedirectBacksItsCode
    <2> SUFFICES ASSUME LoginInv, NEW k \in Calls, call[k].stage = "code", ~ call[k].minted
                 PROVE  /\ call[k].created /\ call[k].audited
                        /\ login[call[k].login].asks = "code" =>
                              \/ call[k].login \in dropped
                              \/ \E b \in Calls \ {k} : call[b].popped = call[k].login
        BY DEF RedirectBacksItsCode
    <2>1. CallInv(k)
        BY DEF LoginInv
    <2>2. call[k].created /\ call[k].audited /\ call[k].login \in Logins
        BY <2>1 DEF CallInv
    <2>3. call[k].popped = NoLogin
        BY <2>1, <2>2 DEF CallInv
    <2>4. login[call[k].login].asks = "code" => Unserved(call[k].login)
        BY <2>1, <2>2 DEF CallInv
    <2>5. QED
        BY <2>2, <2>3, <2>4, NamesAssumption DEF Unserved
<1>2. QED
    BY <1>1, LoginInvInductive, PTL

\* When states are distinct a pushed request leads to one code at most, its client's.
THEOREM PushesMintOneCode ==
    ASSUME \A l, m \in Logins : StateOf[l] = StateOf[m] => l = m
    PROVE  LoginSpec => []PushMintsOneCode
<1>1. LoginInv => PushMintsOneCode
    <2> SUFFICES ASSUME LoginInv PROVE PushMintsOneCode
        OBVIOUS
    <2>1. ASSUME NEW a \in Calls, call[a].minted
          PROVE  /\ call[a].popped = call[a].login
                 /\ call[a].popped # NoLogin
                 /\ call[a].login \in Logins
                 /\ login[call[a].login].stage = "open"
        BY <2>1 DEF LoginInv, CallInv, NoCall, LoginTypeOK, Call
    <2>2. QED
        BY <2>1 DEF LoginInv, PushInv, PushMintsOneCode, SavedRequestSpentOnce
<1>2. QED
    BY <1>1, LoginInvInductive, PTL
=============================================================================

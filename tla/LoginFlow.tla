----------------------------- MODULE LoginFlow -----------------------------
(***************************************************************************)
(* From a pushed authorization request to the code or session a login ends *)
(* in: POST /par, GET /authorizationV3, the Authorize of a provider, and   *)
(* its Callback or, for edim:same_device, SameDeviceReturn.                *)
(*                                                                         *)
(*   parCache     pushed requests, until one authorizationV3 pops them     *)
(*   stateCache   what Authorize saved for the callback, keyed by state    *)
(*   logins       correlations of the library, one per browser at          *)
(*                /authorize; a callback is any request that carries one   *)
(*   calls        callbacks, up to the redirect that answers the browser   *)
(*                                                                         *)
(* A browser may send a callback again, also while the first one runs, so  *)
(* a login has any number of calls and every store call is a step.         *)
(***************************************************************************)
EXTENDS Deployment

CONSTANTS
    Logins,
    NoLogin,
    Calls,          \* requests to /callback/{id} or to the same-device return
    Pushes,         \* request_uri values
    NoPush,
    States,
    StateOf,        \* the state parameter of a login
    SameDevice,     \* the logins through edim:same_device
    RequirePAR      \* IDAUTH_REQUIRE_PAR

ASSUME NamesAssumption ==
    /\ NoLogin \notin Logins
    /\ NoPush \notin Pushes

ASSUME LoginsAssumption ==
    /\ StateOf \in [Logins -> States]
    /\ SameDevice \subseteq Logins
    /\ RequirePAR \in BOOLEAN

VARIABLES
    parCache,
    pusher,         \* history: who pushed a request
    stateCache,     \* per state, the login whose Authorize saved it
    login,
    correlations,   \* logins whose correlation the library still has
    walletTx,       \* same-device logins whose tx the verifier still has
    call,
    dropped         \* history: logins whose saved request was lost unspent

loginVars == <<parCache, pusher, stateCache, login, correlations, walletTx, call, dropped>>

\* What a login asks for: a code, a code without naming a scope, or a session.
Asks == {"code", "scopeless", "session"}

Login == [stage  : {"none", "redirected", "open", "refused"},
          client : Clients \cup {NoClient},
          asks   : Asks,
          push   : Pushes \cup {NoPush}]

Unopened == [stage |-> "none", client |-> NoClient, asks |-> "session", push |-> NoPush]

\* Before "finish" and "fail" the handler has returned; ErrorCode is set in "fail".
InCallback == {"verify", "pop", "store", "create", "audit", "finish", "fail"}

\* What the browser got: code=<ID of the correlation>, an error, or nothing.
Outcomes == {"code", "error", "lost"}

\* popped: the login whose saved request PopState returned.  minted, created:
\* the item and session the call left behind; audited: its audit call succeeded.
Call == [stage   : {"idle"} \cup InCallback \cup Outcomes,
         login   : Logins \cup {NoLogin},
         popped  : Logins \cup {NoLogin},
         minted  : BOOLEAN,
         created : BOOLEAN,
         audited : BOOLEAN]

NoCall == [stage |-> "idle", login |-> NoLogin, popped |-> NoLogin,
           minted |-> FALSE, created |-> FALSE, audited |-> FALSE]

LoginInit ==
    /\ parCache = {}
    /\ pusher = [p \in Pushes |-> NoClient]
    /\ stateCache = [s \in States |-> NoLogin]
    /\ login = [l \in Logins |-> Unopened]
    /\ correlations = {}
    /\ walletTx = {}
    /\ call = [k \in Calls |-> NoCall]
    /\ dropped = {}

(***************************************************************************)
(* Pushed requests and the authorization endpoint.                         *)
(***************************************************************************)

\* par: an attested client pushes a request; it always asks for a code.
Push(p, c) ==
    /\ pusher[p] = NoClient
    /\ pusher' = [pusher EXCEPT ![p] = c]
    /\ parCache' = parCache \cup {p}
    /\ UNCHANGED <<stateCache, login, correlations, walletTx, call, dropped>>

Opens(l, request) ==
    /\ login[l].stage = "none"
    /\ login' = [login EXCEPT ![l] = request]
    /\ UNCHANGED <<pusher, stateCache, correlations, walletTx, call, dropped>>

\* Variant: the pushed request is read and left stored.
FromPARByGet(l, p, c) ==
    /\ p \in parCache
    /\ Opens(l, [stage |-> IF pusher[p] = c THEN "redirected" ELSE "refused",
                 client |-> c, asks |-> "code", push |-> p])
    /\ UNCHANGED parCache

\* Variant: client_id is not compared with that of the pushed request.
FromPARForAnyone(l, p, c) ==
    /\ p \in parCache
    /\ parCache' = parCache \ {p}
    /\ Opens(l, [stage |-> "redirected", client |-> c, asks |-> "code", push |-> p])

\* authorizationV3FromPAR: the request is popped before client_id is compared.
\* A missing one is refused whatever Pop returns for it.
FromPAR(l, p, c) ==
    \/ /\ p \in parCache
       /\ parCache' = parCache \ {p}
       /\ Opens(l, [stage |-> IF pusher[p] = c THEN "redirected" ELSE "refused",
                    client |-> c, asks |-> "code", push |-> p])
    \/ /\ p \notin parCache \/ Faults
       /\ Opens(l, [Unopened EXCEPT !.stage = "refused"])
       /\ UNCHANGED parCache

\* authorizationV3 with the parameters in the query: strict, and not under PAR.
FromQuery(l, c) ==
    /\ ~ RequirePAR
    /\ Opens(l, [stage |-> "redirected", client |-> c, asks |-> "code", push |-> NoPush])
    /\ UNCHANGED parCache

\* The library's own /authorize, which both redirect to.
Direct(l, c) ==
    /\ \E asks \in Asks :
          Opens(l, [stage |-> "redirected", client |-> c, asks |-> asks, push |-> NoPush])
    /\ UNCHANGED parCache

\* SetState: the request is saved over whatever another login left there.
Saved(l) == [stateCache EXCEPT ![StateOf[l]] = l]

\* Whose unspent request goes when what is kept for a state does.
Unspent(s) == {stateCache[s]} \ {NoLogin}

\* Variant: key and value of the saved state swapped; no tx.
AuthorizeSwapped(l) ==
    /\ login[l].stage = "redirected"
    /\ stateCache' = IF login[l].asks = "code"
                     THEN [stateCache EXCEPT ![StateOf[l]] = StateOf[l]] ELSE stateCache
    /\ login' = [login EXCEPT ![l].stage = "open"]
    /\ correlations' = correlations \cup {l}
    /\ UNCHANGED <<parCache, pusher, walletTx, call, dropped>>

\* Variant: a code request is saved without a scope too; no tx.
AuthorizeScopeless(l) ==
    /\ login[l].stage = "redirected"
    /\ stateCache' = IF login[l].asks # "session" THEN Saved(l) ELSE stateCache
    /\ login' = [login EXCEPT ![l].stage = "open"]
    /\ correlations' = correlations \cup {l}
    /\ UNCHANGED <<parCache, pusher, walletTx, call, dropped>>

\* ValidateAndSaveState saves nothing unless a code and a scope are asked for.
SavesState(l) ==
    IF login[l].asks = "code"
    THEN stateCache' = Saved(l) /\ dropped' = dropped \cup Unspent(StateOf[l])
    ELSE UNCHANGED <<stateCache, dropped>>

\* Authorize of a provider.  A refusal may leave the saved state behind: SetState
\* may fail having saved it, and edim:same_device then asks the verifier for a tx.
Authorize(l) ==
    /\ login[l].stage = "redirected"
    /\ \/ /\ SavesState(l)
          /\ login' = [login EXCEPT ![l].stage = "open"]
          /\ correlations' = correlations \cup {l}
          /\ walletTx' = walletTx \cup ({l} \cap SameDevice)
       \/ /\ \/ SavesState(l) /\ (Faults \/ l \in SameDevice)
             \/ UNCHANGED <<stateCache, dropped>>
          /\ login' = [login EXCEPT ![l].stage = "refused"]
          /\ UNCHANGED <<correlations, walletTx>>
    /\ UNCHANGED <<parCache, pusher, call>>

(***************************************************************************)
(* Callbacks.                                                              *)
(***************************************************************************)

\* The call does one step of its own and touches no cache.
Does(k, from, next) ==
    /\ call[k].stage = from
    /\ call' = [call EXCEPT ![k] = next]
    /\ UNCHANGED <<parCache, pusher, stateCache, login, correlations, walletTx, dropped>>

Moves(k, from, to) == Does(k, from, [call[k] EXCEPT !.stage = to])

\* /callback/{id}: without its correlation a call is turned down.
BeginCallback(k, l) ==
    /\ login[l].stage = "open"
    /\ Does(k, "idle", [call[k] EXCEPT !.login = l,
                            !.stage = IF l \in correlations THEN "verify" ELSE "error"])

\* SameDeviceReturn: HandleWalletReturn finds the tx once; without it there is
\* nobody to redirect to, and a wallet's answer that it refuses sets ErrorCode.
BeginReturn(k, l) ==
    /\ call[k].stage = "idle"
    /\ l \in SameDevice
    /\ login[l].stage = "open"
    /\ walletTx' = walletTx \ {l}
    /\ \E next \in IF l \in walletTx THEN {"pop", "fail"} ELSE {"error"} :
          call' = [call EXCEPT ![k].login = l, ![k].stage = next]
    /\ UNCHANGED <<parCache, pusher, stateCache, login, correlations, dropped>>

\* The provider asks who logged in: verifier, Smart-ID or the IdP.
Verify(k) == Moves(k, "verify", "pop") \/ Moves(k, "verify", "fail")

\* Variant: the saved request is read and left stored.
PopStateByGet(k) ==
    LET saved == stateCache[StateOf[call[k].login]] IN
    Does(k, "pop", [call[k] EXCEPT !.popped = saved,
                        !.stage = IF saved = NoLogin THEN "create" ELSE "store"])

\* The error of PopState is discarded: no state, or none to be had, is a login
\* that did not ask for a code.  A Pop that fails may have taken the state out.
PopState(k) ==
    LET s == StateOf[call[k].login] IN
    /\ call[k].stage = "pop"
    /\ \/ /\ stateCache' = [stateCache EXCEPT ![s] = NoLogin]
          /\ call' = [call EXCEPT ![k].popped = stateCache[s],
                         ![k].stage = IF stateCache[s] = NoLogin THEN "create" ELSE "store"]
          /\ UNCHANGED dropped
       \/ /\ Faults
          /\ stateCache' \in {stateCache, [stateCache EXCEPT ![s] = NoLogin]}
          /\ call' = [call EXCEPT ![k].stage = "create"]
          /\ dropped' = dropped \cup Unspent(s)
    /\ UNCHANGED <<parCache, pusher, login, correlations, walletTx>>

\* Variant: a failed SetItem does not return, the session is created instead.
SetItemFallsThrough(k) ==
    \/ Does(k, "store", [call[k] EXCEPT !.minted = TRUE, !.stage = "finish"])
    \/ Faults /\ Moves(k, "store", "create")

\* authorizationcode.Callback stores the item; a failing Set may have stored it.
SetItem(k) ==
    \/ Does(k, "store", [call[k] EXCEPT !.minted = TRUE, !.stage = "finish"])
    \/ \E stored \in BOOLEAN :
          Faults /\ Does(k, "store", [call[k] EXCEPT !.minted = stored, !.stage = "fail"])

CreateLoginSession(k) ==
    \/ Does(k, "create", [call[k] EXCEPT !.created = TRUE, !.stage = "audit"])
    \/ \E stored \in BOOLEAN :
          Faults /\ Does(k, "create", [call[k] EXCEPT !.created = stored, !.stage = "fail"])

\* A login that cannot be audited fails; its session stays.
Audit(k) ==
    \/ Does(k, "audit", [call[k] EXCEPT !.audited = TRUE, !.stage = "finish"])
    \/ Faults /\ Moves(k, "audit", "fail")

\* RedirectToCaller: only ErrorCode decides, whatever the handler returned and
\* whatever lies under the ID that the browser is sent back with.
Redirect(k) == Moves(k, "finish", "code") \/ Moves(k, "fail", "error")

(***************************************************************************)
(* Time and crashes.                                                       *)
(***************************************************************************)

ExpirePush(p) ==
    /\ p \in parCache
    /\ parCache' = parCache \ {p}
    /\ UNCHANGED <<pusher, stateCache, login, correlations, walletTx, call, dropped>>

ExpireState(s) ==
    /\ stateCache[s] # NoLogin
    /\ stateCache' = [stateCache EXCEPT ![s] = NoLogin]
    /\ dropped' = dropped \cup Unspent(s)
    /\ UNCHANGED <<parCache, pusher, login, correlations, walletTx, call>>

ExpireCorrelation(l) ==
    /\ l \in correlations
    /\ correlations' = correlations \ {l}
    /\ UNCHANGED <<parCache, pusher, stateCache, login, walletTx, call, dropped>>

ExpireTx(l) ==
    /\ l \in walletTx
    /\ walletTx' = walletTx \ {l}
    /\ UNCHANGED <<parCache, pusher, stateCache, login, correlations, call, dropped>>

\* The verifier keeps its tx in memory; the caches are taken to survive.
LoginCrash ==
    /\ Faults
    /\ walletTx' = {}
    /\ call' = [k \in Calls |-> IF call[k].stage \in InCallback
                                THEN [call[k] EXCEPT !.stage = "lost"] ELSE call[k]]
    /\ UNCHANGED <<parCache, pusher, stateCache, login, correlations, dropped>>

CallStep(k) ==
    \/ Verify(k) \/ PopState(k) \/ SetItem(k) \/ CreateLoginSession(k) \/ Audit(k)
    \/ Redirect(k)

Enter(l) ==
    \/ \E p \in Pushes, c \in Clients : FromPAR(l, p, c)
    \/ \E c \in Clients : FromQuery(l, c) \/ Direct(l, c)
    \/ Authorize(l)

LoginExpire ==
    \/ \E p \in Pushes : ExpirePush(p)
    \/ \E s \in States : ExpireState(s)
    \/ \E l \in Logins : ExpireCorrelation(l) \/ ExpireTx(l)

LoginNext ==
    \/ \E p \in Pushes, c \in Clients : Push(p, c)
    \/ \E l \in Logins : Enter(l)
    \/ \E k \in Calls, l \in Logins : BeginCallback(k, l) \/ BeginReturn(k, l)
    \/ \E k \in Calls : CallStep(k)
    \/ LoginExpire
    \/ LoginCrash

LoginSpec == LoginInit /\ [][LoginNext]_loginVars

(***************************************************************************)
(* Properties.                                                             *)
(***************************************************************************)

\* Type correctness of the caches, the logins and the calls.
LoginTypeOK ==
    /\ parCache \subseteq Pushes
    /\ pusher \in [Pushes -> Clients \cup {NoClient}]
    /\ stateCache \in [States -> Logins \cup {NoLogin}]
    /\ login \in [Logins -> Login]
    /\ correlations \subseteq Logins
    /\ walletTx \subseteq SameDevice
    /\ call \in [Calls -> Call]
    /\ dropped \subseteq Logins

\* A request saved for the callback is spent at most once, however often and
\* however close together the browser calls back, whoever shares its state
\* (store.go:178; edim.go:306, smartid.go:298, oauth2generic.go:189).
SavedRequestSpentOnce ==
    \A a, b \in Calls :
        call[a].popped = call[b].popped /\ call[a].popped # NoLogin => a = b

\* When states are distinct, a code is only minted for a login that asked for one
\* and named a scope, with the request of that very login, and the login gets no
\* second code (validation.go:62, 83; edim.go:306-312).
CodeOfItsLogin ==
    \A a \in Calls :
        call[a].minted =>
            /\ call[a].popped = call[a].login
            /\ login[call[a].login].asks = "code"
            /\ \A b \in Calls : call[b].minted /\ call[b].login = call[a].login => a = b

\* A browser is sent back with a code only if something usable lies under it: an
\* item, or an audited session.  And a login that asked for a code is given a session
\* in its place only if its saved request was lost, or spent by another call, never
\* after a failed store of its own, also when SameDeviceReturn drops the error of
\* completeCallback (edim.go:184-187, 213-215, 306-329).
RedirectBacksItsCode ==
    \A k \in Calls :
        call[k].stage = "code" /\ ~ call[k].minted =>
            /\ call[k].created /\ call[k].audited
            /\ login[call[k].login].asks = "code" =>
                  \/ call[k].login \in dropped
                  \/ \E b \in Calls \ {k} : call[b].popped = call[k].login

\* A pushed request leads to one code at most, and to none for any client but the
\* one that pushed it: popping the push and popping the state add up
\* (authorization.go:125-131, store.go:236-245).  A browser that sends the redirect
\* of authorization.go:136 again is a login of its own, by Direct.
PushMintsOneCode ==
    \A a, b \in Calls :
        LET Pushed(k) == login[call[k].login].push IN
        /\ call[a].minted /\ Pushed(a) # NoPush => pusher[Pushed(a)] = login[call[a].login].client
        /\ call[a].minted /\ call[b].minted /\ Pushed(a) # NoPush /\ Pushed(a) = Pushed(b) => a = b
=============================================================================

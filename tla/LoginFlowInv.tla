---------------------------- MODULE LoginFlowInv ----------------------------
(***************************************************************************)
(* The inductive invariant behind the safety properties of LoginFlow.      *)
(***************************************************************************)
EXTENDS LoginFlow

\* A saved request is that of a login that asked for a code and went through
\* Authorize, under its own state, and no call has popped it.
SavedInv ==
    \A s \in States :
        stateCache[s] # NoLogin =>
            /\ StateOf[stateCache[s]] = s
            /\ login[stateCache[s]].asks = "code"
            /\ login[stateCache[s]].stage \in {"open", "refused"}
            /\ \A k \in Calls : call[k].popped # stateCache[s]

\* Why a login that asked for a code may find no saved request: it was lost, or a
\* call has popped it.
Unserved(l) == l \in dropped \/ \E k \in Calls : call[k].popped = l

\* The request of an open login that asked for a code is saved until then.
OpenInv ==
    \A l \in Logins :
        login[l].stage = "open" /\ login[l].asks = "code" =>
            stateCache[StateOf[l]] = l \/ Unserved(l)

\* A call belongs to an open login; what it popped was saved under that login's
\* state, and then it can only mint; otherwise it can only create a session, and a
\* code that was asked for is not to be had.
CallInv(k) ==
    /\ call[k].stage = "idle" => call[k] = NoCall
    /\ call[k].stage # "idle" =>
          call[k].login \in Logins /\ login[call[k].login].stage = "open"
    /\ call[k].stage \in {"verify", "pop", "create", "audit"} => call[k].popped = NoLogin
    /\ call[k].stage = "store" => call[k].popped # NoLogin
    /\ call[k].stage \in {"verify", "pop", "store", "create"} => ~ call[k].created
    /\ call[k].stage \in {"verify", "pop", "store"} \/ call[k].popped = NoLogin => ~ call[k].minted
    /\ call[k].popped # NoLogin => ~ call[k].created
    /\ call[k].stage = "audit" => call[k].created
    /\ call[k].stage \in {"finish", "code"} =>
          call[k].minted \/ (call[k].created /\ call[k].audited)
    /\ call[k].stage = "create" \/ call[k].created =>
          (login[call[k].login].asks = "code" => Unserved(call[k].login))
    /\ call[k].popped # NoLogin =>
          /\ StateOf[call[k].popped] = StateOf[call[k].login]
          /\ login[call[k].popped].asks = "code"
          /\ login[call[k].popped].stage \in {"open", "refused"}

\* A push that a login used is gone from the cache, no other login used it, and
\* unless the login was refused it is its client's.
PushInv ==
    /\ \A p \in parCache : pusher[p] # NoClient
    /\ \A l \in Logins :
          login[l].push # NoPush =>
             /\ login[l].stage # "none"
             /\ login[l].push \notin parCache
             /\ pusher[login[l].push] # NoClient
             /\ login[l].stage # "refused" => pusher[login[l].push] = login[l].client
    /\ \A l, m \in Logins : login[l].push = login[m].push /\ login[l].push # NoPush => l = m

LoginInv ==
    /\ LoginTypeOK
    /\ SavedInv
    /\ OpenInv
    /\ \A k \in Calls : CallInv(k)
    /\ SavedRequestSpentOnce
    /\ PushInv
=============================================================================

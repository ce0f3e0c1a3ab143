---------------------------- MODULE LoginToToken ----------------------------
(***************************************************************************)
(* The login flow feeding the token endpoint: one process, one Store.  The *)
(* code a login mints is the ID of its correlation, so codes are logins.   *)
(*                                                                         *)
(* LoginFlow says when a callback stores an item or a session, but not     *)
(* where; TokenEndpoint takes it for granted that a code is stored once.   *)
(* Here SetItem and CreateLoginSession write the stores that the token     *)
(* endpoint reads, and nothing keeps a code from being stored again: that  *)
(* it is not is the property ImplementsTokenEndpoint.                      *)
(***************************************************************************)
EXTENDS LoginFlow, TokenEndpoint

ASSUME CodesAreLogins == Codes = Logins

jointVars == <<parCache, pusher, stateCache, login, correlations, walletTx, call, dropped,
               issued, authCodeCache, preAuthCache, refreshTokenCache, sessions, pc, req>>

JointInit == LoginInit /\ Init

\* Steps of the login flow that touch no store of the token endpoint.
LoginStep ==
    /\ \/ \E p \in Pushes, c \in Clients : Push(p, c)
       \/ \E l \in Logins : Enter(l)
       \/ \E k \in Calls, l \in Logins : BeginCallback(k, l) \/ BeginReturn(k, l)
       \/ \E k \in Calls : Verify(k) \/ PopState(k) \/ Audit(k) \/ Redirect(k)
       \/ LoginExpire
    /\ UNCHANGED vars

\* Steps of the token endpoint, of the issuer and of time.
TokenStep ==
    /\ \/ \E r \in Reqs : Begin(r) \/ Step(r)
       \/ \E c \in PreCodes : PreauthGenerate(c)
       \/ Expire
    /\ UNCHANGED loginVars

\* authorizationcode.Callback: the item is stored under the correlation's ID,
\* for the client of the correlation, over whatever is there.
StoreItem(k) ==
    LET l == call[k].login IN
    /\ SetItem(k)
    /\ IF call'[k].minted
       THEN /\ issued' = issued \cup {l}
            /\ authCodeCache' = [authCodeCache EXCEPT ![l] =
                   [code |-> l, clientID |-> login[l].client, noTXCode |-> FALSE]]
       ELSE UNCHANGED <<issued, authCodeCache>>
    /\ UNCHANGED <<preAuthCache, refreshTokenCache, sessions, pc, req>>

\* A login without a saved request: a session under the correlation's ID.
StoreSession(k) ==
    LET l == call[k].login IN
    /\ CreateLoginSession(k)
    /\ IF call'[k].created
       THEN sessions' = [sessions EXCEPT ![l] =
                            [live |-> TRUE, subject |-> l, jkt |-> NoKey]]
       ELSE UNCHANGED sessions
    /\ UNCHANGED <<issued, authCodeCache, preAuthCache, refreshTokenCache, pc, req>>

\* Callbacks and token requests die together.
ProcessCrash ==
    /\ LoginCrash
    /\ \/ Crash
       \/ /\ \A r \in Reqs : pc[r] \notin Running
          /\ UNCHANGED vars

JointNext ==
    \/ LoginStep
    \/ TokenStep
    \/ \E k \in Calls : StoreItem(k) \/ StoreSession(k)
    \/ ProcessCrash

JointSpec == JointInit /\ [][JointNext]_jointVars

(***************************************************************************)
(* Properties.                                                             *)
(***************************************************************************)

\* To the token endpoint the login flow looks like its Callback, which stores a
\* code that was never stored before, and CreateInteractive: no repeated or late
\* callback brings back a code that is being redeemed or was (edim.go:306-312,
\* authorization.go:54).
ImplementsTokenEndpoint == Spec

\* From a wallet's session back to the pushed request: a session that goes back to
\* an attested redemption is for the user of a login that was opened for that very
\* client, with a request that this client itself pushed if it was pushed, also when
\* logins share a state (authorization.go:131, token.go:189, 346).
AttestedSessionOfOwnClient ==
    \A r \in Reqs :
        sessions[r].live /\ req[r].grant \in {"authorization_code", "refresh_token"} =>
            LET o == req[Origin(r)]
                l == sessions[r].subject IN
            o.attested /\ l \in Logins =>
                /\ login[l].client = o.clientID
                /\ login[l].push # NoPush => pusher[login[l].push] = o.clientID

\* From a wallet's session back to its login, through any refreshes: a session
\* that goes back to an attested redemption is for the user of a login that
\* asked for a code and was opened for that very client, whatever that login
\* repeats and whoever else presents its code (validation.go:62, token.go:189, 346).
AttestedSessionFromOwnLogin ==
    \A r \in Reqs :
        sessions[r].live /\ req[r].grant \in {"authorization_code", "refresh_token"} =>
            LET o == req[Origin(r)]
                l == sessions[r].subject IN
            o.attested /\ l \in Logins => login[l].asks = "code" /\ login[l].client = o.clientID
=============================================================================

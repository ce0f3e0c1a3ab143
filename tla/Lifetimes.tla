----------------------------- MODULE Lifetimes -----------------------------
(***************************************************************************)
(* How long what the token endpoint hands out, and is handed, is good for. *)
(*                                                                         *)
(* A wallet holds one credential at a time: an authorization code, a       *)
(* pre-authorized code, or the refresh token of the last answer.  Each     *)
(* lies in a cache from its Set until the TTL of that cache has passed;    *)
(* a tx_code lies in a cache of its own.  The wallet knows only when       *)
(* answers reach it and when it asks; a request and its answer, or an      *)
(* answer on its way, take MaxDelay together, with a handler that may be   *)
(* slow between any two store calls.  Which wallet a credential belongs to *)
(* is TokenEndpoint's; keys are fresh, so wallets do not meet here.        *)
(***************************************************************************)
EXTENDS Integers

CONSTANTS
    Wallets,
    AuthCodeTTL,        \* IDAUTH_CODE_TTL
    PreAuthTTL,         \* PRE_AUTH_TTL
    RefreshTokenTTL,    \* IDAUTH_REFRESH_TOKEN_TTL
    SessionTimeout,
    MaxDelay,
    Horizon             \* bound on the clock

ASSUME LifetimesAssumption ==
    /\ AuthCodeTTL \in Nat \ {0}
    /\ PreAuthTTL \in Nat \ {0}
    /\ RefreshTokenTTL \in Nat \ {0}
    /\ SessionTimeout \in Nat
    /\ MaxDelay \in Nat
    /\ Horizon \in Nat

VARIABLES
    now,
    until,      \* when the cache drops the wallet's credential
    txUntil,    \* when preAuthCache drops the tx_code of its offer
    wallet

vars == <<now, until, txUntil, wallet>>

Credentials == {"none", "code", "offer", "openOffer", "refresh"}

Offered == {"offer", "openOffer"}   \* with a tx_code, and under no_tx_code

\* In these stages something is on its way or a handler runs.
Busy == {"storing", "answered", "asked", "validating", "creating", "issuing"}
Stages == {"new", "holding", "refused", "done"} \cup Busy

\* since: when the message or request under way began.  stored: when the
\* credential was put into its cache.  received, presented: when the wallet got
\* it and when it asked with it.  exp: LastAccessed plus the session timeout of
\* the session last created.  expiresIn: expires_in of the answer with it.
Wallet == [stage      : Stages,
           credential : Credentials,
           since      : Nat,
           stored     : Nat,
           received   : Nat,
           presented  : Nat,
           exp        : Nat,
           expiresIn  : Int]

Init ==
    /\ now = 0
    /\ until = [w \in Wallets |-> 0]
    /\ txUntil = [w \in Wallets |-> 0]
    /\ wallet = [w \in Wallets |->
          [stage |-> "new", credential |-> "none", since |-> 0, stored |-> 0,
           received |-> 0, presented |-> 0, exp |-> 0, expiresIn |-> 0]]

\* Time passes, but leaves no one waiting for more than MaxDelay.
Tick ==
    /\ now < Horizon
    /\ \A w \in Wallets : wallet[w].stage \in Busy => now < wallet[w].since + MaxDelay
    /\ now' = now + 1
    /\ UNCHANGED <<until, txUntil, wallet>>

\* Store.SetItem of a credential by a login or an offer.
SetItem(w, credential, stage) ==
    /\ wallet[w].stage = "new"
    /\ until' = [until EXCEPT ![w] = now + AuthCodeTTL]
    /\ wallet' = [wallet EXCEPT ![w].stage = stage,
                                ![w].credential = credential,
                                ![w].since = now,
                                ![w].stored = now]
    /\ UNCHANGED <<now, txUntil>>

\* Variant: stage and credential the wrong way round.
CallbackSwapped(w) == SetItem(w, "answered", "code")

\* authorizationcode.Callback, then the redirect with the code.
Callback(w) == SetItem(w, "code", "answered")

\* preauthGenerate: the item, and unless no_tx_code was asked for, the tx_code.
PreauthGenerate(w) ==
    \/ SetItem(w, "offer", "storing")
    \/ SetItem(w, "openOffer", "answered")

SetTXCode(w) ==
    /\ wallet[w].stage = "storing"
    /\ txUntil' = [txUntil EXCEPT ![w] = now + PreAuthTTL]
    /\ wallet' = [wallet EXCEPT ![w].stage = "answered"]
    /\ UNCHANGED <<now, until>>

Receive(w) ==
    /\ wallet[w].stage = "answered"
    /\ wallet' = [wallet EXCEPT ![w].stage = "holding", ![w].received = now]
    /\ UNCHANGED <<now, until, txUntil>>

Present(w) ==
    /\ wallet[w].stage = "holding"
    /\ wallet' = [wallet EXCEPT ![w].stage = "asked",
                                ![w].since = now,
                                ![w].presented = now]
    /\ UNCHANGED <<now, until, txUntil>>

Goto(w, stage) ==
    /\ wallet' = [wallet EXCEPT ![w].stage = stage]
    /\ UNCHANGED <<now, txUntil>>

\* GetItem or RedeemRefreshToken.  GetItem leaves the code in place, but the
\* wallet does not use it again, so here both take it.
Redeem(w) ==
    /\ wallet[w].stage = "asked"
    /\ wallet[w].credential \in {"code", "refresh"}
    /\ IF now < until[w]
       THEN Goto(w, "creating") /\ until' = [until EXCEPT ![w] = 0]
       ELSE Goto(w, "refused") /\ UNCHANGED until

\* HandlePreAuthorized up to the NoTXCode test.
GetPreAuthItem(w) ==
    /\ wallet[w].stage = "asked"
    /\ wallet[w].credential \in Offered
    /\ Goto(w, IF now >= until[w] THEN "refused"
               ELSE IF wallet[w].credential = "openOffer" THEN "creating"
               ELSE "validating")
    /\ UNCHANGED until

\* ValidateTXCode with the right tx_code.
ValidateTXCode(w) ==
    /\ wallet[w].stage = "validating"
    /\ Goto(w, IF now < txUntil[w] THEN "creating" ELSE "refused")
    /\ UNCHANGED until

\* Variant: the session keeps the LastAccessed of the stored template.
CreateSessionFromTemplate(w) ==
    /\ wallet[w].stage = "creating"
    /\ wallet' = [wallet EXCEPT ![w].stage = "issuing",
                     ![w].exp = IF @ = 0 THEN now + SessionTimeout ELSE @]
    /\ UNCHANGED <<now, until, txUntil>>

\* LastAccessed is set and the session created.
CreateSession(w) ==
    /\ wallet[w].stage = "creating"
    /\ wallet' = [wallet EXCEPT ![w].stage = "issuing", ![w].exp = now + SessionTimeout]
    /\ UNCHANGED <<now, until, txUntil>>

\* Variant: the rotated token keeps what was left to its predecessor.
IssueForRest(w) ==
    /\ wallet[w].stage = "issuing"
    /\ until' = [until EXCEPT ![w] = IF wallet[w].credential = "refresh"
                                     THEN wallet[w].stored + RefreshTokenTTL
                                     ELSE now + RefreshTokenTTL]
    /\ wallet' = [wallet EXCEPT ![w].stage = "answered",
                                ![w].credential = "refresh",
                                ![w].stored = now,
                                ![w].expiresIn = wallet[w].exp - now]
    /\ UNCHANGED <<now, txUntil>>

\* IssueRefreshToken and the answer, whose expires_in is what is left of the
\* session; offers, Bearer sessions and a failed Set leave the wallet without.
Issue(w) ==
    /\ wallet[w].stage = "issuing"
    /\ \/ /\ wallet[w].credential \notin Offered
          /\ until' = [until EXCEPT ![w] = now + RefreshTokenTTL]
          /\ wallet' = [wallet EXCEPT ![w].stage = "answered",
                                      ![w].credential = "refresh",
                                      ![w].stored = now,
                                      ![w].expiresIn = wallet[w].exp - now]
       \/ /\ wallet' = [wallet EXCEPT ![w].stage = "done"]
          /\ UNCHANGED until
    /\ UNCHANGED <<now, txUntil>>

Step(w) ==
    \/ Callback(w)
    \/ PreauthGenerate(w)
    \/ SetTXCode(w)
    \/ Receive(w)
    \/ Present(w)
    \/ Redeem(w)
    \/ GetPreAuthItem(w)
    \/ ValidateTXCode(w)
    \/ CreateSession(w)
    \/ Issue(w)

Next == Tick \/ \E w \in Wallets : Step(w)

Spec == Init /\ [][Next]_vars

-----------------------------------------------------------------------------
\* Type correctness of the clock, the two caches of an offer and the wallets.
TypeOK ==
    /\ now \in Nat
    /\ until \in [Wallets -> Nat]
    /\ txUntil \in [Wallets -> Nat]
    /\ wallet \in [Wallets -> Wallet]

\* How long a credential is good for: an offer with a tx_code is as long as both
\* of its parts are.
Life(credential) ==
    IF credential = "refresh" THEN RefreshTokenTTL
    ELSE IF credential = "offer" /\ PreAuthTTL < AuthCodeTTL THEN PreAuthTTL
    ELSE AuthCodeTTL

\* A wallet that asks soon enough is not refused: by its own clock it has the
\* TTL less one delay for each way.  So a refresh token that is used within
\* that time of the last answer never runs out, however long the chain of
\* rotations (config.go:23-27).
ActiveWalletContinues ==
    \A w \in Wallets :
       wallet[w].stage = "refused" =>
          wallet[w].presented + 2 * MaxDelay >= wallet[w].received + Life(wallet[w].credential)

\* Each answer comes with a session that still has its whole lifetime but for
\* the delay, and expires_in claims no more than is left when the answer was
\* made: the wallet is never wrong about its token by more than the delay
\* (token.go:200-202, 281-288, 339-342).
ExpiresInHonest ==
    \A w \in Wallets :
       wallet[w].stage = "holding" /\ wallet[w].credential = "refresh" =>
          /\ wallet[w].exp + MaxDelay >= wallet[w].received + SessionTimeout
          /\ wallet[w].received + wallet[w].expiresIn \in
                wallet[w].exp .. wallet[w].exp + MaxDelay
=============================================================================

# idauth in TLA+

A verification development of `digimaks/idauth`, the authorization server of the
digital wallet: TLA+ modules, TLC configurations, and proofs checked by TLAPS.

    tlc -config TokenEndpoint_overlap.cfg MCTokenEndpoint.tla
    tlapm TokenEndpointProofs.tla

## 1. The system

| Component (under `src/`) | State it keeps | Operations | Modelled in |
|---|---|---|---|
| token endpoint, code grant (`authorizationcode/token.go`) | none; uses the stores | `HandleAuthorization` | `TokenEndpoint` |
| refresh tokens (`token.go`, `store.go`) | `refreshTokenCache` | `HandleRefreshToken`, `IssueRefreshToken`, `RedeemRefreshToken` | `TokenEndpoint`, `RefreshRotation`, `Lifetimes` |
| pre-authorized grant (`token.go`, `routes/preauth.go`) | `authCodeCache`, `preAuthCache` | `preauthGenerate`, `HandlePreAuthorized` | `TokenEndpoint`, `Lifetimes` |
| session metadata (`token.go`, `authorization.go`) | maps in items, tokens, sessions | written by every grant | `SessionMetadata` |
| client credentials (`routes/token.go`) | `jti` cache | `handleClientCredentials` | `ReplayCheck` |
| DPoP (`dpop/`) and client attestation (`clientattestation/`) | one jti cache each | `Validate`, `Verify`, `ReplayCheck` | `ReplayCheck` |
| PAR, authorization endpoint (`routes/par.go`, `routes/authorization.go`) | `parCache` | `par`, `authorizationV3`, `authorizationV3FromPAR` | `LoginFlow` |
| login state (`authorizationcode/validation.go`, `authorization.go`) | `stateCache`, `authCodeCache` | `ValidateAndSaveState`, `PopState`, `Callback` | `LoginFlow`, `LoginToToken` |
| Smart-ID provider (`smartid/`) | one client and its timeout | `Login`, `Verified`, `Callback` | `SmartID`, `LoginFlow` |
| OAuth2 provider (`oauth2generic/`) | one `oauth2.Config` | `Authorize`, `Callback` | `OAuth2Generic`, `LoginFlow` |
| edim provider (`edim/`) | none | `Authorize`, `Callback`, `SameDeviceReturn` | `LoginFlow` |
| introspection (`routes/introspection.go`) | none | reads a session | `SessionMetadata` (in part) |
| registries, wiring, audit, error and metadata endpoints | read-only | | not modelled |

External: the azugo cache, the session store, correlation store and `/authorize`
dispatcher of lx-idauth, go-verifier, the Smart-ID service and its login page, the
IdPs. They are modelled from how `src/` uses them.

How the parts interact. A wallet may push its authorization request (`/par`), then
sends the browser to `/authorizationV3`, which redirects to `/authorize` of the
library. The provider's `Authorize` saves the request under the state parameter;
its callback pops it and stores an authorization code item, or, when there is
nothing to pop, creates an interactive session. The issuer stores offers
(pre-authorized codes) in the same cache of codes. `/api/1.0/token` turns codes,
offers, refresh tokens and assertions into sessions, whose IDs are the access
tokens. In front of the grants stand the proofs (DPoP, attestation PoP, assertion)
and their jti caches. `/introspection` tells of a session what the grants wrote.

What is hard. Every request is a goroutine; the mutex of `Store` covers one call, a
handler makes several. Store calls fail one at a time, with or without having taken
effect, and handlers treat failures differently (abort, log, ignore). Entries expire
under a running handler. Browsers repeat callbacks. Providers keep one client or
configuration for all requests, set before it is used. The process restarts while
users are elsewhere. What `Get` answers for a missing key is never stated and
different callers rely on different answers. `PROJECT.json` lists every hazard at
its line.

What makes the parts correct: a code is spent before it is answered and never comes
back, whatever its login repeats; a refresh token family is a single baton that keeps
its key, client and user, and lives as long as it is used in time; attested wallets
only get sessions bound to their key, their codes and their own logins; a grant
redeems only its own kind of code; a proof is not used twice while it is fresh, and an
honest one is never taken for a replay; a login and a pushed request yield one code,
for their own client; a browser is sent back with a code only over an item or an audited
session; who is logged in was confirmed; introspection names the key a token was
answered for; handlers end and codes retire.

## 2. Modules

| Module | What it is |
|---|---|
| `TokenEndpoint` | the three grants over the stores, one action per store call |
| `RefreshRotation` | abstract: a family of refresh tokens is a baton |
| `TokenEndpointRefinement` | `TokenEndpoint` implements `RefreshRotation`: the mapping |
| `TokenEndpointInv`, `TokenEndpointProofs` | its inductive invariant; the proofs, of the refinement too |
| `Lifetimes`, `LifetimesProofs` | TTLs of codes, offers, refresh tokens and sessions on a clock |
| `SessionMetadata`, `SessionMetadataProofs` | the metadata map, shared or copied by each store, up to `/introspection` |
| `ReplayCheck`, `ReplayCheckProofs` | proofs, jti caches and `client_credentials`, with a clock and restarts |
| `LoginFlow`, `LoginFlowInv`, `LoginFlowProofs` | PAR, authorization, callbacks, with repeated callbacks |
| `Deployment` | the clients and the flag for faults that the two share |
| `LoginToToken`, `LoginToTokenProofs` | `LoginFlow` and `TokenEndpoint` composed over one `Store` |
| `SmartID`, `SmartIDProofs` | the shared Smart-ID client under polls and callbacks |
| `OAuth2Generic`, `OAuth2GenericProofs` | the shared `RedirectURL`, word by word |
| `MC*` | values and symmetry for TLC |

**TokenEndpoint.** `pc[r]` is where the handler of request `r` is, named after the
store call it is about to make; `req[r]` is what the request presented and the
handler's locals (`item` is `tempData` or `item` of the code); the caches are functions
or sets. An action is the store call with all local code up to the next one. With
`Faults` a store call may fail without effect, or take effect and report an error, an
answer may be lost, and the process may crash. Fresh identifiers (`ulid.Make`,
`crypto/rand`) are the request's own name: session `r` is the one request `r` minted,
session `c` the interactive one whose ID equals code `c`. PKCE and `redirect_uri` are
one choice: "match" (the values the code was issued for), "empty", or "other". Which
DPoP keys, attestations and Basic clients are admitted are the two operators
`AttestationAdmits` and `BasicAdmits`. Audit failures of this handler are logged and
leave no trace in the model. `root` in requests and tokens is history.

**Lifetimes.** A wallet holds one credential at a time; `until` and `txUntil` are when
the caches drop it and its tx_code. The actions are the store calls of a redemption
that read or set a TTL, and the wallet's own steps. The clock waits for whoever has
been under way for `MaxDelay`, so the model says what a wallet may count on if
handlers and messages take no longer.

**SessionMetadata.** `heap` holds the maps, one made by each login and by each request;
an entry of a store is a reference to a map or a copy of it, and `byRef`, chosen at the
start, says which stores keep the map. So the properties hold however the cache and
the session store keep values, with the exception the property names.

**ReplayCheck.** `stage[r]` walks through the proofs a request presents: freshness, Get
of the jti, Set of the jti; `jtiCache` holds, per kind and jti, the time until which an
entry is found. The kinds differ in what a failed Get or Set does
(`router.go:73-84`, `dpop.go:122`, `attestation.go:242`, `routes/token.go:273-291`).
`Restart` ends the handlers and keeps or loses the caches, as `CACHE_TYPE`
(README.md:111) decides; `epoch` counts the losses. `accepted`, `prior` and `epoch` are
history. `MaxDelay` bounds the time between a proof's freshness check and the end of
its replay check: a scheduling assumption, which the code does not enforce; without
one no TTL is long enough.

**LoginFlow.** `login[l]` goes from a request to `/authorize` and to a provider;
`stateCache` holds, per state parameter, whose request was saved; `call[k]` is one
request to `/callback/{id}` or to the same-device return, as many per login as there
are calls. The three providers do the same store calls in the same order
(`PopState`, then `authorizationcode.Callback`, or session and audit), so one set of
actions stands for all; edim:same_device adds the verifier's one-time tx. Store calls
fail here as in `TokenEndpoint`, with or without effect. The last step of a call is
`Redirect`: the browser gets `code=` with the correlation's ID, or an error if
`ErrorCode` was set, whatever lies under that ID. `minted`, `created`, `audited` note
what the call left behind; `dropped` the logins whose saved request expired, was
overwritten, or was lost to a `Pop` that failed.

**LoginToToken.** It extends both modules, and their steps interleave; a callback's
`SetItem` and `CreateLoginSession` write the stores that the token endpoint reads, over
whatever is there, and a crash takes callbacks and token requests together. A code is
the login that minted it, as in the code, where it is the correlation's ID. To be
extended together, `LoginFlow` names what both would call Init, Next, Spec or Crash
after the login.

**SmartID.** `page[p]` is one login: its page and the handler that serves it. Setting
the client's timeout and calling the client are two steps, which other requests come
between. `session[s]` is what the service says of a session: running, confirmed, or one
of the ends that `FetchSession` has errors for, and `otherwise` for an end that
`Verified` does not list. `ReplyStatus` is that handler's switch. The page is not in the
repository: when it polls, whether it stops, and when the browser goes to the callback
is free. `calls` and `overtaken` are history.

**OAuth2Generic.** `text` and `length` are the two words of the Go string
`RedirectURL`; a write stores them one by one, in either order, because nothing locks
the configuration. `crossed` is history: logins overtaken by a write of another base
URL between their own write and their read.

Definitions whose comment begins with "Variant:" are plausible mistakes; `PROJECT.json`
pairs each property with the variant that breaks it.

## 3. Runs

| Run | Module, bounds | Shows |
|---|---|---|
| overlap | TokenEndpoint with fairness; 2 requests, 1 code, 1 offer, 1 client that must use DPoP, faults, crashes, key binding on | `PreAuthGrantRedeemsOffers`, `RequestsEnd`, `CodesRetire` |
| rotation | TokenEndpoint; 3 requests, 1 code, 2 keys, an attested and a Basic client, faults, crashes | `RefreshFamilyLinear`, `SenderConstrained`, `AttestedSessionBound`, `AnsweredCodeIsSpent`, `ImplementsRotation` |
| code_race | TokenEndpoint; 2 requests, no faults | violated: `CodeAnsweredOnce` |
| miss | TokenEndpoint; 1 request, Get of a missing key gives the zero value | violated: `AuthorizationRedeemsCodes` |
| replay | ReplayCheck; 2 requests, one jti in all three kinds, clock to 4, TTL 4, windows 1, faults, restarts, one loss of the caches | `DPoPProofsAreNotReplayed`, `ReplaysWaitForTTL`, `ReplayedWasAccepted` |
| assertion | ReplayCheck; 1 request | violated: `AssertionsExpireSoon` |
| logins | LoginFlow; 2 logins (one same-device), 2 calls, 1 push, 2 clients, faults | `SavedRequestSpentOnce`, `CodeOfItsLogin`, `RedirectBacksItsCode`, `PushMintsOneCode` |
| end_to_end | LoginToToken; 1 login, 1 push, 2 calls, 2 token requests, 2 clients, faults, crashes | `ImplementsTokenEndpoint`, `AttestedSessionFromOwnLogin`, `AttestedSessionOfOwnClient` |
| smartid_pages | SmartID; 2 pages, 2 sessions, faults, restarts | `OwnTimeoutUnlessOvertaken`, `InAsConfirmed` |
| oauth2_bases | OAuth2Generic; 3 logins, 2 base URLs of different length, restarts | `ForeignRedirectNeedsOverlap` |
| lifetimes | Lifetimes; 1 wallet, TTLs 3 (code), 4 (tx_code), 5 (refresh), delay 1, clock to 20 | `ActiveWalletContinues`, `ExpiresInHonest` |
| metadata | SessionMetadata; 2 logins (one with claims), 3 requests, 2 keys, every `byRef` | `ClaimsSurvive`, `IntrospectionNamesTheKey` |

Each module with a passing run has its type invariant checked, `LoginToToken` through
its parts. `CHECK_DEADLOCK FALSE` is set throughout: requests, logins, pages and codes
are finitely many, clocks are bounded, and the system stops when they are used up.

The bounds. Two requests are enough for an overlap of any two handlers on one code; a
family needs a redemption and two refreshes, so three requests, to fork. The offer is
left out of `rotation` and the second client and key out of `overlap`, where each
would only multiply the states; in `rotation` offers have no refresh tokens to offer.
In `replay` the clock reaches the TTL (4) after the first use and a proof is fresh for
2 * 1 around its `iat`, so all of early, late, fresh and forgotten occur, and
2 * 1 + 1 < 4 is the premise of the theorem; one loss of the caches comes before,
between or after two uses. Two calls for one login are a repeated callback; two logins
show that one's request does not serve the other, and race for one push. In
`end_to_end` a callback may be late, repeated or overlap the redemption and the refresh
that follows; the second client pushes the request, opens the login or redeems its
code. The same-device return and the race of two logins are left to `logins`, offers to
`overlap`. There TLC compares states without what a call that is past its store calls
keeps for the properties of `LoginFlow` (`View` in `MCLoginToToken`): no later step of
the stores and no property of that run reads it. Two pages are enough to overtake, and
to be shown the session of the other. Three logins under two base URLs: one is overtaken by the other
base, one by its own. In `lifetimes` three rotations fit under the clock of 20, each as
late as the TTL permits. Wallets do not meet in `Lifetimes`, so one is enough. The
theorems of section 5 remove the bounds. Symmetry is over requests, calls or
equal clients, in runs without liveness only; the refinement mapping chooses the
unique bearer of a family, which permuting requests respects.

Fairness. `overlap`: weak fairness of every running handler, because a goroutine whose
store call returns goes on, and of the expiry of codes, because their cache has a TTL.
Nothing is assumed of clients, pages, people (nobody has to log in or answer), the
Smart-ID service or restarts. Store calls are taken to return, by success or error.

## 4. Disagreements found

Shown by runs:

1. `code_race`: README.md:162 calls a minted code single-use; `HandleAuthorization`
   reads, mints and deletes in three calls, so two overlapping redemptions are both
   answered with a session. Validating and deleting a tx_code are two calls as well
   (`token.go:472, 479`), which the run does not show. Refresh tokens, states and pushed
   requests are popped and hold up.
2. `miss`: `GetItem` needs `Get` to report a missing key, the jti checks need it not to.
   With the zero value, a Basic client redeems a code that was never stored; with an
   error, DPoP and PoP jtis are never recorded. The flag `MissReturnsZero` is that
   choice: `TokenEndpoint` runs take the error (the only reading under which its
   grants are safe), `replay` takes the zero value (the only one under which replays
   of DPoP and PoP are noticed); each theorem says which it needs, most need neither.
   With the zero value the tx_code "0" would also match a missing entry (`store.go:202`).
3. `assertion`: the 5-minute cap on a client assertion's remaining life
   (`routes/token.go:257`) tests `err != nil` and never rejects anything.

Met while modelling, and left to the models' definitions:

4. README.md:151-152 gives the Smart-ID create and check requests a timeout each, but
   both set the timeout of one client (`smartid.go:170, 195`), and `Callback` (274) sets
   none. `OwnTimeoutUnlessOvertaken` is what holds: a foreign timeout needs an
   overtaking request.
5. README.md:163: `PRE_AUTH_TTL` is the cache duration of pre-authorized code items. It
   is that of the tx_code only; the item is stored for `IDAUTH_CODE_TTL` (`store.go:90`).
   `Life` in `Lifetimes` is the shorter of the two, so `ActiveWalletContinues` says what
   the code does, not what that line promises.
6. The length check of a typed person identifier (`smartid.go:157`) counts characters,
   spaces included, not digits; the answer to a refused one speaks of 11 digits (161).
7. `oauth2generic.go:27-29` says `extra_claims` holds the claims the field map does not
   cover; `mapClaims` passes all of them (`claims.go:37`).
8. The saved request is keyed by the client's state (`validation.go:83`), the code item
   by the correlation (`authorization.go:54`). If two logins have one state, a repeated
   callback of the first pops the request of the second and stores the first's code
   again, perhaps after it was redeemed: `AnsweredCodeIsSpent` fails of `LoginToToken`
   with two logins and one state. README.md:162 speaks of single-use codes without
   asking clients for fresh states. Section 5 says what holds all the same.
9. `edim.go:184-187` says that `sess.ID` becomes the code both in the item and in the
   final redirect. If the saved request was dropped, there is no item: the login creates
   a session under that ID, and the browser is redirected with it as a code that no token
   request can redeem. `RedirectBacksItsCode` says that a lost request, or one another
   call spent, is the only way there, and that the session is audited.
10. `Verified` (`smartid.go:199-229`) ends the poll at three errors and at maintenance.
    Any other final error is answered 204 like a session that still runs: a page in stage
    `waiting` over a session that ended `otherwise` is a state of `SmartID`.

## 5. Proofs

All theorems are `Spec => []P` or `Spec => Refined` for every value of the constants
that meets the named ASSUMEs (distinct names, types of flags and times).

* **TokenEndpointProofs**: `TypeCorrect`, `AnsweredCodesAreSpent`, `FamiliesAreLinear`,
  `FamiliesAreSenderConstrained`, `AttestedSessionsAreBound`, and, when a miss is
  reported, `PreAuthGrantKeepsToOffers`. The properties are not inductive: that a code
  never returns needs that only issued codes are stored and copied (`CodeInv`); that a
  family is linear needs that its tokens and refreshes go back to one answered
  redemption whose record no longer changes (`FamilyInv`); both need what each `pc`
  value says of the request (`LocalInv`). `Inv` conjoins them; `InvInductive` splits
  Next into one step per action and uses frame lemmas for the requests that stand still.
  `RotationInv` is the part of it that does not depend on codes being stored once, and
  what is said of families rests on that part alone.
  `TokensAreBatons`: under `RotationInv` at most one stored token or running refresh
  carries a family (`Carriers`), so the CHOOSE of the mapping names it; then each action
  maps to passing the baton on, losing it, or a stutter.
* **ReplayCheckProofs**: `ReplayTypes`, `ReplaysWait`, `NoFalseReplay`, and under
  2 * DPoPWindow + MaxDelay < JTITTL `DPoPUsedOnce`. The invariant says that an entry
  of the cache covers every acceptance recorded in its epoch for JTITTL, that a request
  that looked and saw nothing did so after all earlier entries had run out, and that a
  fresh proof was accepted near its `iat`; arithmetic does the rest. Once the caches
  are lost a replay does pass, and the properties say so.
* **LoginFlowProofs**: `LoginTypes`, `SavedRequestsSpentOnce`, `RedirectsBackTheirCodes`,
  and with distinct states `CodesOfTheirLogins`, `PushesMintOneCode`. `SavedInv` says a
  saved request was popped by nobody yet, which makes popping exclusive; `PushInv` the
  same for pushed requests. `OpenInv`: the request of an open login that asked for a code
  is still saved, or was dropped, or popped by some call; so a call that finds nothing has
  one of the excuses of `RedirectBacksItsCode`, and `CallInv` carries it to the redirect.
* **LoginToTokenProofs**. The composition implements `LoginFlow`
  (`ImplementsLoginFlow`), so the invariant and the theorems of that module are at hand;
  `GlueInv` says that only a callback that minted issues a code and that under a
  login's own ID lies no session but its own. Each step of the composition is then a
  step of `TokenEndpoint`, or leaves its stores alone, or is a callback that stores an
  item (`TokenStepOrStores`). With distinct states that callback is the first of its
  login to mint (`FirstMint`), so it too is a step of `TokenEndpoint`:
  `LoginsFeedTokens`, and with it every theorem of `TokenEndpointProofs`.
  Without that hypothesis a code may be stored again, which `RotationInv` and `CodeInv`
  survive (`StoresKeepRotation`); so `FamiliesSurviveSharedStates`,
  `OffersSurviveSharedStates` and `JointTokensAreBatons` hold whoever shares a state.
  `AttestedSessionsKeepClient` needs more than either module knows: that every
  item with a login's code, wherever it was copied to, is for the client that opened the
  login (`OwnItems`), because a login that was opened keeps its client. A handler's part
  in this is only to copy items (`HandlersCopyItems`), so it is proved once, for any set
  of items. That the login asked for a code, `AttestedSessionsFromOwnLogins`, needs
  distinct states again. `JointInv` conjoins it all.
* **SmartIDProofs**: `SmartIDTypes`, `OwnTimeouts`, `LoginsConfirmed`. `ArmedInv`: as long as a handler was not overtaken the client
  has its timeout; `OwnInv`: a page that waits has the session Login made for it.
* **OAuth2GenericProofs**: `RedirectTypes`, `OverlapsOnly`, and, if all browsers use one
  base URL, `OneBaseSuffices`: each login repeats its own URL through overlaps, torn
  writes and restarts. `Undisturbed` follows the two words for a login that nobody
  overtook.
* **LifetimesProofs**: `LifetimeTypes`, `ActiveWalletsContinue`, `ExpiresInIsHonest`, for all TTLs and delays. The invariant `Good` relates, per
  wallet, the times of storing, receiving and asking to what the caches keep.
* **SessionMetadataProofs**: `MetadataTypes`, `ClaimsReachIntrospection`,
  `IntrospectionIsHonest`, for every `byRef`. A map may have many holders: requests under
  way, stored tokens, sessions. `Linked` says of a holder which map it points to: one
  made by a request of its own login and key, or the login's own when the item was
  kept. So all holders of one map agree on the login, and on the key unless that code was
  redeemed twice (`OneKeyPerMap`); a step that writes its key into a map then writes
  what every holder expects (`KeyWritten`), and all other steps disturb none. The
  exception is exact: a second redemption ends the premise (`Single`) for good.

The Inv of each module was first checked by TLC. Every invariant of a passing run and
every refinement is stated by a theorem. Only model-checked: the liveness properties
`RequestsEnd` and `CodesRetire`, as liveness under fairness and ENABLED are out of the
prover's reach. `CodeAnsweredOnce`, `AuthorizationRedeemsCodes` and `AssertionsExpireSoon` are false of the code.

## 6. Assumptions and what is left out

* State parameters are distinct in `CodeOfItsLogin`, `PushMintsOneCode`,
  `ImplementsTokenEndpoint` and `AttestedSessionFromOwnLogin`; `SavedRequestSpentOnce`,
  `RedirectBacksItsCode`, `AttestedSessionOfOwnClient` and what is said of families do
  without.
* `IntrospectionNamesTheKey` excepts a code that was redeemed more than once under a kept
  map, by requests that overlap or after a `DeleteItem` that failed.
* `PushMintsOneCode` counts the requests that came through `/authorizationV3`; a browser
  that sends its redirect (`authorization.go:136`) again starts a login of its own.
* Two requests with one proof that overlap both pass the jti check (Get, then Set);
  the replay properties speak of requests that arrive after the first acceptance.
* Restart keeps the caches of codes, tokens and states (Redis) or is a crash followed
  by expiry; for the jti caches the loss is modelled.
* `TokenEndpoint` takes entries to expire at any time and `Lifetimes` takes no store
  call to fail except the one of a refresh token.
* A map write is atomic in `SessionMetadata`; that Go may stop the process at
  concurrent writes of one map is not modelled.
* The in-process cache stores asynchronously: a Get right after a Set may miss
  (`routes/introspection_dpop_test.go:19` is skipped for it). The models allow an entry to
  be gone at any time, which covers it, and promise nothing of it.
* A pre-authorized request that is turned down after its tx_code was deleted
  (`token.go:482`) leaves an offer nobody can redeem. It is in the model; no document
  promises otherwise.

Not modelled: the Smart-ID login page and how long it retries; parsing and verifying of JWTs, X.509 chains and attestations, PKCE
hashing, the checks of a typed identifier, the claim field map with its transforms and
the merge of claim names at `/introspection`, all pure functions that table tests
reach; the Basic authentication in front of `/introspection`; edim's `Verified`, which
only reads the verifier's status; session logout, scopes and formats, left out as
data; registries, wiring and configuration, which run before any request and appear
as CONSTANTS; audit, error and metadata endpoints, which format and write.

## 7. Plan

Done: the token endpoint, its refinement and its proofs; replay with restarts; the login
flow; the two composed, with and without distinct states; the providers' shared state;
lifetimes; session metadata and its proofs.

1. `Lifetimes` related to `TokenEndpoint` by a proof: forgetting the clock, its wallets'
   steps are steps of the grants.
2. Introspection and logout as readers and writers of the session store beside the
   rotation, once the library's session timeout is pinned down.

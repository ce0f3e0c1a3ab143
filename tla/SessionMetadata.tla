-------------------------- MODULE SessionMetadata --------------------------
(***************************************************************************)
(* Session.Metadata from the login to /introspection.                      *)
(*                                                                         *)
(* The metadata is a Go map: a struct copy of a Session shares it.  A      *)
(* callback puts the provider's unmapped claims into it, each grant writes *)
(* the key of its proof into the map of the item it got, and the session   *)
(* and the refresh token are stored with that same map.  Whether a store   *)
(* keeps the map itself or a serialised copy is up to the library: byRef   *)
(* is the set of the stores that keep the map, any of them.  A map write   *)
(* is atomic here; that Go may also stop the process at concurrent writes  *)
(* of one map is not modelled.                                             *)
(***************************************************************************)
CONSTANTS
    Codes,
    HasClaims,  \* logins whose provider returned unmapped claims
    Reqs,       \* token requests; also name the sessions and tokens they mint
    Keys,
    NoKey,
    Nil

ASSUME MetadataAssumption ==
    /\ HasClaims \subseteq Codes
    /\ Codes \cap Reqs = {}
    /\ NoKey \notin Keys
    /\ Nil \notin Codes \cup Reqs

VARIABLES
    byRef,
    heap,       \* the maps: one made by each login, one by each request
    items,      \* authCodeCache: code -> entry
    tokens,     \* refreshTokenCache: the request that issued it -> token
    sessions,   \* lx-idauth's sessions: login or request -> session
    reqs

vars == <<byRef, heap, items, tokens, sessions, reqs>>

Stores == {"items", "tokens", "sessions"}

Cells == Codes \cup Reqs

\* A map's two entries: of whose login extra_claims tells, and dpop_jkt.
Map == [extra : Codes \cup {Nil}, jkt : Keys \cup {NoKey}]

\* A nil map reads like an empty one.
NilMap == [extra |-> Nil, jkt |-> NoKey]

\* What a store keeps of the metadata: the map itself or a copy of it.
Entry == [in : BOOLEAN, ref : Cells \cup {Nil}, copy : Map]

Absent == [in |-> FALSE, ref |-> Nil, copy |-> NilMap]

Kept(store, cell) ==
    IF store \in byRef THEN [in |-> TRUE, ref |-> cell, copy |-> NilMap]
    ELSE [in |-> TRUE, ref |-> Nil, copy |-> heap[cell]]

Metadata(e) == IF e.ref = Nil THEN e.copy ELSE heap[e.ref]

\* key and code are history: the key the token was answered for and the login
\* it goes back to.
Session == [entry : Entry, key : Keys \cup {NoKey}, code : Codes \cup {Nil}]
NoSession == [entry |-> Absent, key |-> NoKey, code |-> Nil]

\* grant: "code" for both code grants.  cell: the map in tempData or item.
Request == [stage : {"idle", "got", "bound", "created", "spent", "done"},
            grant : {"none", "code", "refresh"},
            code  : Codes \cup {Nil},
            key   : Keys \cup {NoKey},
            cell  : Cells \cup {Nil}]

Init ==
    /\ byRef \in SUBSET Stores
    /\ heap = [x \in Cells |-> NilMap]
    /\ items = [c \in Codes |-> Absent]
    /\ tokens = [r \in Reqs |-> NoSession]
    /\ sessions = [x \in Cells |-> NoSession]
    /\ reqs = [r \in Reqs |-> [stage |-> "idle", grant |-> "none", code |-> Nil,
                               key |-> NoKey, cell |-> Nil]]

-----------------------------------------------------------------------------
\* The map of a new login; without claims authorizationcode.Callback leaves it nil.
ClaimsMap(c) == [extra |-> IF c \in HasClaims THEN c ELSE Nil, jkt |-> NoKey]

Fresh(c) ==
    /\ ~items[c].in
    /\ ~sessions[c].entry.in
    /\ \A r \in Reqs : reqs[r].code # c

\* authorizationcode.Callback, and preauthGenerate, whose items have no claims.
Callback(c) ==
    /\ Fresh(c)
    /\ heap' = [heap EXCEPT ![c] = ClaimsMap(c)]
    /\ items' = [items EXCEPT ![c] =
          IF c \in HasClaims /\ "items" \in byRef
          THEN [in |-> TRUE, ref |-> c, copy |-> NilMap]
          ELSE [in |-> TRUE, ref |-> Nil, copy |-> ClaimsMap(c)]]
    /\ UNCHANGED <<byRef, tokens, sessions, reqs>>

\* createSession of a login that asked for no code.
CreateInteractive(c) ==
    /\ Fresh(c)
    /\ heap' = [heap EXCEPT ![c] = ClaimsMap(c)]
    /\ sessions' = [sessions EXCEPT ![c] =
          [entry |-> IF "sessions" \in byRef
                     THEN [in |-> TRUE, ref |-> c, copy |-> NilMap]
                     ELSE [in |-> TRUE, ref |-> Nil, copy |-> ClaimsMap(c)],
           key   |-> NoKey,
           code  |-> c]]
    /\ UNCHANGED <<byRef, items, tokens, reqs>>

\* Request r goes on with the map of entry e; a copy becomes a map of its own.
Take(r, e, grant, code, key) ==
    /\ heap' = IF e.ref = Nil THEN [heap EXCEPT ![r] = e.copy] ELSE heap
    /\ reqs' = [reqs EXCEPT ![r] =
          [stage |-> "got", grant |-> grant, code |-> code, key |-> key,
           cell |-> IF e.ref = Nil THEN r ELSE e.ref]]

\* GetItem or GetPreAuthItem, with or without a proof of a key.
GetItem(r, c, k) ==
    /\ reqs[r].stage = "idle"
    /\ items[c].in
    /\ Take(r, items[c], "code", c, k)
    /\ UNCHANGED <<byRef, items, tokens, sessions>>

\* Variant: the key of the proof is not compared with the token's.
RedeemWithAnyKey(r, t, k) ==
    /\ reqs[r].stage = "idle"
    /\ tokens[t].entry.in
    /\ tokens' = [tokens EXCEPT ![t] = NoSession]
    /\ Take(r, tokens[t].entry, "refresh", tokens[t].code, k)
    /\ UNCHANGED <<byRef, items, sessions>>

\* RedeemRefreshToken, and the comparison of the keys.
Redeem(r, t, k) ==
    /\ reqs[r].stage = "idle"
    /\ tokens[t].entry.in
    /\ tokens' = [tokens EXCEPT ![t] = NoSession]
    /\ IF tokens[t].key = k
       THEN Take(r, tokens[t].entry, "refresh", tokens[t].code, k)
       ELSE /\ reqs' = [reqs EXCEPT ![r].stage = "done", ![r].grant = "refresh"]
            /\ UNCHANGED heap
    /\ UNCHANGED <<byRef, items, sessions>>

\* Variant: a refreshed session gets metadata of its own.
BindAfresh(r) ==
    /\ reqs[r].stage = "got"
    /\ heap' = IF reqs[r].key = NoKey THEN heap
               ELSE [heap EXCEPT ![r] = [extra |-> Nil, jkt |-> reqs[r].key]]
    /\ reqs' = [reqs EXCEPT ![r].stage = "bound",
                            ![r].cell = IF reqs[r].key = NoKey THEN @ ELSE r]
    /\ UNCHANGED <<byRef, items, tokens, sessions>>

\* Session.Metadata["dpop_jkt"] = jkt.
Bind(r) ==
    /\ reqs[r].stage = "got"
    /\ heap' = IF reqs[r].key = NoKey THEN heap
               ELSE [heap EXCEPT ![reqs[r].cell].jkt = reqs[r].key]
    /\ reqs' = [reqs EXCEPT ![r].stage = "bound"]
    /\ UNCHANGED <<byRef, items, tokens, sessions>>

\* Variant: session and code swapped.
CreateSwapped(r) ==
    /\ reqs[r].stage = "bound"
    /\ reqs' = [reqs EXCEPT ![r].stage = "created"]
    /\ sessions' = [sessions EXCEPT ![r] =
          [entry |-> Kept("sessions", reqs[r].cell), key |-> reqs[r].code, code |-> reqs[r].key]]
    /\ UNCHANGED <<byRef, heap, items, tokens>>

\* Session().Create, which may fail.
Create(r) ==
    /\ reqs[r].stage = "bound"
    /\ \/ /\ reqs' = [reqs EXCEPT ![r].stage = "created"]
          /\ sessions' = [sessions EXCEPT ![r] =
                [entry |-> Kept("sessions", reqs[r].cell),
                 key   |-> reqs[r].key,
                 code  |-> reqs[r].code]]
       \/ /\ reqs' = [reqs EXCEPT ![r].stage = "done"]
          /\ UNCHANGED sessions
    /\ UNCHANGED <<byRef, heap, items, tokens>>

\* DeleteItem; when it fails a code is answered with an error, and an offer
\* with its session, which is all of it.
DeleteItem(r) ==
    /\ reqs[r].stage = "created"
    /\ reqs[r].grant = "code"
    /\ \/ /\ items' = [items EXCEPT ![reqs[r].code] = Absent]
          /\ reqs' = [reqs EXCEPT ![r].stage = "spent"]
       \/ /\ reqs' = [reqs EXCEPT ![r].stage = "done"]
          /\ UNCHANGED items
    /\ UNCHANGED <<byRef, heap, tokens, sessions>>

\* IssueRefreshToken, when the session is bound to a key; it may fail, and the
\* pre-authorized grant issues none.
Issue(r) ==
    /\ \/ reqs[r].stage = "spent"
       \/ reqs[r].stage = "created" /\ reqs[r].grant = "refresh"
    /\ reqs' = [reqs EXCEPT ![r].stage = "done"]
    /\ \/ /\ reqs[r].key # NoKey
          /\ tokens' = [tokens EXCEPT ![r] =
                [entry |-> Kept("tokens", reqs[r].cell),
                 key   |-> reqs[r].key,
                 code  |-> reqs[r].code]]
       \/ UNCHANGED tokens
    /\ UNCHANGED <<byRef, heap, items, sessions>>

\* Logout or timeout.
EndSession(x) ==
    /\ sessions[x].entry.in
    /\ sessions' = [sessions EXCEPT ![x] = NoSession]
    /\ UNCHANGED <<byRef, heap, items, tokens, reqs>>

Next ==
    \/ \E c \in Codes : Callback(c) \/ CreateInteractive(c)
    \/ \E r \in Reqs, c \in Codes, k \in Keys \cup {NoKey} : GetItem(r, c, k)
    \/ \E r, t \in Reqs, k \in Keys : Redeem(r, t, k)
    \/ \E r \in Reqs : Bind(r) \/ Create(r) \/ DeleteItem(r) \/ Issue(r)
    \/ \E x \in Cells : EndSession(x)

Spec == Init /\ [][Next]_vars

-----------------------------------------------------------------------------
\* buildIntrospectionResponse of an active session.
Introspection(x) ==
    LET m == Metadata(sessions[x].entry)
    IN  [token_type |-> IF m.jkt = NoKey THEN "Bearer" ELSE "DPoP",
         cnf        |-> m.jkt,
         claims     |-> m.extra]

\* Type correctness of the maps, the stores that hold or point to them and the requests.
TypeOK ==
    /\ byRef \subseteq Stores
    /\ heap \in [Cells -> Map]
    /\ items \in [Codes -> Entry]
    /\ tokens \in [Reqs -> Session]
    /\ sessions \in [Cells -> Session]
    /\ reqs \in [Reqs -> Request]

\* Claims that no field took survive to /introspection, through the redemption
\* and any number of rotations, whatever the stores keep, and are never those
\* of another login (authorizationcode/authorization.go:18-23, introspection.go:119-132).
ClaimsSurvive ==
    \A x \in Cells :
       sessions[x].entry.in =>
          Introspection(x).claims =
             IF sessions[x].code \in HasClaims THEN sessions[x].code ELSE Nil

Redemptions(c) == {r \in Reqs : reqs[r].grant = "code" /\ reqs[r].code = c}
RedeemedOnce(c) == \A r, s \in Redemptions(c) : r = s

\* /introspection names the key a token was answered for, for as long as the
\* session lives, whatever later refreshes of its family write.  Only a code that is
\* redeemed more than once, by requests that overlap or after a DeleteItem that failed,
\* has two keys written to one map, and only when the cache keeps the map of the item
\* (token.go:208-214, 253, 339-348; introspection.go:138).
IntrospectionNamesTheKey ==
    \A x \in Cells :
       /\ sessions[x].entry.in
       /\ "items" \in byRef /\ sessions[x].code \in HasClaims => RedeemedOnce(sessions[x].code)
       => /\ Introspection(x).cnf = sessions[x].key
          /\ Introspection(x).token_type = "DPoP" <=> sessions[x].key # NoKey
=============================================================================

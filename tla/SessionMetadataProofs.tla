----------------------- MODULE SessionMetadataProofs -----------------------
(***************************************************************************)
(* Theorems about SessionMetadata, for any number of logins and requests   *)
(* and whichever stores keep the map.                                      *)
(*                                                                         *)
(* A holder of a map is a request that is under way, a stored token or a   *)
(* session of a request.  Holders of one map belong to one login and, if   *)
(* the code was redeemed once, to one key: Linked says so of each of them  *)
(* and the map it points to, and a step that writes the key of its own     *)
(* proof into a map writes what all other holders of that map expect.      *)
(***************************************************************************)
EXTENDS SessionMetadata, TLAPS

Expected(c) == IF c \in HasClaims THEN c ELSE Nil

\* Whether the requests for code c do not write one map with two keys.
Single(c) == "items" \in byRef /\ c \in HasClaims => RedeemedOnce(c)

\* Cell ref is a map of login c for key k: made by a request of that login and
\* key, or by the login itself when its item was kept.
Linked(ref, c, k) ==
    /\ ref \in Cells
    /\ c \in Codes
    /\ Redemptions(c) # {}
    /\ heap[ref].extra = Expected(c)
    /\ \/ /\ ref \in Reqs
          /\ reqs[ref].stage # "idle"
          /\ reqs[ref].code = c
          /\ reqs[ref].key = k
       \/ /\ ref = c
          /\ "items" \in byRef
          /\ c \in HasClaims
          /\ RedeemedOnce(c) => \A r \in Redemptions(c) : reqs[r].key = k

Bound(ref, c, k) == Linked(ref, c, k) /\ (Single(c) => heap[ref].jkt = k)

\* What is stored for login c and key k.
EntryGood(e, c, k) ==
    /\ c \in Codes
    /\ Redemptions(c) # {}
    /\ e.ref = Nil => e.copy.extra = Expected(c) /\ (Single(c) => e.copy.jkt = k)
    /\ e.ref # Nil => Bound(e.ref, c, k)

\* Nobody has used the code of login c.
Unused(c) == \A r \in Reqs : reqs[r].code # c

LoginInv(c) ==
    /\ ~ Unused(c) => Redemptions(c) # {}
    /\ Unused(c) => heap[c].jkt = NoKey

ItemInv(c) ==
    items[c].in =>
       /\ ~ sessions[c].entry.in
       /\ items[c].ref = Nil => items[c].copy = ClaimsMap(c)
       /\ items[c].ref # Nil =>
             /\ items[c].ref = c
             /\ "items" \in byRef
             /\ c \in HasClaims
             /\ heap[c].extra = c

\* The session of a login that asked for no code.
InteractiveInv(c) ==
    sessions[c].entry.in =>
       /\ Unused(c)
       /\ sessions[c].key = NoKey
       /\ sessions[c].code = c
       /\ sessions[c].entry.ref = Nil => sessions[c].entry.copy = ClaimsMap(c)
       /\ sessions[c].entry.ref # Nil =>
             sessions[c].entry.ref = c /\ heap[c].extra = Expected(c)

RequestInv(r) ==
    /\ reqs[r].stage = "idle" => reqs[r].grant = "none" /\ reqs[r].code = Nil
    /\ reqs[r].stage \in {"got", "bound", "created", "spent"} =>
          Linked(reqs[r].cell, reqs[r].code, reqs[r].key)
    /\ \/ reqs[r].stage \in {"bound", "created", "spent"}
       \/ reqs[r].stage = "got" /\ reqs[r].key = NoKey
       => Bound(reqs[r].cell, reqs[r].code, reqs[r].key)

TokenInv(t) ==
    tokens[t].entry.in => EntryGood(tokens[t].entry, tokens[t].code, tokens[t].key)

SessionInv(r) ==
    sessions[r].entry.in => EntryGood(sessions[r].entry, sessions[r].code, sessions[r].key)

Inv ==
    /\ TypeOK
    /\ \A c \in Codes : LoginInv(c) /\ ItemInv(c) /\ InteractiveInv(c)
    /\ \A r \in Reqs : RequestInv(r) /\ TokenInv(r) /\ SessionInv(r)

(***************************************************************************)
(* What the later steps of a request do not change.                        *)
(***************************************************************************)

\* Requests that began keep what they are, and so do the stores.
Grown ==
    /\ byRef' = byRef
    /\ \A q \in Reqs : reqs[q].stage # "idle" =>
          /\ reqs'[q].stage # "idle"
          /\ reqs'[q].grant = reqs[q].grant
          /\ reqs'[q].code = reqs[q].code
          /\ reqs'[q].key = reqs[q].key

\* No holder finds the map it points to changed.
Undisturbed ==
    \A ref, c, k : /\ Linked(ref, c, k) => Linked(ref, c, k)'
                   /\ Bound(ref, c, k) => Bound(ref, c, k)'

\* A code redeemed once so far has been redeemed by whoever redeemed it before.
LEMMA RedemptionsGrow ==
    ASSUME Inv, Grown, NEW c \in Codes
    PROVE  /\ Redemptions(c) \subseteq Redemptions(c)'
           /\ RedeemedOnce(c)' => RedeemedOnce(c)
           /\ RedeemedOnce(c)' /\ Redemptions(c) # {} => Redemptions(c)' = Redemptions(c)
           /\ Single(c)' => Single(c)
<1>1. Redemptions(c) \subseteq Redemptions(c)'
    BY DEF Redemptions, Grown, Inv, RequestInv
<1>2. RedeemedOnce(c)' => RedeemedOnce(c)
    BY <1>1 DEF RedeemedOnce
<1>3. RedeemedOnce(c)' /\ Redemptions(c) # {} => Redemptions(c)' = Redemptions(c)
    BY <1>1 DEF RedeemedOnce
<1>4. QED
    BY <1>1, <1>2, <1>3 DEF Single, Grown

\* A map whose claims stay is still its holder's.
LEMMA LinkStays ==
    ASSUME Inv, Grown, NEW ref, NEW c, NEW k, Linked(ref, c, k),
           heap'[ref].extra = heap[ref].extra
    PROVE  Linked(ref, c, k)'
<1>1. c \in Codes /\ Redemptions(c) # {}
    BY DEF Linked
<1>2. Redemptions(c)' # {}
    BY <1>1, RedemptionsGrow
<1>3. CASE ref \in Reqs /\ reqs[ref].stage # "idle" /\ reqs[ref].code = c /\ reqs[ref].key = k
    BY <1>1, <1>2, <1>3 DEF Linked, Grown, Expected
<1>4. CASE /\ ref = c /\ "items" \in byRef /\ c \in HasClaims
           /\ RedeemedOnce(c) => \A r \in Redemptions(c) : reqs[r].key = k
    <2>1. RedeemedOnce(c)' => \A r \in Redemptions(c)' : reqs'[r].key = k
        <3> SUFFICES ASSUME RedeemedOnce(c)', NEW r \in Redemptions(c)'
                     PROVE  reqs'[r].key = k
            OBVIOUS
        <3>1. r \in Redemptions(c) /\ RedeemedOnce(c)
            BY <1>1, RedemptionsGrow
        <3>2. reqs'[r].key = reqs[r].key
            BY <3>1 DEF Redemptions, Inv, RequestInv, Grown
        <3>3. QED
            BY <1>4, <3>1, <3>2
    <2>2. QED
        BY <1>1, <1>2, <1>4, <2>1 DEF Linked, Grown, Expected
<1>5. QED
    BY <1>3, <1>4 DEF Linked

\* Whoever writes key k into the map that k's request points to writes what
\* every holder of the map expects.
LEMMA OneKeyPerMap ==
    ASSUME Inv, NEW ref, NEW c, NEW k, NEW d, NEW j,
           Linked(ref, c, k), Linked(ref, d, j), Single(d)
    PROVE  j = k
<1>1. PICK r \in Redemptions(c) : TRUE
    BY DEF Linked
<1>2. CASE ref \in Reqs
    BY <1>2, MetadataAssumption DEF Linked
<1>3. CASE ref \notin Reqs
    BY <1>1, <1>3 DEF Linked, Single
<1>4. QED
    BY <1>2, <1>3

LEMMA KeyWritten ==
    ASSUME Inv, Grown, NEW ref, NEW c, NEW k, Linked(ref, c, k),
           heap' = [heap EXCEPT ![ref].jkt = k]
    PROVE  Undisturbed
<1> SUFFICES ASSUME NEW x, NEW d, NEW j, Linked(x, d, j)
             PROVE  Linked(x, d, j)' /\ (Bound(x, d, j) => Bound(x, d, j)')
    BY DEF Undisturbed, Bound
<1>1. x \in Cells /\ d \in Codes
    BY DEF Linked
<1>2. heap'[x].extra = heap[x].extra
    BY <1>1 DEF Inv, TypeOK, Map
<1>3. Linked(x, d, j)'
    BY <1>2, LinkStays
<1>4. ASSUME Bound(x, d, j), Single(d)' PROVE heap'[x].jkt = j
    <2>1. Single(d) /\ heap[x].jkt = j
        BY <1>1, <1>4, RedemptionsGrow DEF Bound
    <2>2. x = ref => j = k
        BY <2>1, OneKeyPerMap
    <2>3. QED
        BY <1>1, <2>1, <2>2 DEF Inv, TypeOK, Map
<1>5. QED
    BY <1>3, <1>4 DEF Bound

\* The same when no map that anybody holds is written.
LEMMA NothingWritten ==
    ASSUME Inv, Grown, \A ref, c, k : Linked(ref, c, k) => heap'[ref] = heap[ref]
    PROVE  Undisturbed
<1> SUFFICES ASSUME NEW x, NEW d, NEW j, Linked(x, d, j)
             PROVE  Linked(x, d, j)' /\ (Bound(x, d, j) => Bound(x, d, j)')
    BY DEF Undisturbed, Bound
<1>1. d \in Codes /\ heap'[x] = heap[x]
    BY DEF Linked
<1>2. Linked(x, d, j)'
    BY <1>1, LinkStays
<1>3. Single(d)' => Single(d)
    BY <1>1, RedemptionsGrow
<1>4. QED
    BY <1>1, <1>2, <1>3 DEF Bound

LEMMA EntryStays ==
    ASSUME Inv, Grown, Undisturbed, NEW e, NEW c, NEW k, EntryGood(e, c, k)
    PROVE  EntryGood(e, c, k)'
<1>1. c \in Codes /\ Redemptions(c) # {}
    BY DEF EntryGood
<1>2. Redemptions(c)' # {} /\ (Single(c)' => Single(c))
    BY <1>1, RedemptionsGrow
<1>3. QED
    BY <1>1, <1>2 DEF EntryGood, Undisturbed, Expected

\* Requests, tokens and sessions that a step leaves alone or removes.
LEMMA HoldersStay ==
    ASSUME Inv, Grown, Undisturbed, NEW r \in Reqs
    PROVE  /\ reqs'[r] = reqs[r] => RequestInv(r)'
           /\ tokens'[r] \in {tokens[r], NoSession} => TokenInv(r)'
           /\ sessions'[r] \in {sessions[r], NoSession} => SessionInv(r)'
<1>1. ASSUME reqs'[r] = reqs[r] PROVE RequestInv(r)'
    BY <1>1 DEF Inv, RequestInv, Undisturbed
<1>2. ASSUME tokens'[r] \in {tokens[r], NoSession} PROVE TokenInv(r)'
    BY <1>2, EntryStays DEF Inv, TokenInv, NoSession, Absent
<1>3. ASSUME sessions'[r] \in {sessions[r], NoSession} PROVE SessionInv(r)'
    BY <1>3, EntryStays DEF Inv, SessionInv, NoSession, Absent
<1>4. QED
    BY <1>1, <1>2, <1>3

\* Logins whose map a step leaves alone but for a key.
LEMMA LoginsStay ==
    ASSUME Inv, Grown, NEW c \in Codes,
           heap'[c].extra = heap[c].extra,
           items'[c] \in {items[c], Absent},
           sessions'[c] \in {sessions[c], NoSession}
    PROVE  /\ ItemInv(c)'
           /\ (sessions[c].entry.in => Unused(c)') => InteractiveInv(c)'
<1>1. ItemInv(c)'
    BY DEF Inv, ItemInv, Absent, NoSession, Grown, ClaimsMap
<1>2. ASSUME sessions[c].entry.in => Unused(c)' PROVE InteractiveInv(c)'
    BY <1>2 DEF Inv, InteractiveInv, Absent, NoSession, ClaimsMap, Expected
<1>3. QED
    BY <1>1, <1>2

(***************************************************************************)
(* Types.                                                                  *)
(***************************************************************************)

LEMMA ValueTypes ==
    /\ NilMap \in Map
    /\ Absent \in Entry
    /\ NoSession \in Session
    /\ \A c \in Codes : ClaimsMap(c) \in Map
BY DEF NilMap, Map, Absent, Entry, NoSession, Session, ClaimsMap

LEMMA KeptType == TypeOK => \A store : \A cell \in Cells : Kept(store, cell) \in Entry
BY ValueTypes DEF TypeOK, Kept, Entry

LEMMA TakeType ==
    ASSUME TypeOK, NEW r \in Reqs, NEW e \in Entry, NEW grant \in {"code", "refresh"},
           NEW c \in Codes \cup {Nil}, NEW k \in Keys \cup {NoKey}, Take(r, e, grant, c, k)
    PROVE  heap' \in [Cells -> Map] /\ reqs' \in [Reqs -> Request]
<1>1. heap' \in [Cells -> Map]
    BY DEF Take, TypeOK, Entry
<1>2. (IF e.ref = Nil THEN r ELSE e.ref) \in Cells
    BY DEF Entry, Cells
<1>3. [stage |-> "got", grant |-> grant, code |-> c, key |-> k,
       cell |-> IF e.ref = Nil THEN r ELSE e.ref] \in Request
    BY <1>2 DEF Request
<1>4. QED
    BY <1>1, <1>3 DEF Take, TypeOK

LEMMA TypeInit == Init => TypeOK
<1> SUFFICES ASSUME Init PROVE TypeOK
    OBVIOUS
<1>1. reqs \in [Reqs -> Request]
    BY DEF Init, Request
<1>2. QED
    BY <1>1, ValueTypes DEF Init, TypeOK

LEMMA TypeStep == Inv /\ [Next]_vars => TypeOK'
<1> SUFFICES ASSUME Inv, [Next]_vars PROVE TypeOK'
    OBVIOUS
<1> USE ValueTypes
<1>0. TypeOK
    BY DEF Inv
<1>1. ASSUME NEW c \in Codes, Callback(c) PROVE TypeOK'
    <2>1. items'[c] \in Entry /\ items' = [items EXCEPT ![c] = items'[c]]
        BY <1>0, <1>1 DEF Callback, TypeOK, Entry, Cells
    <2>2. heap' \in [Cells -> Map]
        BY <1>0, <1>1 DEF Callback, TypeOK, Cells
    <2>3. QED
        BY <1>0, <1>1, <2>1, <2>2 DEF Callback, TypeOK
<1>2. ASSUME NEW c \in Codes, CreateInteractive(c) PROVE TypeOK'
    <2>1. sessions'[c] \in Session /\ sessions' = [sessions EXCEPT ![c] = sessions'[c]]
        BY <1>0, <1>2 DEF CreateInteractive, TypeOK, Session, Entry, Cells
    <2>2. heap' \in [Cells -> Map]
        BY <1>0, <1>2 DEF CreateInteractive, TypeOK, Cells
    <2>3. QED
        BY <1>0, <1>2, <2>1, <2>2 DEF CreateInteractive, TypeOK
<1>3. ASSUME NEW r \in Reqs, NEW c \in Codes, NEW k \in Keys \cup {NoKey}, GetItem(r, c, k)
      PROVE  TypeOK'
    <2>1. items[c] \in Entry
        BY <1>0 DEF TypeOK
    <2>2. QED
        BY <1>0, <1>3, <2>1, TakeType DEF GetItem, TypeOK
<1>4. ASSUME NEW r \in Reqs, NEW t \in Reqs, NEW k \in Keys, Redeem(r, t, k)
      PROVE  TypeOK'
    <2>1. tokens[t].entry \in Entry /\ tokens[t].code \in Codes \cup {Nil}
        BY <1>0 DEF TypeOK, Session
    <2>2. tokens' \in [Reqs -> Session]
        BY <1>0, <1>4 DEF Redeem, TypeOK
    <2>3. CASE Take(r, tokens[t].entry, "refresh", tokens[t].code, k)
        BY <1>0, <1>4, <2>1, <2>2, <2>3, TakeType DEF Redeem, TypeOK
    <2>4. CASE reqs' = [reqs EXCEPT ![r].stage = "done", ![r].grant = "refresh"] /\ UNCHANGED heap
        <3>1. [reqs[r] EXCEPT !.stage = "done", !.grant = "refresh"] \in Request
            BY <1>0 DEF TypeOK, Request
        <3>2. reqs' = [reqs EXCEPT ![r] = [reqs[r] EXCEPT !.stage = "done", !.grant = "refresh"]]
            BY <2>4
        <3>3. reqs' \in [Reqs -> Request]
            BY <1>0, <3>1, <3>2 DEF TypeOK
        <3>4. QED
            BY <1>0, <1>4, <2>2, <2>4, <3>3 DEF Redeem, TypeOK
    <2>5. QED
        BY <1>4, <2>3, <2>4 DEF Redeem
<1>5. ASSUME NEW r \in Reqs, Bind(r) PROVE TypeOK'
    <2>1. reqs[r].key \in Keys \cup {NoKey}
        BY <1>0 DEF TypeOK, Request
    <2>2. heap' \in [Cells -> Map]
        BY <1>0, <1>5, <2>1 DEF Bind, TypeOK, Map
    <2>3. reqs' \in [Reqs -> Request]
        BY <1>0, <1>5 DEF Bind, TypeOK, Request
    <2>4. QED
        BY <1>0, <1>5, <2>2, <2>3 DEF Bind, TypeOK
<1>6. ASSUME NEW r \in Reqs, reqs[r].stage \in {"bound", "created", "spent"}, NEW store
      PROVE  [entry |-> Kept(store, reqs[r].cell), key |-> reqs[r].key,
              code |-> reqs[r].code] \in Session
    <2>1. reqs[r].cell \in Cells
        BY <1>6 DEF Inv, RequestInv, Linked
    <2>2. Kept(store, reqs[r].cell) \in Entry
        BY <1>0, <2>1, KeptType
    <2>3. QED
        BY <1>0, <2>2 DEF TypeOK, Request, Session
<1>7. ASSUME NEW r \in Reqs, Create(r) PROVE TypeOK'
    <2>1. reqs' \in [Reqs -> Request]
        BY <1>0, <1>7 DEF Create, TypeOK, Request
    <2>2. sessions' \in [Cells -> Session]
        BY <1>0, <1>6, <1>7 DEF Create, TypeOK, Cells
    <2>3. QED
        BY <1>0, <1>7, <2>1, <2>2 DEF Create, TypeOK
<1>8. ASSUME NEW r \in Reqs, DeleteItem(r) PROVE TypeOK'
    <2>1. reqs' \in [Reqs -> Request]
        BY <1>0, <1>8 DEF DeleteItem, TypeOK, Request
    <2>2. items' \in [Codes -> Entry]
        BY <1>0, <1>8 DEF DeleteItem, TypeOK
    <2>3. QED
        BY <1>0, <1>8, <2>1, <2>2 DEF DeleteItem, TypeOK
<1>9. ASSUME NEW r \in Reqs, Issue(r) PROVE TypeOK'
    <2>1. reqs' \in [Reqs -> Request]
        BY <1>0, <1>9 DEF Issue, TypeOK, Request
    <2>2. tokens' \in [Reqs -> Session]
        BY <1>0, <1>6, <1>9 DEF Issue, TypeOK
    <2>3. QED
        BY <1>0, <1>9, <2>1, <2>2 DEF Issue, TypeOK
<1>10. ASSUME NEW x \in Cells, EndSession(x) PROVE TypeOK'
    BY <1>0, <1>10 DEF EndSession, TypeOK
<1>11. CASE UNCHANGED vars
    BY <1>0, <1>11 DEF vars, TypeOK
<1>12. QED
    BY <1>1, <1>2, <1>3, <1>4, <1>5, <1>7, <1>8, <1>9, <1>10, <1>11 DEF Next

(***************************************************************************)
(* Logins.                                                                 *)
(***************************************************************************)

\* A new login writes a map that nobody else holds.
LEMMA FreshUnlinked ==
    ASSUME Inv, NEW c \in Codes, Fresh(c)
    PROVE  \A ref, d, k : Linked(ref, d, k) => ref # c
BY MetadataAssumption DEF Linked, Fresh, Redemptions

LEMMA LoginStep ==
    ASSUME Inv, NEW c \in Codes, Callback(c) \/ CreateInteractive(c), TypeOK'
    PROVE  Inv'
<1>1. /\ Fresh(c) /\ reqs' = reqs /\ tokens' = tokens /\ byRef' = byRef
      /\ heap' = [heap EXCEPT ![c] = ClaimsMap(c)]
    BY DEF Callback, CreateInteractive
<1>2. Grown
    BY <1>1 DEF Grown
<1>3. Undisturbed
    <2>1. \A ref, d, k : Linked(ref, d, k) => ref # c /\ ref \in Cells
        BY <1>1, FreshUnlinked DEF Linked
    <2>2. \A x \in Cells : x # c => heap'[x] = heap[x]
        BY <1>1 DEF Inv, TypeOK
    <2>3. QED
        BY <1>2, <2>1, <2>2, NothingWritten
<1>4. heap'[c] = ClaimsMap(c) /\ \A d \in Codes : d # c => heap'[d] = heap[d]
    BY <1>1 DEF Inv, TypeOK, Cells
<1>5. ASSUME NEW d \in Codes PROVE LoginInv(d)'
    BY <1>1, <1>4 DEF Inv, LoginInv, Unused, Redemptions, ClaimsMap
<1>6. ASSUME NEW d \in Codes, d # c PROVE ItemInv(d)' /\ InteractiveInv(d)'
    <2>1. items'[d] = items[d] /\ sessions'[d] = sessions[d]
        BY <1>6 DEF Callback, CreateInteractive, Inv, TypeOK, Cells
    <2>2. sessions[d].entry.in => Unused(d)'
        BY <1>1 DEF Inv, InteractiveInv, Unused
    <2>3. QED
        BY <1>2, <1>4, <1>6, <2>1, <2>2, LoginsStay
<1>7. ItemInv(c)' /\ InteractiveInv(c)'
    <2>1. CASE Callback(c)
        <3>1. ~ sessions'[c].entry.in
            BY <2>1 DEF Callback, Fresh
        <3>2. items'[c] = IF c \in HasClaims /\ "items" \in byRef
                          THEN [in |-> TRUE, ref |-> c, copy |-> NilMap]
                          ELSE [in |-> TRUE, ref |-> Nil, copy |-> ClaimsMap(c)]
            BY <2>1 DEF Callback, Inv, TypeOK
        <3>3. QED
            BY <1>1, <1>4, <3>1, <3>2, MetadataAssumption DEF ItemInv, InteractiveInv, ClaimsMap
    <2>2. CASE CreateInteractive(c)
        <3>1. ~ items'[c].in /\ Unused(c)'
            BY <1>1, <2>2 DEF CreateInteractive, Fresh, Unused
        <3>2. sessions'[c] = [entry |-> IF "sessions" \in byRef
                                        THEN [in |-> TRUE, ref |-> c, copy |-> NilMap]
                                        ELSE [in |-> TRUE, ref |-> Nil, copy |-> ClaimsMap(c)],
                              key |-> NoKey, code |-> c]
            BY <2>2 DEF CreateInteractive, Inv, TypeOK, Cells
        <3>3. QED
            BY <1>1, <1>4, <3>1, <3>2, MetadataAssumption
            DEF ItemInv, InteractiveInv, ClaimsMap, Expected
    <2>3. QED
        BY <2>1, <2>2
<1>8. ASSUME NEW r \in Reqs PROVE RequestInv(r)' /\ TokenInv(r)' /\ SessionInv(r)'
    <2>1. sessions'[r] = sessions[r]
        BY MetadataAssumption DEF Callback, CreateInteractive, Inv, TypeOK, Cells
    <2>2. QED
        BY <1>1, <1>2, <1>3, <2>1, HoldersStay
<1>9. QED
    BY <1>5, <1>6, <1>7, <1>8 DEF Inv

(***************************************************************************)
(* A request takes a map.                                                  *)
(***************************************************************************)

\* A request that was idle made no map that anybody holds.
LEMMA IdleUnlinked ==
    ASSUME Inv, NEW r \in Reqs, reqs[r].stage = "idle"
    PROVE  \A ref, c, k : Linked(ref, c, k) => ref # r
BY MetadataAssumption DEF Linked

\* Taking a map disturbs nobody; the rest of the state is up to the caller.
LEMMA TakeStays ==
    ASSUME Inv, NEW r \in Reqs, reqs[r].stage = "idle", byRef' = byRef,
           NEW e, NEW grant, NEW c, NEW k, Take(r, e, grant, c, k)
    PROVE  /\ Grown /\ Undisturbed
           /\ \A x \in Cells : x # r => heap'[x] = heap[x]
           /\ \A q \in Reqs \ {r} : reqs'[q] = reqs[q]
           /\ reqs'[r] = [stage |-> "got", grant |-> grant, code |-> c, key |-> k,
                          cell |-> IF e.ref = Nil THEN r ELSE e.ref]
           /\ e.ref = Nil => heap'[r] = e.copy
           /\ e.ref # Nil => heap' = heap
<1>1. /\ \A q \in Reqs \ {r} : reqs'[q] = reqs[q]
      /\ reqs'[r] = [stage |-> "got", grant |-> grant, code |-> c, key |-> k,
                     cell |-> IF e.ref = Nil THEN r ELSE e.ref]
    BY DEF Take, Inv, TypeOK
<1>2. Grown
    BY <1>1 DEF Grown
<1>3. /\ \A x \in Cells : x # r => heap'[x] = heap[x]
      /\ e.ref = Nil => heap'[r] = e.copy
      /\ e.ref # Nil => heap' = heap
    BY DEF Take, Inv, TypeOK, Cells
<1>4. \A ref, d, j : Linked(ref, d, j) => heap'[ref] = heap[ref]
    BY <1>3, IdleUnlinked DEF Linked
<1>5. Undisturbed
    BY <1>2, <1>4, NothingWritten
<1>6. QED
    BY <1>1, <1>2, <1>3, <1>5

LEMMA GetItemStep ==
    ASSUME Inv, NEW r \in Reqs, NEW c \in Codes, NEW k \in Keys \cup {NoKey},
           GetItem(r, c, k), TypeOK'
    PROVE  Inv'
<1>entry. PICK e : e = items[c]
    OBVIOUS
<1>1. /\ reqs[r].stage = "idle" /\ e.in /\ Take(r, e, "code", c, k)
      /\ byRef' = byRef /\ items' = items /\ tokens' = tokens /\ sessions' = sessions
    BY <1>entry DEF GetItem
<1>2. /\ Grown /\ Undisturbed
      /\ \A x \in Cells : x # r => heap'[x] = heap[x]
      /\ \A q \in Reqs \ {r} : reqs'[q] = reqs[q]
      /\ reqs'[r] = [stage |-> "got", grant |-> "code", code |-> c, key |-> k,
                     cell |-> IF e.ref = Nil THEN r ELSE e.ref]
      /\ e.ref = Nil => heap'[r] = e.copy
      /\ e.ref # Nil => heap' = heap
    BY <1>1, TakeStays
<1>3. \A d \in Codes : heap'[d] = heap[d]
    BY <1>2, MetadataAssumption DEF Cells
<1>4. /\ r \in Redemptions(c)' /\ Redemptions(c)' \subseteq Redemptions(c) \cup {r}
      /\ r \notin Redemptions(c)
      /\ ~ Unused(c)'
      /\ \A d \in Codes : d # c => Redemptions(d)' = Redemptions(d) /\ (Unused(d)' <=> Unused(d))
    <2>1. reqs[r].code = Nil /\ reqs[r].grant = "none"
        BY <1>1 DEF Inv, RequestInv
    <2>2. QED
        BY <1>2, <2>1, MetadataAssumption DEF Redemptions, Unused
<1>5. ASSUME NEW d \in Codes PROVE LoginInv(d)'
    <2>1. LoginInv(d)
        BY DEF Inv
    <2>2. QED
        BY <1>3, <1>4, <2>1 DEF LoginInv
<1>6. ASSUME NEW d \in Codes PROVE ItemInv(d)' /\ InteractiveInv(d)'
    <2>1. sessions[d].entry.in => Unused(d)'
        BY <1>1, <1>4, <1>entry DEF Inv, ItemInv, InteractiveInv
    <2>2. QED
        BY <1>1, <1>2, <1>3, <2>1, LoginsStay
<1>0. PICK cell : cell = IF e.ref = Nil THEN r ELSE e.ref
    OBVIOUS
<1>7. /\ e.ref = Nil => e.copy = ClaimsMap(c)
      /\ e.ref # Nil => e.ref = c /\ "items" \in byRef /\ c \in HasClaims /\ heap[c].extra = c
    BY <1>1, <1>entry DEF Inv, ItemInv
<1>8. Linked(cell, c, k)'
    <2>1. CASE e.ref = Nil
        <3>1. heap'[r].extra = Expected(c)
            BY <1>2, <1>7, <2>1 DEF ClaimsMap, Expected
        <3>2. r \in Reqs /\ reqs'[r].stage # "idle" /\ reqs'[r].code = c /\ reqs'[r].key = k
            BY <1>2
        <3>3. Linked(r, c, k)'
            BY <1>4, <3>1, <3>2 DEF Linked, Expected, Cells
        <3>4. QED
            BY <1>0, <2>1, <3>3
    <2>2. CASE e.ref # Nil
        <3>1. /\ e.ref = c /\ "items" \in byRef' /\ c \in HasClaims
              /\ heap'[c].extra = Expected(c)
            BY <1>1, <1>2, <1>7, <2>2 DEF Expected
        <3>2. RedeemedOnce(c)' => \A q \in Redemptions(c)' : reqs'[q].key = k
            BY <1>2, <1>4 DEF RedeemedOnce
        <3>3. Linked(c, c, k)'
            BY <1>4, <3>1, <3>2 DEF Linked, Expected, Cells
        <3>4. QED
            BY <1>0, <2>2, <3>1, <3>3
    <2>3. QED
        BY <2>1, <2>2
<1>9. ASSUME k = NoKey, Single(c)' PROVE heap'[cell].jkt = k
    <2>1. CASE e.ref = Nil
        BY <1>0, <1>2, <1>7, <1>9, <2>1 DEF ClaimsMap
    <2>2. CASE e.ref # Nil
        <3>1. Redemptions(c) = {}
            BY <1>1, <1>2, <1>4, <1>7, <1>9, <2>2, RedemptionsGrow DEF Single
        <3>2. heap[c].jkt = NoKey
            BY <3>1 DEF Inv, LoginInv
        <3>3. QED
            BY <1>0, <1>3, <1>7, <1>9, <2>2, <3>2
    <2>3. QED
        BY <2>1, <2>2
<1>10. RequestInv(r)'
    <2>1. k = NoKey => Bound(cell, c, k)'
        BY <1>8, <1>9 DEF Bound
    <2>2. reqs'[r].stage = "got" /\ reqs'[r].code = c /\ reqs'[r].key = k /\ reqs'[r].cell = cell
        BY <1>0, <1>2
    <2>3. QED
        BY <1>8, <2>1, <2>2 DEF RequestInv
<1>11. ASSUME NEW q \in Reqs PROVE RequestInv(q)' /\ TokenInv(q)' /\ SessionInv(q)'
    BY <1>1, <1>2, <1>10, HoldersStay
<1>12. QED
    BY <1>5, <1>6, <1>11 DEF Inv

LEMMA RedeemStep ==
    ASSUME Inv, NEW r \in Reqs, NEW t \in Reqs, NEW k \in Keys, Redeem(r, t, k), TypeOK'
    PROVE  Inv'
<1>1. /\ reqs[r].stage = "idle" /\ tokens[t].entry.in
      /\ byRef' = byRef /\ items' = items /\ sessions' = sessions
      /\ tokens' = [tokens EXCEPT ![t] = NoSession]
      /\ reqs[r].code = Nil /\ reqs[r].grant = "none"
    BY DEF Redeem, Inv, RequestInv
<1>2. \A q \in Reqs : tokens'[q] \in {tokens[q], NoSession}
    BY <1>1 DEF Inv, TypeOK
<1>entry. PICK e, c : e = tokens[t].entry /\ c = tokens[t].code
    OBVIOUS
<1>3. CASE tokens[t].key = k /\ Take(r, e, "refresh", c, k)
    <2>1. /\ Grown /\ Undisturbed
          /\ \A x \in Cells : x # r => heap'[x] = heap[x]
          /\ \A q \in Reqs \ {r} : reqs'[q] = reqs[q]
          /\ reqs'[r] = [stage |-> "got", grant |-> "refresh", code |-> c, key |-> k,
                         cell |-> IF e.ref = Nil THEN r ELSE e.ref]
          /\ e.ref = Nil => heap'[r] = e.copy
          /\ e.ref # Nil => heap' = heap
        BY <1>1, <1>3, TakeStays
    <2>2. \A d \in Codes : heap'[d] = heap[d]
        BY <2>1, MetadataAssumption DEF Cells
    <2>3. c \in Codes /\ Redemptions(c) # {} /\ EntryGood(e, c, k) /\ ~ Unused(c)
        BY <1>1, <1>3, <1>entry DEF Inv, TokenInv, EntryGood, Redemptions, Unused
    <2>4. /\ \A d \in Codes : Redemptions(d)' = Redemptions(d)
          /\ \A d \in Codes : Unused(d)' <=> Unused(d)
        BY <1>1, <2>1, <2>3, MetadataAssumption DEF Redemptions, Unused
    <2>5. ASSUME NEW d \in Codes PROVE LoginInv(d)'
        <3>1. LoginInv(d)
            BY DEF Inv
        <3>2. QED
            BY <2>2, <2>4, <3>1 DEF LoginInv
    <2>6. ASSUME NEW d \in Codes PROVE ItemInv(d)' /\ InteractiveInv(d)'
        <3>1. sessions[d].entry.in => Unused(d)'
            BY <2>4 DEF Inv, InteractiveInv
        <3>2. QED
            BY <1>1, <2>1, <2>2, <3>1, LoginsStay
    <2>0. PICK cell : cell = IF e.ref = Nil THEN r ELSE e.ref
        OBVIOUS
    <2>7. Linked(cell, c, k)'
        <3>1. CASE e.ref = Nil
            <4>1. heap'[r].extra = Expected(c)
                BY <2>1, <2>3, <3>1 DEF EntryGood
            <4>2. r \in Reqs /\ reqs'[r].stage # "idle" /\ reqs'[r].code = c /\ reqs'[r].key = k
                BY <2>1
            <4>3. Linked(r, c, k)'
                BY <2>3, <2>4, <4>1, <4>2 DEF Linked, Expected, Cells
            <4>4. QED
                BY <2>0, <3>1, <4>3
        <3>2. CASE e.ref # Nil
            BY <2>0, <2>1, <2>3, <3>2 DEF EntryGood, Bound, Undisturbed
        <3>3. QED
            BY <3>1, <3>2
    <2>8. RequestInv(r)'
        <3>1. /\ reqs'[r].stage = "got" /\ reqs'[r].code = c /\ reqs'[r].key = k
              /\ reqs'[r].cell = cell /\ k # NoKey
            BY <2>0, <2>1, MetadataAssumption
        <3>2. QED
            BY <2>7, <3>1 DEF RequestInv
    <2>9. ASSUME NEW q \in Reqs PROVE RequestInv(q)' /\ TokenInv(q)' /\ SessionInv(q)'
        BY <1>1, <1>2, <2>1, <2>8, HoldersStay
    <2>10. QED
        BY <2>5, <2>6, <2>9 DEF Inv
<1>4. CASE /\ reqs' = [reqs EXCEPT ![r].stage = "done", ![r].grant = "refresh"]
           /\ UNCHANGED heap
    <2>1. /\ \A q \in Reqs \ {r} : reqs'[q] = reqs[q]
          /\ reqs'[r].stage = "done" /\ reqs'[r].code = Nil /\ reqs'[r].grant = "refresh"
        BY <1>1, <1>4 DEF Inv, TypeOK, Request
    <2>2. Grown
        BY <1>1, <2>1 DEF Grown
    <2>3. Undisturbed
        BY <1>4, <2>2, NothingWritten
    <2>4. \A d \in Codes : Redemptions(d)' = Redemptions(d) /\ (Unused(d)' <=> Unused(d))
        BY <1>1, <2>1, MetadataAssumption DEF Redemptions, Unused
    <2>5. ASSUME NEW d \in Codes PROVE LoginInv(d)' /\ ItemInv(d)' /\ InteractiveInv(d)'
        <3>1. LoginInv(d) /\ (sessions[d].entry.in => Unused(d)')
            BY <2>4 DEF Inv, InteractiveInv
        <3>2. LoginInv(d)'
            BY <1>4, <2>4, <3>1 DEF LoginInv
        <3>3. QED
            BY <1>1, <1>4, <2>2, <3>1, <3>2, LoginsStay
    <2>6. RequestInv(r)'
        BY <2>1 DEF RequestInv
    <2>7. ASSUME NEW q \in Reqs PROVE RequestInv(q)' /\ TokenInv(q)' /\ SessionInv(q)'
        BY <1>1, <1>2, <2>1, <2>2, <2>3, <2>6, HoldersStay
    <2>8. QED
        BY <2>5, <2>7 DEF Inv
<1>5. QED
    BY <1>3, <1>4, <1>entry DEF Redeem

(***************************************************************************)
(* The steps that follow.                                                  *)
(***************************************************************************)

\* A running request goes on: it keeps grant, code, key and map.
Advances(r) ==
    /\ reqs[r].stage # "idle"
    /\ reqs'[r].stage \in {"bound", "created", "spent", "done"}
    /\ reqs'[r].grant = reqs[r].grant
    /\ reqs'[r].code = reqs[r].code
    /\ reqs'[r].key = reqs[r].key
    /\ reqs'[r].cell = reqs[r].cell
    /\ \A q \in Reqs \ {r} : reqs'[q] = reqs[q]

LEMMA AdvanceGrows ==
    ASSUME NEW r \in Reqs, Advances(r), byRef' = byRef
    PROVE  /\ Grown
           /\ \A c : Redemptions(c)' = Redemptions(c) /\ (Unused(c)' <=> Unused(c))
<1>1. \A q \in Reqs : reqs'[q].code = reqs[q].code /\ reqs'[q].grant = reqs[q].grant
    BY DEF Advances
<1>2. Grown
    BY DEF Advances, Grown
<1>3. QED
    BY <1>1, <1>2 DEF Redemptions, Unused

\* Stage and nothing else of a request changes.
LEMMA OnlyStage ==
    ASSUME TypeOK, NEW r \in Reqs, NEW s, reqs' = [reqs EXCEPT ![r].stage = s],
           reqs[r].stage # "idle", s \in {"bound", "created", "spent", "done"}
    PROVE  Advances(r) /\ reqs'[r].stage = s
BY DEF TypeOK, Request, Advances

\* What such a step has to show for each login, request, token and session.
LEMMA AdvanceStep ==
    ASSUME Inv, TypeOK', NEW r \in Reqs, Advances(r), byRef' = byRef, Undisturbed,
           \A cell, c, k : /\ cell = reqs[r].cell
                           /\ c = reqs[r].code
                           /\ k = reqs[r].key
                           => Bound(cell, c, k)',
           \A c \in Codes : heap'[c].extra = heap[c].extra,
           \A c \in Codes : Unused(c) => heap'[c].jkt = heap[c].jkt,
           \A c \in Codes : items'[c] \in {items[c], Absent},
           \A c \in Codes : sessions'[c] \in {sessions[c], NoSession},
           \A q \in Reqs : TokenInv(q)' /\ SessionInv(q)'
    PROVE  Inv'
<1>1. /\ Grown
      /\ \A c : Redemptions(c)' = Redemptions(c) /\ (Unused(c)' <=> Unused(c))
    BY AdvanceGrows
<1>2. ASSUME NEW c \in Codes PROVE LoginInv(c)' /\ ItemInv(c)' /\ InteractiveInv(c)'
    <2>1. LoginInv(c) /\ (sessions[c].entry.in => Unused(c)')
        BY <1>1 DEF Inv, InteractiveInv
    <2>2. LoginInv(c)'
        BY <1>1, <2>1 DEF LoginInv
    <2>3. QED
        BY <1>1, <2>1, <2>2, LoginsStay
<1>3. PICK cell, c, k : cell = reqs[r].cell /\ c = reqs[r].code /\ k = reqs[r].key
    OBVIOUS
<1>4. RequestInv(r)'
    <2>1. Bound(cell, c, k)'
        BY <1>3
    <2>2. /\ reqs'[r].cell = cell /\ reqs'[r].code = c /\ reqs'[r].key = k
          /\ reqs'[r].stage \in {"bound", "created", "spent", "done"}
        BY <1>3 DEF Advances
    <2>3. QED
        BY <2>1, <2>2 DEF RequestInv, Bound
<1>5. ASSUME NEW q \in Reqs PROVE RequestInv(q)'
    BY <1>1, <1>4, HoldersStay DEF Advances
<1>6. QED
    BY <1>2, <1>5 DEF Inv

\* The map a request goes on with is bound to its key from Bind on.
LEMMA StillBound ==
    ASSUME Inv, Undisturbed, NEW r \in Reqs, reqs[r].stage \in {"bound", "created", "spent"}
    PROVE  \A cell, c, k : /\ cell = reqs[r].cell
                           /\ c = reqs[r].code
                           /\ k = reqs[r].key
                           => Bound(cell, c, k) /\ Bound(cell, c, k)'
BY DEF Inv, RequestInv, Undisturbed

LEMMA BindStep ==
    ASSUME Inv, NEW r \in Reqs, Bind(r), TypeOK'
    PROVE  Inv'
<1>1. /\ reqs[r].stage = "got" /\ byRef' = byRef /\ items' = items /\ tokens' = tokens
      /\ sessions' = sessions /\ reqs' = [reqs EXCEPT ![r].stage = "bound"]
    BY DEF Bind
<1>2. TypeOK /\ Advances(r)
    BY <1>1, OnlyStage DEF Inv
<1>3. Grown
    BY <1>1, <1>2, AdvanceGrows
<1>4. PICK cell, c, k : cell = reqs[r].cell /\ c = reqs[r].code /\ k = reqs[r].key
    OBVIOUS
<1>5. Linked(cell, c, k) /\ (k = NoKey => Bound(cell, c, k))
    BY <1>1, <1>4 DEF Inv, RequestInv
<1>6. heap' = IF k = NoKey THEN heap ELSE [heap EXCEPT ![cell].jkt = k]
    BY <1>4 DEF Bind
<1>7. Undisturbed
    BY <1>3, <1>5, <1>6, KeyWritten, NothingWritten
<1>8. Bound(cell, c, k)'
    <2>1. k # NoKey => heap'[cell].jkt = k
        BY <1>2, <1>5, <1>6 DEF TypeOK, Map, Linked
    <2>2. QED
        BY <1>5, <1>7, <2>1 DEF Undisturbed, Bound
<1>9. ASSUME NEW d \in Codes
      PROVE  heap'[d].extra = heap[d].extra /\ (Unused(d) => heap'[d].jkt = heap[d].jkt)
    <2>1. heap'[d].extra = heap[d].extra
        BY <1>2, <1>6 DEF TypeOK, Map, Cells
    <2>2. Unused(d) => d # cell
        BY <1>4, <1>5, MetadataAssumption DEF Unused, Linked
    <2>3. d # cell => heap'[d] = heap[d]
        BY <1>2, <1>6 DEF TypeOK, Cells
    <2>4. QED
        BY <2>1, <2>2, <2>3
<1>10. \A q \in Reqs : TokenInv(q)' /\ SessionInv(q)'
    BY <1>1, <1>3, <1>7, HoldersStay
<1>11. QED
    BY <1>1, <1>2, <1>4, <1>7, <1>8, <1>9, <1>10, AdvanceStep

\* What a store keeps of the map of a bound request.
LEMMA KeptGood ==
    ASSUME Inv, NEW store, NEW r \in Reqs, reqs[r].stage \in {"bound", "created", "spent"}
    PROVE  EntryGood(Kept(store, reqs[r].cell), reqs[r].code, reqs[r].key)
<1>1. Bound(reqs[r].cell, reqs[r].code, reqs[r].key)
    BY DEF Inv, RequestInv
<1>2. reqs[r].cell # Nil
    BY <1>1, MetadataAssumption DEF Bound, Linked, Cells
<1>3. QED
    BY <1>1, <1>2 DEF EntryGood, Kept, Bound, Linked

LEMMA CreateStep ==
    ASSUME Inv, NEW r \in Reqs, Create(r), TypeOK'
    PROVE  Inv'
<1>1. /\ reqs[r].stage = "bound" /\ byRef' = byRef /\ items' = items /\ tokens' = tokens
      /\ heap' = heap
      /\ \E s \in {"created", "done"} : reqs' = [reqs EXCEPT ![r].stage = s]
    BY DEF Create
<1>2. TypeOK /\ Advances(r)
    BY <1>1, OnlyStage DEF Inv
<1>3. Grown
    BY <1>1, <1>2, AdvanceGrows
<1>4. Undisturbed
    BY <1>1, <1>3, NothingWritten
<1>5. PICK e, c, k : e = Kept("sessions", reqs[r].cell) /\ c = reqs[r].code /\ k = reqs[r].key
    OBVIOUS
<1>6. EntryGood(e, c, k)'
    BY <1>1, <1>3, <1>4, <1>5, KeptGood, EntryStays
<1>7. \/ sessions' = [sessions EXCEPT ![r] = [entry |-> e, key |-> k, code |-> c]]
      \/ sessions' = sessions
    BY <1>5 DEF Create
<1>8. \A q \in Reqs : TokenInv(q)' /\ SessionInv(q)'
    <2>1. SessionInv(r)'
        BY <1>2, <1>3, <1>4, <1>6, <1>7, HoldersStay DEF SessionInv, TypeOK, Cells
    <2>2. \A q \in Reqs \ {r} : sessions'[q] = sessions[q]
        BY <1>2, <1>7 DEF TypeOK, Cells
    <2>3. QED
        BY <1>1, <1>3, <1>4, <2>1, <2>2, HoldersStay
<1>9. \A d \in Codes : sessions'[d] = sessions[d]
    BY <1>2, <1>7, MetadataAssumption DEF TypeOK, Cells
<1>10. QED
    BY <1>1, <1>2, <1>4, <1>8, <1>9, StillBound, AdvanceStep

LEMMA DeleteItemStep ==
    ASSUME Inv, NEW r \in Reqs, DeleteItem(r), TypeOK'
    PROVE  Inv'
<1>1. /\ reqs[r].stage = "created" /\ byRef' = byRef /\ sessions' = sessions
      /\ tokens' = tokens /\ heap' = heap
      /\ \E s \in {"spent", "done"} : reqs' = [reqs EXCEPT ![r].stage = s]
    BY DEF DeleteItem
<1>2. TypeOK /\ Advances(r)
    BY <1>1, OnlyStage DEF Inv
<1>3. Grown
    BY <1>1, <1>2, AdvanceGrows
<1>4. Undisturbed
    BY <1>1, <1>3, NothingWritten
<1>5. \A d \in Codes : items'[d] \in {items[d], Absent}
    BY <1>2 DEF DeleteItem, TypeOK
<1>6. \A q \in Reqs : TokenInv(q)' /\ SessionInv(q)'
    BY <1>1, <1>3, <1>4, HoldersStay
<1>7. QED
    BY <1>1, <1>2, <1>4, <1>5, <1>6, StillBound, AdvanceStep

LEMMA IssueStep ==
    ASSUME Inv, NEW r \in Reqs, Issue(r), TypeOK'
    PROVE  Inv'
<1>1. /\ reqs[r].stage \in {"created", "spent"} /\ byRef' = byRef /\ items' = items
      /\ sessions' = sessions /\ heap' = heap
      /\ reqs' = [reqs EXCEPT ![r].stage = "done"]
    BY DEF Issue
<1>2. TypeOK /\ Advances(r)
    BY <1>1, OnlyStage DEF Inv
<1>3. Grown
    BY <1>1, <1>2, AdvanceGrows
<1>4. Undisturbed
    BY <1>1, <1>3, NothingWritten
<1>5. PICK e, c, k : e = Kept("tokens", reqs[r].cell) /\ c = reqs[r].code /\ k = reqs[r].key
    OBVIOUS
<1>6. EntryGood(e, c, k)'
    BY <1>1, <1>3, <1>4, <1>5, KeptGood, EntryStays
<1>7. \/ tokens' = [tokens EXCEPT ![r] = [entry |-> e, key |-> k, code |-> c]]
      \/ tokens' = tokens
    BY <1>5 DEF Issue
<1>8. \A q \in Reqs : TokenInv(q)' /\ SessionInv(q)'
    <2>1. TokenInv(r)'
        BY <1>2, <1>3, <1>4, <1>6, <1>7, HoldersStay DEF TokenInv, TypeOK
    <2>2. \A q \in Reqs \ {r} : tokens'[q] = tokens[q]
        BY <1>2, <1>7 DEF TypeOK
    <2>3. QED
        BY <1>1, <1>3, <1>4, <2>1, <2>2, HoldersStay
<1>9. QED
    BY <1>1, <1>2, <1>4, <1>8, StillBound, AdvanceStep

LEMMA EndSessionStep ==
    ASSUME Inv, NEW x \in Cells, EndSession(x), TypeOK'
    PROVE  Inv'
<1>1. /\ byRef' = byRef /\ heap' = heap /\ items' = items /\ tokens' = tokens /\ reqs' = reqs
      /\ \A y \in Cells : sessions'[y] \in {sessions[y], NoSession}
    BY DEF EndSession, Inv, TypeOK
<1>2. Grown
    BY <1>1 DEF Grown
<1>3. Undisturbed
    BY <1>1, <1>2, NothingWritten
<1>4. ASSUME NEW c \in Codes PROVE LoginInv(c)' /\ ItemInv(c)' /\ InteractiveInv(c)'
    <2>1. LoginInv(c)' /\ (sessions[c].entry.in => Unused(c)')
        BY <1>1 DEF Inv, LoginInv, InteractiveInv, Unused, Redemptions
    <2>2. QED
        BY <1>1, <1>2, <2>1, LoginsStay DEF Cells
<1>5. ASSUME NEW q \in Reqs PROVE RequestInv(q)' /\ TokenInv(q)' /\ SessionInv(q)'
    BY <1>1, <1>2, <1>3, HoldersStay DEF Cells
<1>6. QED
    BY <1>4, <1>5 DEF Inv

(***************************************************************************)
(* Theorems.                                                               *)
(***************************************************************************)

LEMMA InvInit == Init => Inv
<1> SUFFICES ASSUME Init PROVE Inv
    OBVIOUS
<1>1. ASSUME NEW c \in Codes PROVE LoginInv(c) /\ ItemInv(c) /\ InteractiveInv(c)
    <2>1. Unused(c) /\ ~ items[c].in /\ ~ sessions[c].entry.in /\ heap[c].jkt = NoKey
        BY MetadataAssumption DEF Init, Unused, Absent, NoSession, NilMap, Cells
    <2>2. QED
        BY <2>1 DEF LoginInv, ItemInv, InteractiveInv
<1>2. ASSUME NEW r \in Reqs PROVE RequestInv(r) /\ TokenInv(r) /\ SessionInv(r)
    BY DEF Init, RequestInv, TokenInv, SessionInv, NoSession, Absent, Cells
<1>3. QED
    BY <1>1, <1>2, TypeInit DEF Inv

LEMMA InvInductive == Spec => []Inv
<1>1. Inv /\ [Next]_vars => Inv'
    <2> SUFFICES ASSUME Inv, [Next]_vars PROVE Inv'
        OBVIOUS
    <2>1. TypeOK'
        BY TypeStep
    <2>2. CASE UNCHANGED vars
        BY <2>2 DEF vars, Inv, TypeOK, LoginInv, ItemInv, InteractiveInv, RequestInv, TokenInv,
                    SessionInv, EntryGood, Bound, Linked, Single, RedeemedOnce, Redemptions,
                    Unused, Expected, ClaimsMap
    <2>3. QED
        BY <2>1, <2>2, LoginStep, GetItemStep, RedeemStep, BindStep, CreateStep, DeleteItemStep,
           IssueStep, EndSessionStep DEF Next
<1>2. QED
    BY InvInit, <1>1, PTL DEF Spec

\* In every behaviour the maps, the stores and the requests hold values of their types.
THEOREM MetadataTypes == Spec => []TypeOK
BY InvInductive, PTL DEF Inv

\* For any number of logins and rotations, and whichever stores keep the map
\* itself: unmapped claims reach /introspection, and only those of the login
\* (authorizationcode/authorization.go:18-23, introspection.go:119-132).
THEOREM ClaimsReachIntrospection == Spec => []ClaimsSurvive
<1>1. Inv => ClaimsSurvive
    <2> SUFFICES ASSUME Inv, NEW x \in Cells, sessions[x].entry.in
                 PROVE  Introspection(x).claims = Expected(sessions[x].code)
        BY DEF ClaimsSurvive, Expected
    <2>1. CASE x \in Codes
        <3>1. InteractiveInv(x)
            BY <2>1 DEF Inv
        <3>2. Metadata(sessions[x].entry).extra = Expected(x)
            <4>1. CASE sessions[x].entry.ref = Nil
                BY <3>1, <4>1 DEF InteractiveInv, Metadata, ClaimsMap, Expected
            <4>2. CASE sessions[x].entry.ref # Nil
                BY <3>1, <4>2 DEF InteractiveInv, Metadata
            <4>3. QED
                BY <4>1, <4>2
        <3>3. QED
            BY <3>1, <3>2 DEF InteractiveInv, Introspection
    <2>2. CASE x \in Reqs
        BY <2>2 DEF Inv, SessionInv, EntryGood, Bound, Linked, Introspection, Metadata
    <2>3. QED
        BY <2>1, <2>2 DEF Cells
<1>2. QED
    BY <1>1, InvInductive, PTL

\* For any number of refreshes that overlap: whatever the family of a session
\* writes into a map it shares is that session's own key; without a kept item
\* not even several redemptions of one code can mix keys
\* (token.go:208-214, 339-348; introspection.go:138).
THEOREM IntrospectionIsHonest == Spec => []IntrospectionNamesTheKey
<1>1. Inv => IntrospectionNamesTheKey
    <2> SUFFICES ASSUME Inv, NEW x \in Cells, sessions[x].entry.in, Single(sessions[x].code)
                 PROVE  /\ Introspection(x).cnf = sessions[x].key
                        /\ Introspection(x).token_type = "DPoP" <=> sessions[x].key # NoKey
        BY DEF IntrospectionNamesTheKey, Single
    <2>1. Metadata(sessions[x].entry).jkt = sessions[x].key
        <3>1. CASE x \in Codes
            <4>1. InteractiveInv(x) /\ LoginInv(x)
                BY <3>1 DEF Inv
            <4>2. CASE sessions[x].entry.ref = Nil
                BY <4>1, <4>2 DEF InteractiveInv, Metadata, ClaimsMap
            <4>3. CASE sessions[x].entry.ref # Nil
                BY <4>1, <4>3 DEF InteractiveInv, LoginInv, Metadata
            <4>4. QED
                BY <4>2, <4>3
        <3>2. CASE x \in Reqs
            BY <3>2 DEF Inv, SessionInv, EntryGood, Bound, Metadata
        <3>3. QED
            BY <3>1, <3>2 DEF Cells
    <2>2. QED
        BY <2>1 DEF Introspection
<1>2. QED
    BY <1>1, InvInductive, PTL
=============================================================================

------------------------ MODULE OAuth2GenericProofs ------------------------
(***************************************************************************)
(* Proofs about OAuth2Generic, for any number of logins and base URLs.     *)
(* The invariant follows the two words of RedirectURL: as long as no other *)
(* base URL was written since, they hold what the handler stored.          *)
(***************************************************************************)
EXTENDS OAuth2Generic, TLAPS

Before == {"new", "authorize", "authorizeText", "authorizeLength", "redirect"}
Returned == {"callback", "callbackText", "callbackLength", "exchange"}

\* What a login has sent so far.
Sent(l) ==
    /\ login[l].stage \in Before => login[l].asked = NoBase
    /\ login[l].stage \in Before \cup Returned \cup {"away"} => login[l].sent = NoBase
    /\ login[l].stage \in Returned \cup {"in"} => login[l].asked = BaseOf[l]

\* A login that was not overtaken finds what it stored.
Undisturbed(l) ==
    /\ login[l].asked \in {NoBase, BaseOf[l]}
    /\ login[l].sent \in {NoBase, login[l].asked}
    /\ login[l].stage = "away" => login[l].asked = BaseOf[l]
    /\ login[l].stage \in {"authorizeText", "callbackText", "redirect", "exchange"} =>
          text = BaseOf[l]
    /\ login[l].stage \in {"authorizeLength", "callbackLength", "redirect", "exchange"} =>
          length = Length[BaseOf[l]]

Inv ==
    /\ TypeOK
    /\ \A l \in Logins : Sent(l)
    /\ \A l \in Logins \ crossed : Undisturbed(l)

USE DEF Writers, Stages, Before, Returned

LEMMA InitInv == Init => Inv
BY OAuth2GenericAssumption DEF Init, Inv, TypeOK, Login, Texts, Sent, Undisturbed

\* A login whose record and words stay is as good as before.
LEMMA Frame ==
    ASSUME Inv, NEW m \in Logins, login'[m] = login[m]
    PROVE  /\ Sent(m)'
           /\ m \notin crossed /\ text' = text /\ length' = length => Undisturbed(m)'
BY DEF Inv, Sent, Undisturbed

\* The two stores of an assignment, and what they do to another login.
LEMMA OthersStored ==
    ASSUME Inv, NEW l \in Logins, NEW m \in Logins \ crossed', m # l,
           login'[m] = login[m], Overtakes(l),
           text' \in {text, BaseOf[l]}, length' \in {length, Length[BaseOf[l]]}
    PROVE  Undisturbed(m)'
<1>1. m \notin crossed /\ (login[m].stage \in Writers => BaseOf[m] = BaseOf[l])
    BY DEF Overtakes
<1>2. Undisturbed(m)
    BY <1>1 DEF Inv
<1>3. CASE login[m].stage \in Writers
    BY <1>1, <1>2, <1>3 DEF Undisturbed
<1>4. CASE login[m].stage \notin Writers
    BY <1>2, <1>4 DEF Undisturbed
<1>5. QED
    BY <1>3, <1>4

\* A login's own step in a new stage.
LEMMA Moved ==
    ASSUME Inv, NEW l \in Logins, NEW stage \in Stages, To(l, stage)
    PROVE  /\ login' \in [Logins -> Login]
           /\ login'[l].stage = stage
           /\ login'[l].asked = login[l].asked
           /\ login'[l].sent = login[l].sent
           /\ \A m \in Logins : m # l => login'[m] = login[m]
BY DEF Inv, TypeOK, To, Login

\* A step that stores nothing and moves one login.
LEMMA QuietStep ==
    ASSUME Inv, NEW l \in Logins, UNCHANGED <<text, length, crossed>>,
           login' \in [Logins -> Login],
           \A m \in Logins : m # l => login'[m] = login[m],
           Sent(l)', l \notin crossed => Undisturbed(l)'
    PROVE  Inv'
<1>1. TypeOK'
    BY DEF Inv, TypeOK
<1>2. \A m \in Logins : Sent(m)'
    BY Frame
<1>3. \A m \in Logins \ crossed' : Undisturbed(m)'
    BY Frame
<1>4. QED
    BY <1>1, <1>2, <1>3 DEF Inv

LEMMA AuthorizeInv == \A l \in Logins : Inv /\ Authorize(l) => Inv'
<1> SUFFICES ASSUME NEW l \in Logins, Inv, NEW stage \in {"authorize", "failed"},
                    login[l].stage = "new", To(l, stage),
                    UNCHANGED <<text, length, crossed>>
             PROVE  Inv'
    BY DEF Authorize
<1>1. Sent(l) /\ (l \notin crossed => Undisturbed(l))
    BY DEF Inv
<1>2. Sent(l)' /\ (l \notin crossed => Undisturbed(l)')
    BY <1>1, Moved DEF Sent, Undisturbed
<1>3. QED
    BY <1>2, Moved, QuietStep

LEMMA CallbackInv == \A l \in Logins : Inv /\ Callback(l) => Inv'
<1> SUFFICES ASSUME NEW l \in Logins, Inv, NEW stage \in {"callback", "failed"},
                    login[l].stage = "away", To(l, stage),
                    stage = "callback" => login[l].asked = BaseOf[l],
                    UNCHANGED <<text, length, crossed>>
             PROVE  Inv'
    BY DEF Callback
<1>1. Sent(l) /\ (l \notin crossed => Undisturbed(l))
    BY DEF Inv
<1>2. Sent(l)' /\ (l \notin crossed => Undisturbed(l)')
    BY <1>1, Moved DEF Sent, Undisturbed
<1>3. QED
    BY <1>2, Moved, QuietStep

\* What a login reads is a text, and its own if it was not overtaken.
LEMMA ReadsOwn ==
    ASSUME Inv, NEW l \in Logins
    PROVE  /\ RedirectURL \in Texts
           /\ l \notin crossed /\ login[l].stage \in {"redirect", "exchange"} =>
                 RedirectURL = BaseOf[l]
<1>1. BaseOf[l] \in Bases
    BY OAuth2GenericAssumption
<1>2. RedirectURL \in Texts
    BY DEF Inv, TypeOK, RedirectURL, Texts
<1>3. ASSUME l \notin crossed, login[l].stage \in {"redirect", "exchange"}
      PROVE  RedirectURL = BaseOf[l]
    <2>1. text = BaseOf[l] /\ length = Length[BaseOf[l]]
        BY <1>3 DEF Inv, Undisturbed
    <2>2. QED
        BY <1>1, <2>1 DEF RedirectURL
<1>4. QED
    BY <1>2, <1>3

LEMMA RedirectInv == \A l \in Logins : Inv /\ Redirect(l) => Inv'
<1> SUFFICES ASSUME NEW l \in Logins, Inv, Redirect(l) PROVE Inv'
    OBVIOUS
<1> DEFINE url == RedirectURL
<1>1. /\ login[l].stage = "redirect"
      /\ login' = [login EXCEPT ![l].stage = "away", ![l].asked = url]
      /\ UNCHANGED <<text, length, crossed>>
    BY DEF Redirect
<1>2. url \in Texts /\ (l \notin crossed => url = BaseOf[l])
    BY <1>1, ReadsOwn
<1> HIDE DEF url
<1>3. /\ login' \in [Logins -> Login]
      /\ login'[l].stage = "away" /\ login'[l].asked = url /\ login'[l].sent = login[l].sent
      /\ \A m \in Logins : m # l => login'[m] = login[m]
    BY <1>1, <1>2 DEF Inv, TypeOK, Login
<1>4. Sent(l)
    BY DEF Inv
<1>5. Sent(l)' /\ (l \notin crossed => Undisturbed(l)')
    BY <1>1, <1>2, <1>3, <1>4 DEF Sent, Undisturbed
<1>6. QED
    BY <1>1, <1>3, <1>5, QuietStep

LEMMA ExchangeInv == \A l \in Logins : Inv /\ Exchange(l) => Inv'
<1> SUFFICES ASSUME NEW l \in Logins, Inv, Exchange(l) PROVE Inv'
    OBVIOUS
<1> DEFINE url == RedirectURL
<1>1. PICK stage \in {"in", "failed"} :
         /\ login' = [login EXCEPT ![l].sent = url, ![l].stage = stage]
         /\ login[l].stage = "exchange"
         /\ UNCHANGED <<text, length, crossed>>
    BY DEF Exchange
<1>2. url \in Texts /\ (l \notin crossed => url = BaseOf[l])
    BY <1>1, ReadsOwn
<1> HIDE DEF url
<1>3. /\ login' \in [Logins -> Login]
      /\ login'[l].stage = stage /\ login'[l].asked = login[l].asked /\ login'[l].sent = url
      /\ \A m \in Logins : m # l => login'[m] = login[m]
    BY <1>1, <1>2 DEF Inv, TypeOK, Login
<1>4. Sent(l)
    BY DEF Inv
<1>5. Sent(l)' /\ (l \notin crossed => Undisturbed(l)')
    BY <1>1, <1>2, <1>3, <1>4 DEF Sent, Undisturbed
<1>6. QED
    BY <1>1, <1>3, <1>5, QuietStep

\* A store of one word, or of the second one.
LEMMA StoreInv ==
    ASSUME Inv, NEW l \in Logins, NEW stage \in Stages, Overtakes(l), To(l, stage),
           StoreText(l) \/ StoreLength(l),
           Sent(l)', l \notin crossed => Undisturbed(l)'
    PROVE  Inv'
<1>1. text' \in {text, BaseOf[l]} /\ length' \in {length, Length[BaseOf[l]]}
    BY DEF StoreText, StoreLength
<1>2. TypeOK'
    BY <1>1, Moved, OAuth2GenericAssumption DEF Inv, TypeOK, Overtakes
<1>3. \A m \in Logins : Sent(m)'
    BY Moved, Frame
<1>4. ASSUME NEW m \in Logins \ crossed' PROVE Undisturbed(m)'
    <2>1. CASE m = l
        BY <2>1 DEF Overtakes
    <2>2. CASE m # l
        BY <1>1, <2>2, Moved, OthersStored
    <2>3. QED
        BY <2>1, <2>2
<1>5. QED
    BY <1>2, <1>3, <1>4 DEF Inv

LEMMA AssignInv ==
    \A l \in Logins : Inv /\ (AuthorizeAssigns(l) \/ CallbackAssigns(l)) => Inv'
<1> SUFFICES ASSUME NEW l \in Logins, Inv, AuthorizeAssigns(l) \/ CallbackAssigns(l)
             PROVE  Inv'
    OBVIOUS
<1>1. Sent(l) /\ (l \notin crossed => Undisturbed(l))
    BY DEF Inv
<1>2. Overtakes(l)
    BY DEF AuthorizeAssigns, CallbackAssigns, Assign
<1>3. CASE AuthorizeAssigns(l)
    <2>1. PICK stage \in {"authorizeText", "authorizeLength", "redirect"} :
             /\ To(l, stage)
             /\ \/ /\ stage = "authorizeText" /\ login[l].stage = "authorize"
                   /\ StoreText(l)
                \/ /\ stage = "authorizeLength" /\ login[l].stage = "authorize"
                   /\ StoreLength(l)
                \/ /\ stage = "redirect" /\ login[l].stage = "authorizeText"
                   /\ StoreLength(l)
                \/ /\ stage = "redirect" /\ login[l].stage = "authorizeLength"
                   /\ StoreText(l)
        BY <1>3 DEF AuthorizeAssigns, Assign
    <2>2. Sent(l)' /\ (l \notin crossed => Undisturbed(l)')
        BY <1>1, <2>1, Moved DEF Sent, Undisturbed, StoreText, StoreLength
    <2>3. QED
        BY <1>2, <2>1, <2>2, StoreInv
<1>4. CASE CallbackAssigns(l)
    <2>1. PICK stage \in {"callbackText", "callbackLength", "exchange"} :
             /\ To(l, stage)
             /\ \/ /\ stage = "callbackText" /\ login[l].stage = "callback"
                   /\ StoreText(l)
                \/ /\ stage = "callbackLength" /\ login[l].stage = "callback"
                   /\ StoreLength(l)
                \/ /\ stage = "exchange" /\ login[l].stage = "callbackText"
                   /\ StoreLength(l)
                \/ /\ stage = "exchange" /\ login[l].stage = "callbackLength"
                   /\ StoreText(l)
        BY <1>4 DEF CallbackAssigns, Assign
    <2>2. Sent(l)' /\ (l \notin crossed => Undisturbed(l)')
        BY <1>1, <2>1, Moved DEF Sent, Undisturbed, StoreText, StoreLength
    <2>3. QED
        BY <1>2, <2>1, <2>2, StoreInv
<1>5. QED
    BY <1>3, <1>4

\* After a restart the handlers that had a word to read are gone.
LEMMA CrashInv == Inv /\ Crash => Inv'
<1> SUFFICES ASSUME Inv, Crash PROVE Inv'
    OBVIOUS
<1> DEFINE Gone == Writers \cup {"authorize", "callback"}
<1>1. ASSUME NEW m \in Logins
      PROVE  /\ login'[m] \in Login
             /\ login'[m].stage = IF login[m].stage \in Gone THEN "failed" ELSE login[m].stage
             /\ login'[m].asked = login[m].asked /\ login'[m].sent = login[m].sent
             /\ login'[m].stage \notin Writers
    BY DEF Crash, Inv, TypeOK, Login
<1>2. TypeOK'
    BY <1>1 DEF Crash, Inv, TypeOK
<1>3. ASSUME NEW m \in Logins PROVE Sent(m)'
    BY <1>1 DEF Inv, Sent
<1>4. ASSUME NEW m \in Logins \ crossed' PROVE Undisturbed(m)'
    <2>1. CASE m \notin crossed
        BY <1>1, <2>1 DEF Inv, Undisturbed
    <2>2. CASE m \in crossed
        <3>1. login[m].stage \in Writers
            BY <2>2 DEF Crash
        <3>2. login[m].asked \in {NoBase, BaseOf[m]} /\ login[m].sent = NoBase
            BY <3>1 DEF Inv, Sent
        <3>3. QED
            BY <1>1, <3>1, <3>2 DEF Undisturbed
    <2>3. QED
        BY <2>1, <2>2
<1>5. QED
    BY <1>2, <1>3, <1>4 DEF Inv

LEMMA Inductive == Inv /\ [Next]_vars => Inv'
<1> SUFFICES ASSUME Inv, [Next]_vars PROVE Inv'
    OBVIOUS
<1>1. CASE Next
    BY <1>1, AuthorizeInv, AssignInv, RedirectInv, CallbackInv, ExchangeInv, CrashInv DEF Next
<1>2. CASE UNCHANGED vars
    BY <1>2 DEF vars, Inv, TypeOK, Sent, Undisturbed
<1>3. QED
    BY <1>1, <1>2

LEMMA Invariance == Spec => []Inv
BY InitInv, Inductive, PTL DEF Spec

\* RedirectURL's words, the logins and the history are well typed.
THEOREM RedirectTypes == Spec => []TypeOK
<1>1. Inv => TypeOK
    BY DEF Inv
<1>2. QED
    BY <1>1, Invariance, PTL

\* For any number of logins and base URLs: only a login that was overtaken by a
\* request of another base URL leaves with, or repeats, a foreign redirect URL
\* (oauth2generic.go:99, 169, 274).
THEOREM OverlapsOnly == Spec => []ForeignRedirectNeedsOverlap
<1>1. Inv => ForeignRedirectNeedsOverlap
    BY DEF Inv, ForeignRedirectNeedsOverlap, Undisturbed
<1>2. QED
    BY <1>1, Invariance, PTL

\* Behind one base URL every login repeats its redirect URL, whatever overlaps
\* and however often the process restarts (oauth2generic.go:169).
THEOREM OneBaseSuffices ==
    ASSUME \A b, c \in Bases : b = c
    PROVE  Spec => []RedirectRepeated
<1> DEFINE Uncrossed == crossed = {}
<1>1. \A l, m \in Logins : BaseOf[l] = BaseOf[m]
    BY OAuth2GenericAssumption
<1>2. Init => Uncrossed
    BY DEF Init
<1>3. Uncrossed /\ [Next]_vars => Uncrossed'
    BY <1>1 DEF Next, Authorize, AuthorizeAssigns, Redirect, Callback, CallbackAssigns,
          Exchange, Crash, Assign, Overtakes, vars
<1>4. Inv /\ Uncrossed => RedirectRepeated
    BY DEF Inv, RedirectRepeated, Undisturbed
<1>5. QED
    BY <1>2, <1>3, <1>4, Invariance, PTL DEF Spec
=============================================================================

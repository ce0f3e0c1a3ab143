--------------------------- MODULE OAuth2Generic ---------------------------
(***************************************************************************)
(* One provider of oauth2generic between a browser and its identity        *)
(* provider (IdP).  The instance keeps one oauth2.Config for all requests. *)
(* Authorize and Callback write its RedirectURL, from the base URL of the  *)
(* request they serve, and read it again when they build the authorize URL *)
(* and when they exchange the code; nothing orders two requests.  The IdP  *)
(* gives a user back to the redirect URL of the authorize URL and demands  *)
(* the same one with the code.                                             *)
(*                                                                         *)
(* RedirectURL is a Go string: a pointer and a length, two words that a    *)
(* writer stores one by one and a reader loads without a lock.  So a write *)
(* is two steps here, the words in either order, and a reader between them *)
(* sees the text of one base URL with the length of another.               *)
(***************************************************************************)
EXTENDS Naturals

CONSTANTS
    Logins,
    Bases,      \* base URLs under which browsers reach idauth
    NoBase,     \* no URL: none assigned, none sent yet
    Garbled,    \* a text that is no base URL, empty or torn
    BaseOf,     \* the base URL a login's browser uses
    Length,     \* of the text of a base URL
    Faults

ASSUME OAuth2GenericAssumption ==
    /\ NoBase \notin Bases
    /\ Garbled \notin Bases \cup {NoBase}
    /\ BaseOf \in [Logins -> Bases]
    /\ Length \in [Bases -> Nat \ {0}]
    /\ Faults \in BOOLEAN

VARIABLES
    text,       \* RedirectURL's pointer: the base URL whose text it points to
    length,     \* RedirectURL's length
    login,
    crossed     \* history: logins whose handler was overtaken by a write of
                \* another base URL between its own write and its read

vars == <<text, length, login, crossed>>

\* In these stages a handler has begun its write and not yet read; in the ones
\* that end in Text or Length it has stored that word only.
Writers == {"authorizeText", "authorizeLength", "redirect",
            "callbackText", "callbackLength", "exchange"}

Stages == {"new", "authorize", "away", "callback", "in", "failed"} \cup Writers

Texts == Bases \cup {NoBase, Garbled}

\* asked: the redirect URL of the authorize URL.  sent: the one of the exchange.
Login == [stage : Stages, asked : Texts, sent : Texts]

Init ==
    /\ text = NoBase
    /\ length = 0
    /\ login = [l \in Logins |-> [stage |-> "new", asked |-> NoBase, sent |-> NoBase]]
    /\ crossed = {}

\* What a reader of the two words has.
RedirectURL == IF text \in Bases /\ Length[text] = length THEN text ELSE Garbled

To(l, stage) == login' = [login EXCEPT ![l].stage = stage]

\* Writers of other base URLs are overtaken by l's store.
Overtakes(l) ==
    crossed' = crossed \cup {m \in Logins : /\ login[m].stage \in Writers
                                            /\ BaseOf[m] # BaseOf[l]}

\* Variant: pointer and length swapped.
StoreTextSwapped(l) == text' = Length[BaseOf[l]] /\ UNCHANGED length

StoreText(l) == text' = BaseOf[l] /\ UNCHANGED length

StoreLength(l) == length' = Length[BaseOf[l]] /\ UNCHANGED text

\* i.oauth2Config.RedirectURL = ..., by a handler in stage "authorize" or
\* "callback", which reads it in the stage then.
Assign(l, from, textStored, lengthStored, then) ==
    /\ Overtakes(l)
    /\ \/ login[l].stage = from /\ To(l, textStored) /\ StoreText(l)
       \/ login[l].stage = from /\ To(l, lengthStored) /\ StoreLength(l)
       \/ login[l].stage = textStored /\ To(l, then) /\ StoreLength(l)
       \/ login[l].stage = lengthStored /\ To(l, then) /\ StoreText(l)

\* Authorize: ValidateAndSaveState may refuse.
Authorize(l) ==
    /\ login[l].stage = "new"
    /\ \E stage \in {"authorize", "failed"} : To(l, stage)
    /\ UNCHANGED <<text, length, crossed>>

AuthorizeAssigns(l) ==
    Assign(l, "authorize", "authorizeText", "authorizeLength", "redirect")

\* buildAuthorizeURL and the redirect.
Redirect(l) ==
    /\ login[l].stage = "redirect"
    /\ login' = [login EXCEPT ![l].stage = "away", ![l].asked = RedirectURL]
    /\ UNCHANGED <<text, length, crossed>>

\* The IdP turns down an unknown redirect URL, the user or the IdP refuses, or
\* the browser comes back; the correlation's cookie is only sent to its host.
Callback(l) ==
    /\ login[l].stage = "away"
    /\ \/ login[l].asked = BaseOf[l] /\ To(l, "callback")
       \/ To(l, "failed")
    /\ UNCHANGED <<text, length, crossed>>

\* Variant: what Authorize assigned is used.
CallbackAssignsNothing(l) ==
    /\ login[l].stage = "callback"
    /\ To(l, "exchange")
    /\ UNCHANGED <<text, length, crossed>>

CallbackAssigns(l) ==
    Assign(l, "callback", "callbackText", "callbackLength", "exchange")

\* exchangeAndFetchUserInfo: the IdP compares the redirect URLs; either request
\* to it may fail.
Exchange(l) ==
    /\ login[l].stage = "exchange"
    /\ \E accepted \in BOOLEAN :
          login' = [login EXCEPT ![l].sent = RedirectURL,
                       ![l].stage = IF accepted /\ RedirectURL = login[l].asked
                                    THEN "in" ELSE "failed"]
    /\ UNCHANGED <<text, length, crossed>>

\* A new process has an empty RedirectURL; a user at the IdP does not notice.
Crash ==
    /\ Faults
    /\ text' = NoBase
    /\ length' = 0
    /\ crossed' = crossed \ {l \in Logins : login[l].stage \in Writers}
    /\ login' = [l \in Logins |->
          IF login[l].stage \in Writers \cup {"authorize", "callback"}
          THEN [login[l] EXCEPT !.stage = "failed"] ELSE login[l]]

Next ==
    \/ \E l \in Logins :
          \/ Authorize(l)
          \/ AuthorizeAssigns(l)
          \/ Redirect(l)
          \/ Callback(l)
          \/ CallbackAssigns(l)
          \/ Exchange(l)
    \/ Crash

Spec == Init /\ [][Next]_vars

-----------------------------------------------------------------------------
\* Type correctness of the shared redirect URL, whose two words may be torn, and the logins.
TypeOK ==
    /\ text \in Bases \cup {NoBase}
    /\ length \in Nat
    /\ login \in [Logins -> Login]
    /\ crossed \subseteq Logins

\* A login leaves with its own redirect URL, and repeats it when it exchanges
\* the code, unless a request of another base URL came between the write and
\* the read (oauth2generic.go:99, 169, 274), restart or not.
ForeignRedirectNeedsOverlap ==
    \A l \in Logins \ crossed :
       /\ login[l].asked \in {NoBase, BaseOf[l]}
       /\ login[l].sent \in {NoBase, login[l].asked}

\* Where every browser uses one base URL no overlap matters: a torn write of
\* equal strings is no tear, and a callback served after a restart, or by a
\* process that never authorized, still repeats the redirect URL of its login
\* (oauth2generic.go:169).
RedirectRepeated ==
    \A l \in Logins :
       /\ login[l].stage = "away" => login[l].asked = BaseOf[l]
       /\ login[l].sent \in {NoBase, login[l].asked}
=============================================================================

------------------------------ MODULE SmartID ------------------------------
(***************************************************************************)
(* The Smart-ID provider between its login page and the Smart-ID service:  *)
(* Login starts a session there, Verified is polled by the page, Callback  *)
(* fetches the session once more before the login ends.                    *)
(*                                                                         *)
(* Every handler uses the one client of the provider.  Login and Verified  *)
(* set its timeout and then call it, in two steps that other requests may  *)
(* come between; Callback calls it with whatever timeout it finds.         *)
(*                                                                         *)
(* The page and the service are not in this repository.  The page polls,   *)
(* stops or goes to the callback whenever it likes; the service is what    *)
(* the errors that the handlers tell apart say of it.                      *)
(***************************************************************************)
CONSTANTS
    Pages,      \* login pages, one login each
    Sessions,   \* sessions of the Smart-ID service
    NoSession,
    Faults      \* whether the service may fail and the process may restart

ASSUME SmartIDAssumption ==
    /\ NoSession \notin Sessions
    /\ Faults \in BOOLEAN

VARIABLES
    timeout,    \* of the shared client
    session,    \* what the service says of each session
    page,
    overtaken,  \* history: pages whose handler set a timeout that another
                \* handler set again before the call
    calls       \* history: the client calls so far and the timeout of each

vars == <<timeout, session, page, overtaken, calls>>

Timeouts == {"unset", "create", "check"}

\* Ends of a session without a person, by the errors of FetchSession: ErrTimeout (of
\* the person), ErrUserRefused, ErrSmartIdNoSuitableAccount, and any other final one.
Ended == {"timedOut", "userRefused", "noAccount", "otherwise"}

Statuses == {"unused", "running", "confirmed"} \cup Ended

\* What FetchSession returns: the person, an end, an error that says nothing of the
\* session (still running, maintenance, or a call without an answer), or no person.
Answers == {"confirmed", "running", "nobody", "maintenance", "lost"} \cup Ended

\* In these stages a handler has set the timeout and not yet called.
Armed == {"creating", "checking"}
Stages == {"blank", "waiting", "told", "stopped", "down", "returning", "in", "failed"} \cup Armed

\* own: the session Login made for the page.  shown: the one in the query of
\* the callback.
Page == [stage : Stages,
         own   : Sessions \cup {NoSession},
         shown : Sessions \cup {NoSession}]

Call == [op : {"create", "check", "callback"}, timeout : Timeouts, overtaken : BOOLEAN]

Init ==
    /\ timeout = "unset"
    /\ session = [s \in Sessions |-> "unused"]
    /\ page = [p \in Pages |->
                [stage |-> "blank", own |-> NoSession, shown |-> NoSession]]
    /\ overtaken = {}
    /\ calls = {}

\* The answers the service may give about a session.
AnswersOn(s) ==
    LET regular == CASE session[s] = "unused"  -> {"lost"}
                     [] session[s] = "running" -> {"running", "nobody"}
                     [] OTHER -> {session[s]}
    IN  regular \cup IF Faults THEN {"maintenance", "lost"} ELSE {}

\* client.WithTimeout(t) by the handler that serves p.
WithTimeout(p, t) ==
    /\ timeout' = t
    /\ overtaken' = (overtaken \ {p}) \cup {q \in Pages \ {p} : page[q].stage \in Armed}

\* The client reads its timeout when it calls.
Calls(p, op) ==
    calls' = calls \cup {[op |-> op, timeout |-> timeout, overtaken |-> p \in overtaken]}

\* Login, after the identifier passed its checks; before, it changes nothing.
Login(p) ==
    /\ page[p].stage = "blank"
    /\ page' = [page EXCEPT ![p].stage = "creating"]
    /\ WithTimeout(p, "create")
    /\ UNCHANGED <<session, calls>>

\* Variant: the page is handed something else than the session.
CreateSessionMisnamed(p) ==
    /\ page[p].stage = "creating"
    /\ Calls(p, "create")
    /\ \E s \in Sessions :
          /\ session[s] = "unused"
          /\ session' = [session EXCEPT ![s] = "running"]
          /\ page' = [page EXCEPT ![p].stage = "waiting", ![p].own = p]
    /\ UNCHANGED <<timeout, overtaken>>

CreateSession(p) ==
    /\ page[p].stage = "creating"
    /\ Calls(p, "create")
    /\ \/ \E s \in Sessions :
             /\ session[s] = "unused"
             /\ session' = [session EXCEPT ![s] = "running"]
             /\ page' = [page EXCEPT ![p].stage = "waiting", ![p].own = s]
       \/ /\ page' = [page EXCEPT ![p].stage = "failed"]
          /\ UNCHANGED session
    /\ UNCHANGED <<timeout, overtaken>>

\* Variant: the timeout that Login left is taken.
VerifiedWithoutTimeout(p) ==
    /\ page[p].stage = "waiting"
    /\ page' = [page EXCEPT ![p].stage = "checking"]
    /\ overtaken' = overtaken \ {p}
    /\ UNCHANGED <<timeout, session, calls>>

\* Verified, up to the call.
Verified(p) ==
    /\ page[p].stage = "waiting"
    /\ page' = [page EXCEPT ![p].stage = "checking"]
    /\ WithTimeout(p, "check")
    /\ UNCHANGED <<session, calls>>

\* Verified's switch over the errors of FetchSession.
ReplyStatus(answer) ==
    CASE answer = "confirmed"   -> 200
      [] answer \in {"timedOut", "userRefused", "noAccount"} -> 400
      [] answer = "maintenance" -> 500
      [] OTHER                  -> 204

\* Where a reply leaves the page: 204 is no answer yet.
After(status) ==
    CASE status = 200 -> "told"
      [] status = 400 -> "stopped"
      [] status = 500 -> "down"
      [] status = 204 -> "waiting"

\* Verified, from the call on.
FetchSession(p) ==
    /\ page[p].stage = "checking"
    /\ Calls(p, "check")
    /\ \E answer \in AnswersOn(page[p].own) :
          page' = [page EXCEPT ![p].stage = After(ReplyStatus(answer))]
    /\ UNCHANGED <<timeout, session, overtaken>>

\* The browser goes to the callback URL, told to or not, with some sessionID.
Return(p, s) ==
    /\ page[p].stage \in {"waiting", "told", "stopped", "down"}
    /\ page' = [page EXCEPT ![p].stage = "returning", ![p].shown = s]
    /\ UNCHANGED <<timeout, session, overtaken, calls>>

\* Variant: the error is checked, the person is not.
CallbackUnchecked(p) ==
    /\ page[p].stage = "returning"
    /\ Calls(p, "callback")
    /\ \E answer \in AnswersOn(page[p].shown) :
          page' = [page EXCEPT ![p].stage =
                       IF answer \in {"confirmed", "nobody"} THEN "in" ELSE "failed"]
    /\ UNCHANGED <<timeout, session, overtaken>>

\* Callback up to the person; what follows is LoginFlow's PopState.
Callback(p) ==
    /\ page[p].stage = "returning"
    /\ Calls(p, "callback")
    /\ \E answer \in AnswersOn(page[p].shown) :
          page' = [page EXCEPT ![p].stage = IF answer = "confirmed" THEN "in" ELSE "failed"]
    /\ UNCHANGED <<timeout, session, overtaken>>

\* The person answers on the phone, or the service stops waiting for them.
Settle(s) ==
    /\ session[s] = "running"
    /\ \E verdict \in {"confirmed"} \cup Ended :
          session' = [session EXCEPT ![s] = verdict]
    /\ UNCHANGED <<timeout, page, overtaken, calls>>

\* The process restarts with a client of its own; a page whose poll is lost
\* polls again, one whose login or callback is lost shows an error.
Restart ==
    /\ Faults
    /\ timeout # "unset"
    /\ timeout' = "unset"
    /\ overtaken' = {}
    /\ page' = [p \in Pages |->
          IF page[p].stage = "checking"
          THEN [page[p] EXCEPT !.stage = "waiting"]
          ELSE IF page[p].stage \in {"creating", "returning"}
          THEN [page[p] EXCEPT !.stage = "failed"]
          ELSE page[p]]
    /\ UNCHANGED <<session, calls>>

Next ==
    \/ \E p \in Pages :
          \/ Login(p)
          \/ CreateSession(p)
          \/ Verified(p)
          \/ FetchSession(p)
          \/ \E s \in Sessions : Return(p, s)
          \/ Callback(p)
    \/ \E s \in Sessions : Settle(s)
    \/ Restart

Spec == Init /\ [][Next]_vars

-----------------------------------------------------------------------------
\* Type correctness of the shared timeout, the sessions of the service and the pages.
TypeOK ==
    /\ timeout \in Timeouts
    /\ session \in [Sessions -> Statuses]
    /\ page \in [Pages -> Page]
    /\ overtaken \subseteq Pages
    /\ calls \subseteq Call

\* A call runs with a timeout that is not the one its handler set just before
\* (smartid.go:170, 195) only when another handler set its own in between.
OwnTimeoutUnlessOvertaken ==
    \A call \in calls :
       call.op # "callback" /\ ~ call.overtaken => call.timeout = call.op

\* A login ends well only for a session that its person confirmed, whatever the
\* callback was given and whenever it came (smartid.go:274-300).  And what Verified
\* told a page stays true of its session, whatever the page is shown later: confirmed
\* after 200, ended without the person after 400 (smartid.go:197-238).
InAsConfirmed ==
    \A p \in Pages :
       /\ page[p].stage = "in" => session[page[p].shown] = "confirmed"
       /\ page[p].stage = "told" => session[page[p].own] = "confirmed"
       /\ page[p].stage = "stopped" => session[page[p].own] \in Ended
=============================================================================

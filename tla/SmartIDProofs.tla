--------------------------- MODULE SmartIDProofs ---------------------------
(* Proofs about SmartID, for any number of pages and sessions. *)
EXTENDS SmartID, TLAPS

\* A handler that was not overtaken finds the timeout it set.
ArmedInv ==
    \A p \in Pages \ overtaken :
       /\ page[p].stage = "creating" => timeout = "create"
       /\ page[p].stage = "checking" => timeout = "check"

\* A page that polls, or was answered, has the session Login made for it; one that
\* goes to the callback shows some session.
OwnInv ==
    \A p \in Pages :
       /\ page[p].stage \in {"waiting", "checking", "told", "stopped", "down"} => page[p].own \in Sessions
       /\ page[p].stage \in {"returning", "in"} => page[p].shown \in Sessions

Inv ==
    /\ TypeOK
    /\ ArmedInv
    /\ OwnInv
    /\ OwnTimeoutUnlessOvertaken
    /\ InAsConfirmed

\* What the service may say of a session.
LEMMA AnswersOfSession ==
    ASSUME TypeOK, NEW s \in Sessions, NEW answer \in AnswersOn(s)
    PROVE  /\ answer \in Answers
           /\ answer \in {"confirmed"} \cup Ended => session[s] = answer
BY DEF AnswersOn, Answers, TypeOK, Statuses, Ended

\* A noted call keeps the types and the property of the calls.
LEMMA CallNoted ==
    ASSUME TypeOK, OwnTimeoutUnlessOvertaken, NEW p \in Pages,
           NEW op \in {"create", "check", "callback"}, Calls(p, op),
           op = "callback" \/ p \in overtaken \/ timeout = op
    PROVE  calls' \subseteq Call /\ OwnTimeoutUnlessOvertaken'
<1> DEFINE noted == [op |-> op, timeout |-> timeout, overtaken |-> p \in overtaken]
<1>1. (p \in overtaken) \in BOOLEAN
    OBVIOUS
<1>2. /\ noted.op = op
      /\ noted.timeout = timeout
      /\ noted.overtaken <=> p \in overtaken
    OBVIOUS
<1>3. noted \in Call
    BY <1>1, Zenon DEF Call, TypeOK
<1>4. calls' = calls \cup {noted}
    BY DEF Calls
<1>5. noted.op # "callback" /\ ~ noted.overtaken => noted.timeout = noted.op
    BY <1>2
<1> HIDE DEF noted
<1>6. \A call \in calls' :
          call.op # "callback" /\ ~ call.overtaken => call.timeout = call.op
    BY <1>4, <1>5, Zenon DEF OwnTimeoutUnlessOvertaken
<1>7. QED
    BY <1>3, <1>4, <1>6, Zenon DEF TypeOK, OwnTimeoutUnlessOvertaken

\* A step that rewrites one page leaves the others.
LEMMA PageRewritten ==
    ASSUME TypeOK, NEW p \in Pages, NEW new \in Page, page' = [page EXCEPT ![p] = new]
    PROVE  /\ page' \in [Pages -> Page]
           /\ page'[p] = new
           /\ \A q \in Pages \ {p} : page'[q] = page[q]
BY DEF TypeOK

\* Every step of the specification.
LEMMA StepCases ==
    ASSUME [Next]_vars
    PROVE  \/ \E p \in Pages : Login(p) \/ CreateSession(p) \/ Verified(p) \/ FetchSession(p)
           \/ \E p \in Pages : Callback(p)
           \/ \E p \in Pages, s \in Sessions : Return(p, s)
           \/ \E s \in Sessions : Settle(s)
           \/ Restart
           \/ UNCHANGED vars
BY DEF Next

LEMMA InvInit == Init => Inv
BY SmartIDAssumption
   DEF Init, Inv, TypeOK, ArmedInv, OwnInv, OwnTimeoutUnlessOvertaken, InAsConfirmed,
       Timeouts, Statuses, Page, Stages, Armed

LEMMA LoginStep ==
    ASSUME Inv, NEW p \in Pages, Login(p)
    PROVE  Inv'
BY DEF Login, WithTimeout, Inv, TypeOK, ArmedInv, OwnInv, OwnTimeoutUnlessOvertaken,
       InAsConfirmed, Timeouts, Page, Stages, Armed

LEMMA VerifiedStep ==
    ASSUME Inv, NEW p \in Pages, Verified(p)
    PROVE  Inv'
BY DEF Verified, WithTimeout, Inv, TypeOK, ArmedInv, OwnInv, OwnTimeoutUnlessOvertaken,
       InAsConfirmed, Timeouts, Page, Stages, Armed

LEMMA CreateSessionStep ==
    ASSUME Inv, NEW p \in Pages, CreateSession(p)
    PROVE  Inv'
<1>1. calls' \subseteq Call /\ OwnTimeoutUnlessOvertaken'
    BY CallNoted DEF CreateSession, Inv, ArmedInv
<1>2. ASSUME NEW s \in Sessions,
             session[s] = "unused",
             session' = [session EXCEPT ![s] = "running"],
             page' = [page EXCEPT ![p].stage = "waiting", ![p].own = s]
      PROVE  Inv'
    <2> DEFINE new == [page[p] EXCEPT !.stage = "waiting", !.own = s]
    <2>1. new \in Page /\ new.stage = "waiting" /\ new.own = s
        BY DEF Inv, TypeOK, Page, Stages
    <2>2. page' = [page EXCEPT ![p] = new]
        BY <1>2 DEF Inv, TypeOK
    <2> HIDE DEF new
    <2>3. /\ page' \in [Pages -> Page]
          /\ page'[p] = new
          /\ \A q \in Pages \ {p} : page'[q] = page[q]
        BY <2>1, <2>2, PageRewritten DEF Inv
    <2>4. /\ session' \in [Sessions -> Statuses]
          /\ \A t \in Sessions :
                session[t] \in {"confirmed"} \cup Ended => session'[t] = session[t]
        BY <1>2 DEF Inv, TypeOK, Statuses, Ended
    <2>5. QED
        BY <1>1, <2>1, <2>3, <2>4
           DEF CreateSession, Inv, TypeOK, ArmedInv, OwnInv, InAsConfirmed
<1>3. CASE page' = [page EXCEPT ![p].stage = "failed"] /\ UNCHANGED session
    BY <1>1, <1>3 DEF CreateSession, Inv, TypeOK, ArmedInv, OwnInv, InAsConfirmed,
                      Page, Stages
<1>4. QED
    BY <1>2, <1>3 DEF CreateSession

LEMMA FetchSessionStep ==
    ASSUME Inv, NEW p \in Pages, FetchSession(p)
    PROVE  Inv'
<1>1. calls' \subseteq Call /\ OwnTimeoutUnlessOvertaken'
    BY CallNoted DEF FetchSession, Inv, ArmedInv
<1>2. page[p].own \in Sessions
    BY DEF FetchSession, Inv, OwnInv
<1>3. PICK answer \in AnswersOn(page[p].own) :
          page' = [page EXCEPT ![p].stage = After(ReplyStatus(answer))]
    BY DEF FetchSession
<1>4. /\ answer \in Answers
      /\ answer \in {"confirmed"} \cup Ended => session[page[p].own] = answer
    BY <1>2, AnswersOfSession DEF Inv
<1> DEFINE stage == After(ReplyStatus(answer))
<1>5. \/ answer = "confirmed" /\ stage = "told"
      \/ answer \in Ended /\ stage = "stopped"
      \/ stage \in {"waiting", "down"}
    BY <1>4 DEF ReplyStatus, After, Answers, Ended
<1>6. page' = [page EXCEPT ![p].stage = stage]
    BY <1>3, Zenon
<1> HIDE DEF stage
<1> DEFINE new == [page[p] EXCEPT !.stage = stage]
<1>7. /\ new \in Page
      /\ new.stage = stage
      /\ new.own = page[p].own
    BY <1>5 DEF Inv, TypeOK, Page, Stages
<1>8. page' = [page EXCEPT ![p] = new]
    BY <1>6 DEF Inv, TypeOK
<1> HIDE DEF new
<1>9. /\ page' \in [Pages -> Page]
      /\ page'[p] = new
      /\ \A q \in Pages \ {p} : page'[q] = page[q]
    BY <1>7, <1>8, PageRewritten DEF Inv
<1>10. UNCHANGED <<timeout, session, overtaken>>
    BY DEF FetchSession
<1>11. QED
    BY <1>1, <1>2, <1>4, <1>5, <1>7, <1>9, <1>10
       DEF Inv, TypeOK, ArmedInv, OwnInv, InAsConfirmed

LEMMA CallbackStep ==
    ASSUME Inv, NEW p \in Pages, Callback(p)
    PROVE  Inv'
<1>1. calls' \subseteq Call /\ OwnTimeoutUnlessOvertaken'
    BY CallNoted DEF Callback, Inv
<1>2. page[p].shown \in Sessions
    BY DEF Callback, Inv, OwnInv
<1>3. PICK answer \in AnswersOn(page[p].shown) :
          page' = [page EXCEPT ![p].stage = IF answer = "confirmed" THEN "in" ELSE "failed"]
    BY DEF Callback
<1>4. answer \in Answers /\ (answer = "confirmed" => session[page[p].shown] = "confirmed")
    BY <1>2, AnswersOfSession DEF Inv
<1> DEFINE stage == IF answer = "confirmed" THEN "in" ELSE "failed"
           new == [page[p] EXCEPT !.stage = stage]
<1>5. new \in Page /\ new.stage = stage /\ new.shown = page[p].shown
    BY <1>4 DEF Inv, TypeOK, Page, Stages
<1>6. page' = [page EXCEPT ![p] = new]
    BY <1>3 DEF Inv, TypeOK
<1> HIDE DEF new
<1>7. /\ page' \in [Pages -> Page]
      /\ page'[p] = new
      /\ \A q \in Pages \ {p} : page'[q] = page[q]
    BY <1>5, <1>6, PageRewritten DEF Inv
<1>8. UNCHANGED <<timeout, session, overtaken>>
    BY DEF Callback
<1>9. QED
    BY <1>1, <1>2, <1>4, <1>5, <1>7, <1>8
       DEF Inv, TypeOK, ArmedInv, OwnInv, InAsConfirmed

LEMMA ReturnStep ==
    ASSUME Inv, NEW p \in Pages, NEW s \in Sessions, Return(p, s)
    PROVE  Inv'
<1> DEFINE new == [page[p] EXCEPT !.stage = "returning", !.shown = s]
<1>1. new \in Page /\ new.stage = "returning" /\ new.shown = s
    BY DEF Inv, TypeOK, Page, Stages
<1>2. page' = [page EXCEPT ![p] = new]
    BY DEF Return, Inv, TypeOK
<1> HIDE DEF new
<1>3. /\ page' \in [Pages -> Page]
      /\ page'[p] = new
      /\ \A q \in Pages \ {p} : page'[q] = page[q]
    BY <1>1, <1>2, PageRewritten DEF Inv
<1>4. UNCHANGED <<timeout, session, overtaken, calls>>
    BY DEF Return
<1>5. QED
    BY <1>1, <1>3, <1>4
       DEF Inv, TypeOK, ArmedInv, OwnInv, OwnTimeoutUnlessOvertaken, InAsConfirmed

LEMMA SettleStep ==
    ASSUME Inv, NEW s \in Sessions, Settle(s)
    PROVE  Inv'
<1>1. /\ session' \in [Sessions -> Statuses]
      /\ \A t \in Sessions : session[t] \in {"confirmed"} \cup Ended => session'[t] = session[t]
      /\ UNCHANGED <<timeout, page, overtaken, calls>>
    BY DEF Settle, Inv, TypeOK, Statuses, Ended
<1>2. QED
    BY <1>1 DEF Inv, TypeOK, ArmedInv, OwnInv, OwnTimeoutUnlessOvertaken, InAsConfirmed

LEMMA RestartStep ==
    ASSUME Inv, Restart
    PROVE  Inv'
<1>1. \A p \in Pages :
         /\ page'[p].own = page[p].own
         /\ page'[p].shown = page[p].shown
         /\ \/ page[p].stage = "checking" /\ page'[p].stage = "waiting"
            \/ page[p].stage \in {"creating", "returning"} /\ page'[p].stage = "failed"
            \/ /\ page[p].stage \notin {"creating", "checking", "returning"}
               /\ page'[p] = page[p]
    BY DEF Restart, Inv, TypeOK, Page
<1>2. page' \in [Pages -> Page]
    BY DEF Restart, Inv, TypeOK, Page, Stages
<1>3. timeout' = "unset" /\ overtaken' = {} /\ UNCHANGED <<session, calls>>
    BY DEF Restart
<1>4. TypeOK'
    BY <1>2, <1>3 DEF Inv, TypeOK, Timeouts
<1>5. ArmedInv'
    BY <1>1, <1>3 DEF Inv, ArmedInv
<1>6. OwnInv'
    BY <1>1, <1>3 DEF Inv, OwnInv
<1>7. OwnTimeoutUnlessOvertaken'
    BY <1>3 DEF Inv, OwnTimeoutUnlessOvertaken
<1>8. InAsConfirmed'
    BY <1>1, <1>3 DEF Inv, InAsConfirmed
<1>9. QED
    BY <1>4, <1>5, <1>6, <1>7, <1>8 DEF Inv

\* Init establishes the invariant and every step keeps it.
LEMMA InvInductive == Spec => []Inv
<1>1. Inv /\ [Next]_vars => Inv'
    <2> SUFFICES ASSUME Inv, [Next]_vars PROVE Inv'
        OBVIOUS
    <2>1. CASE UNCHANGED vars
        BY <2>1 DEF vars, Inv, TypeOK, ArmedInv, OwnInv, OwnTimeoutUnlessOvertaken,
                    InAsConfirmed
    <2>2. QED
        BY <2>1, StepCases, LoginStep, VerifiedStep, CreateSessionStep, FetchSessionStep,
           CallbackStep, ReturnStep, SettleStep, RestartStep
<1>2. QED
    BY InvInit, <1>1, PTL DEF Spec

\* In every behaviour the client, the sessions and the pages hold values of their types.
THEOREM SmartIDTypes == Spec => []TypeOK
BY InvInductive, PTL DEF Inv

\* A call runs with a foreign timeout only if another handler came between.
THEOREM OwnTimeouts == Spec => []OwnTimeoutUnlessOvertaken
BY InvInductive, PTL DEF Inv

\* Nobody is logged in and no page is told so before the person confirmed, and no page
\* is told to stop while its session may still be confirmed.
THEOREM LoginsConfirmed == Spec => []InAsConfirmed
BY InvInductive, PTL DEF Inv
=============================================================================

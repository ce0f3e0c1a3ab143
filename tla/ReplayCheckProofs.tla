------------------------- MODULE ReplayCheckProofs -------------------------
(***************************************************************************)
(* Proofs about ReplayCheck, for every set of requests and proofs, every   *)
(* window, TTL and delay.                                                  *)
(***************************************************************************)
EXTENDS ReplayCheck, TLAPS

(***************************************************************************)
(* The inductive invariant.                                                *)
(***************************************************************************)

\* The caches follow the history since they were last lost: an entry is what the
\* last recording made it.
CacheInv ==
    /\ \A e \in Kinds \X Jtis :
          /\ jtiCache[e] <= now + JTITTL
          /\ jtiCache[e] > 0 =>
                \E x \in accepted :
                    x.recorded /\ Entry(x.proof) = e /\ jtiCache[e] = x.at + JTITTL
    /\ \A x \in accepted :
          /\ x.epoch <= epoch
          /\ x.recorded /\ x.epoch = epoch => jtiCache[Entry(x.proof)] >= x.at + JTITTL

\* A request under check: its proof was found fresh not long ago, and what it saw
\* in the cache covers everything accepted before it arrived.
RequestInv(r) ==
    /\ stage[r] \in Checking \cup {"replayed"} => req[r].proof \in Proofs
    /\ stage[r] \in {"look", "record"} =>
          /\ req[r].checkedAt <= now
          /\ now <= req[r].checkedAt + MaxDelay
          /\ Fresh(req[r].proof, req[r].checkedAt)
    /\ stage[r] = "record" /\ req[r].looked =>
          \A x \in req[r].prior :
              x.recorded /\ x.epoch = epoch /\ Entry(x.proof) = Entry(req[r].proof) =>
                  now >= x.at + JTITTL
    /\ stage[r] = "idle" => req[r] = NoRequest
    /\ req[r].then # NoProof =>
          req[r].proof # NoProof /\ req[r].proof.kind = "dpop" /\ req[r].then.kind # "dpop"
    /\ req[r].prior \subseteq accepted

AcceptedInv ==
    \A x \in accepted :
        /\ x.at <= now
        /\ stage[x.by] # "idle"
        /\ req[x.by].then = NoProof
        /\ req[x.by].proof # NoProof => req[x.by].proof.kind # x.proof.kind
        /\ x.proof.kind = "dpop" =>
              /\ x.at >= x.proof.iat - DPoPWindow
              /\ x.at <= x.proof.iat + DPoPWindow + MaxDelay

Inv ==
    /\ TypeOK
    /\ CacheInv
    /\ \A r \in Reqs : RequestInv(r)
    /\ AcceptedInv
    /\ ReplaysWaitForTTL
    /\ ReplayedWasAccepted

(***************************************************************************)
(* What a proof's passing does to the state.                               *)
(***************************************************************************)

\* Pass only touches its own request and adds one acceptance, of the proof at hand.
LEMMA PassEffect ==
    ASSUME TypeOK, NEW r \in Reqs, req[r].proof \in Proofs,
           NEW looked \in BOOLEAN, NEW recorded \in BOOLEAN, Pass(r, looked, recorded)
    PROVE  /\ accepted' = accepted \cup
                 {[by |-> r, proof |-> req[r].proof, at |-> now, epoch |-> epoch,
                   looked |-> looked, recorded |-> recorded]}
           /\ accepted' \subseteq Acceptance
           /\ req' \in [Reqs -> Request]
           /\ stage' \in [Reqs -> Stages]
           /\ stage'[r] \in {"fresh", "grant"}
           /\ stage'[r] = "fresh" <=> req[r].then # NoProof
           /\ req'[r].proof = req[r].then
           /\ req'[r].then = NoProof
           /\ req'[r].prior = req[r].prior
           /\ \A q \in Reqs \ {r} : req'[q] = req[q] /\ stage'[q] = stage[q]
<1> DEFINE new == [by |-> r, proof |-> req[r].proof, at |-> now, epoch |-> epoch,
                   looked |-> looked, recorded |-> recorded]
<1>1. new \in Acceptance
    BY DEF Acceptance, TypeOK
<1>2. accepted' = accepted \cup {new}
    BY DEF Pass
<1>3. accepted' \subseteq Acceptance
    BY <1>1, <1>2 DEF TypeOK
<1>4. req[r] \in Request
    BY DEF TypeOK
<1>5. req' = [req EXCEPT ![r] = [req[r] EXCEPT !.proof = req[r].then, !.then = NoProof,
                 !.checkedAt = 0, !.looked = FALSE,
                 !.jkt = req[r].jkt \/ req[r].proof.kind = "dpop"]]
    BY <1>4 DEF Pass, Request, TypeOK
<1>6. [req[r] EXCEPT !.proof = req[r].then, !.then = NoProof,
                 !.checkedAt = 0, !.looked = FALSE,
                 !.jkt = req[r].jkt \/ req[r].proof.kind = "dpop"] \in Request
    BY <1>4 DEF Request
<1>7. req' \in [Reqs -> Request]
    BY <1>5, <1>6 DEF TypeOK
<1>8. stage' = [stage EXCEPT ![r] = IF req[r].then = NoProof THEN "grant" ELSE "fresh"]
    BY DEF Pass, Goto, Check
<1>9. stage' \in [Reqs -> Stages]
    BY <1>8 DEF TypeOK, Stages, Checking
<1>10. /\ req'[r].proof = req[r].then
       /\ req'[r].then = NoProof
       /\ req'[r].prior = req[r].prior
    BY <1>4, <1>5 DEF TypeOK, Request
<1>11. \A q \in Reqs \ {r} : req'[q] = req[q] /\ stage'[q] = stage[q]
    BY <1>5, <1>8 DEF TypeOK
<1>12. QED
    BY <1>2, <1>3, <1>7, <1>8, <1>9, <1>10, <1>11 DEF TypeOK

\* The proof at hand passed with that outcome of the two cache calls.
Passes(r) ==
    /\ stage[r] \in {"look", "record"}
    /\ \E looked, recorded \in BOOLEAN :
          /\ Pass(r, looked, recorded)
          /\ looked => stage[r] = "record" /\ req[r].looked
          /\ IF recorded
             THEN jtiCache' = [jtiCache EXCEPT ![Entry(req[r].proof)] = now + JTITTL]
             ELSE jtiCache' = jtiCache
    /\ now' = now /\ epoch' = epoch

\* The handler's early returns: nothing is accepted, nothing recorded.
Stops(r) ==
    /\ stage[r] \in {"look", "record", "fresh", "grant"}
    /\ stage' \in [Reqs -> Stages]
    /\ stage'[r] \in {"refused", "replayed", "ok", "failed"}
    /\ stage'[r] = "replayed" => stage[r] = "look" /\ now < jtiCache[Entry(req[r].proof)]
    /\ \A q \in Reqs \ {r} : stage'[q] = stage[q]
    /\ UNCHANGED <<now, jtiCache, epoch, req, accepted>>

\* Moving on without a verdict: the freshness check, and the look that goes on to
\* record.
Proceeds(r) ==
    \/ CheckFresh(r) /\ Fresh(req[r].proof, now)
    \/ LookUnseen(r)
    \/ LookFails(r) /\ req[r].proof.kind = "assertion"

\* The cases of a step, as the proofs below take them apart.
LEMMA StepCases ==
    ASSUME TypeOK, NEW r \in Reqs, Step(r)
    PROVE  Arrive(r) \/ Proceeds(r) \/ Passes(r) \/ Stops(r)
<1>1. CASE CheckFresh(r)
    BY <1>1 DEF CheckFresh, Proceeds, Stops, Goto, TypeOK, Stages
<1>2. CASE LookSeen(r)
    BY <1>2 DEF LookSeen, Stops, Goto, TypeOK, Stages
<1>3. CASE LookFails(r)
    <2>1. CASE req[r].proof.kind = "assertion"
        BY <1>3, <2>1 DEF Proceeds
    <2>2. CASE req[r].proof.kind # "assertion"
        BY <1>3, <2>2 DEF LookFails, Passes
    <2>3. QED
        BY <2>1, <2>2
<1>4. CASE Record(r)
    <2>1. req[r].looked \in BOOLEAN
        BY DEF TypeOK, Request
    <2>2. QED
        BY <1>4, <2>1 DEF Record, Passes
<1>5. CASE RecordFails(r)
    <2>1. req[r].looked \in BOOLEAN
        BY DEF TypeOK, Request
    <2>2. CASE req[r].proof.kind = "dpop"
        BY <1>5, <2>2 DEF RecordFails, Stops, Goto, TypeOK, Stages
    <2>3. CASE req[r].proof.kind # "dpop"
        BY <1>5, <2>1, <2>3 DEF RecordFails, Passes
    <2>4. QED
        BY <2>2, <2>3
<1>6. CASE Grant(r)
    BY <1>6 DEF Grant, Stops, Goto, TypeOK, Stages
<1>7. QED
    BY <1>1, <1>2, <1>3, <1>4, <1>5, <1>6 DEF Step, Proceeds

\* Moving on keeps the proofs a request presented and what it saw accepted.
LEMMA ProceedsEffect ==
    ASSUME TypeOK, NEW r \in Reqs, Proceeds(r), NEW q \in Reqs
    PROVE  /\ accepted' = accepted /\ now' = now /\ epoch' = epoch
           /\ req'[q].proof = req[q].proof
           /\ req'[q].then = req[q].then
           /\ req'[q].prior = req[q].prior
           /\ stage[q] # "idle" => stage'[q] # "idle"
<1>1. req[q] \in Request
    BY DEF TypeOK
<1>2. CASE CheckFresh(r) /\ Fresh(req[r].proof, now)
    <2>1. req' = [req EXCEPT ![r].checkedAt = now] /\ stage' = [stage EXCEPT ![r] = "look"]
          /\ accepted' = accepted /\ now' = now /\ epoch' = epoch
        BY <1>2 DEF CheckFresh, Goto
    <2>2. QED
        BY <1>1, <2>1 DEF TypeOK, Request
<1>3. ASSUME NEW looked \in BOOLEAN, req' = [req EXCEPT ![r].looked = looked],
             stage' = [stage EXCEPT ![r] = "record"], accepted' = accepted, now' = now,
             epoch' = epoch
      PROVE  /\ req'[q].proof = req[q].proof
             /\ req'[q].then = req[q].then
             /\ req'[q].prior = req[q].prior
             /\ stage[q] # "idle" => stage'[q] # "idle"
    BY <1>1, <1>3 DEF TypeOK, Request
<1>4. CASE LookUnseen(r)
    BY <1>3, <1>4 DEF LookUnseen, Goto
<1>5. CASE LookFails(r) /\ req[r].proof.kind = "assertion"
    BY <1>3, <1>5 DEF LookFails, Goto
<1>6. QED
    BY <1>2, <1>4, <1>5 DEF Proceeds

\* A request that is being looked up or recorded has a proof at hand.
LEMMA PassesEffect ==
    ASSUME Inv, NEW r \in Reqs, Passes(r)
    PROVE  \E x \in Acceptance :
              /\ accepted' = accepted \cup {x}
              /\ x.by = r /\ x.proof = req[r].proof /\ x.at = now /\ x.epoch = epoch
              /\ x.looked => stage[r] = "record" /\ req[r].looked
              /\ IF x.recorded
                 THEN jtiCache' = [jtiCache EXCEPT ![Entry(req[r].proof)] = now + JTITTL]
                 ELSE jtiCache' = jtiCache
              /\ accepted' \subseteq Acceptance
              /\ req[r].proof \in Proofs
              /\ req' \in [Reqs -> Request]
              /\ stage' \in [Reqs -> Stages]
              /\ stage'[r] \in {"fresh", "grant"}
              /\ stage'[r] = "fresh" <=> req[r].then # NoProof
              /\ req'[r].proof = req[r].then
              /\ req'[r].then = NoProof
              /\ req'[r].prior = req[r].prior
              /\ \A q \in Reqs \ {r} : req'[q] = req[q] /\ stage'[q] = stage[q]
<1>1. TypeOK /\ req[r].proof \in Proofs
    BY DEF Inv, Passes, RequestInv, Checking
<1>2. PICK looked \in BOOLEAN, recorded \in BOOLEAN :
          /\ Pass(r, looked, recorded)
          /\ looked => stage[r] = "record" /\ req[r].looked
          /\ IF recorded
             THEN jtiCache' = [jtiCache EXCEPT ![Entry(req[r].proof)] = now + JTITTL]
             ELSE jtiCache' = jtiCache
    BY DEF Passes
<1> DEFINE x == [by |-> r, proof |-> req[r].proof, at |-> now, epoch |-> epoch,
                 looked |-> looked, recorded |-> recorded]
<1>3. /\ accepted' = accepted \cup {x}
      /\ accepted' \subseteq Acceptance
      /\ req' \in [Reqs -> Request]
      /\ stage' \in [Reqs -> Stages]
      /\ stage'[r] \in {"fresh", "grant"}
      /\ stage'[r] = "fresh" <=> req[r].then # NoProof
      /\ req'[r].proof = req[r].then
      /\ req'[r].then = NoProof
      /\ req'[r].prior = req[r].prior
      /\ \A q \in Reqs \ {r} : req'[q] = req[q] /\ stage'[q] = stage[q]
    BY <1>1, <1>2, PassEffect
<1>4. x \in Acceptance
    BY <1>3
<1>5. x.by = r /\ x.proof = req[r].proof /\ x.at = now /\ x.epoch = epoch /\ x.looked = looked
      /\ x.recorded = recorded
    OBVIOUS
<1> HIDE DEF x
<1>6. QED
    BY <1>1, <1>2, <1>3, <1>4, <1>5

(***************************************************************************)
(* Every step preserves each part of the invariant.                        *)
(***************************************************************************)

\* Types.
LEMMA TypeStep ==
    ASSUME Inv, Next
    PROVE  TypeOK'
<1>1. TypeOK
    BY DEF Inv
<1>2. CASE Tick
    BY <1>1, <1>2 DEF Tick, TypeOK
<1>3. ASSUME NEW r \in Reqs, Arrive(r)
      PROVE  TypeOK'
    <2>1. PICK grant \in Grants, mustBind \in BOOLEAN,
               first \in Proofs \cup {NoProof}, second \in Proofs \cup {NoProof} :
             /\ req' = [req EXCEPT ![r] = [NoRequest EXCEPT !.grant = grant, !.proof = first,
                           !.then = second, !.mustBind = mustBind, !.prior = accepted]]
             /\ Goto(r, Check(first))
             /\ UNCHANGED <<now, jtiCache, epoch, accepted>>
        BY <1>3 DEF Arrive
    <2>2. [NoRequest EXCEPT !.grant = grant, !.proof = first, !.then = second,
                            !.mustBind = mustBind, !.prior = accepted] \in Request
        BY <1>1 DEF NoRequest, Request, TypeOK
    <2>3. Check(first) \in Stages
        BY DEF Check, Stages, Checking
    <2>4. QED
        BY <1>1, <2>1, <2>2, <2>3 DEF TypeOK, Goto
<1>4. ASSUME NEW r \in Reqs, Proceeds(r)
      PROVE  TypeOK'
    <2>1. PICK checkedAt \in Nat, looked \in BOOLEAN :
             req' = [req EXCEPT ![r].checkedAt = checkedAt, ![r].looked = looked]
        <3>1. req[r] \in Request
            BY <1>1 DEF TypeOK
        <3>2. CASE CheckFresh(r) /\ Fresh(req[r].proof, now)
            <4>1. req' = [req EXCEPT ![r].checkedAt = now, ![r].looked = req[r].looked]
                BY <1>1, <3>1, <3>2 DEF CheckFresh, TypeOK, Request
            <4>2. QED
                BY <1>1, <3>1, <4>1 DEF TypeOK, Request
        <3>3. ASSUME NEW looked \in BOOLEAN, req' = [req EXCEPT ![r].looked = looked]
              PROVE  \E c \in Nat, l \in BOOLEAN :
                        req' = [req EXCEPT ![r].checkedAt = c, ![r].looked = l]
            <4>1. req' = [req EXCEPT ![r].checkedAt = req[r].checkedAt, ![r].looked = looked]
                BY <1>1, <3>1, <3>3 DEF TypeOK, Request
            <4>2. QED
                BY <3>1, <4>1 DEF Request
        <3>4. QED
            BY <1>4, <3>2, <3>3 DEF Proceeds, LookUnseen, LookFails
    <2>2. [req[r] EXCEPT !.checkedAt = checkedAt, !.looked = looked] \in Request
        BY <1>1 DEF TypeOK, Request
    <2>3. req' \in [Reqs -> Request]
        BY <1>1, <2>1, <2>2 DEF TypeOK
    <2>4. QED
        BY <1>1, <1>4, <2>3
           DEF TypeOK, Proceeds, CheckFresh, LookUnseen, LookFails, Goto, Stages, Checking
<1>5. ASSUME NEW r \in Reqs, Passes(r)
      PROVE  TypeOK'
    <2>1. now' = now /\ epoch' = epoch
        BY <1>5 DEF Passes
    <2>2. now + JTITTL \in Nat
        BY <1>1, TimesAssumption DEF TypeOK
    <2>3. jtiCache' \in [Kinds \X Jtis -> Nat]
        BY <1>1, <1>5, <2>2 DEF TypeOK, Passes
    <2>4. QED
        BY <1>1, <1>5, <2>1, <2>3, PassesEffect DEF TypeOK
<1>6. ASSUME NEW r \in Reqs, Stops(r)
      PROVE  TypeOK'
    BY <1>1, <1>6 DEF Stops, TypeOK
<1>7. CASE Restart
    BY <1>1, <1>7 DEF Restart, TypeOK, Stages
<1>8. QED
    BY <1>1, <1>2, <1>3, <1>4, <1>5, <1>6, <1>7, StepCases DEF Next

\* The caches: an entry changes only when a proof with its jti passes, or when the
\* caches are lost.
LEMMA CacheStep ==
    ASSUME Inv, Next
    PROVE  CacheInv'
<1>1. TypeOK /\ CacheInv
    BY DEF Inv
<1>2. CASE Tick
    BY <1>1, <1>2, TimesAssumption DEF Tick, CacheInv, TypeOK
<1>3. ASSUME UNCHANGED <<now, jtiCache, epoch, accepted>>
      PROVE  CacheInv'
    BY <1>1, <1>3 DEF CacheInv
<1>4. ASSUME NEW r \in Reqs, Passes(r)
      PROVE  CacheInv'
    <2>1. PICK x \in Acceptance :
              /\ accepted' = accepted \cup {x}
              /\ x.proof = req[r].proof /\ x.at = now /\ x.epoch = epoch
              /\ IF x.recorded
                 THEN jtiCache' = [jtiCache EXCEPT ![Entry(req[r].proof)] = now + JTITTL]
                 ELSE jtiCache' = jtiCache
              /\ req[r].proof \in Proofs
        BY <1>4, PassesEffect
    <2>2. now' = now /\ epoch' = epoch /\ epoch \in Nat
        BY <1>1, <1>4 DEF Passes, TypeOK
    <2>3. \A p \in Proofs : Entry(p) \in Kinds \X Jtis
        BY ProofsAssumption DEF Entry, Proof
    <2>4. \A y \in accepted : y.at \in Nat /\ y.proof \in Proofs
        BY <1>1 DEF TypeOK, Acceptance
    <2>5. CASE x.recorded
        <3>1. jtiCache' = [jtiCache EXCEPT ![Entry(x.proof)] = now + JTITTL]
            BY <2>1, <2>5
        <3>2. ASSUME NEW e \in Kinds \X Jtis
              PROVE  /\ jtiCache'[e] <= now' + JTITTL
                     /\ jtiCache'[e] > 0 => \E y \in accepted' :
                           y.recorded /\ Entry(y.proof) = e /\ jtiCache'[e] = y.at + JTITTL
            <4>1. CASE e = Entry(x.proof)
                BY <1>1, <2>1, <2>2, <2>3, <2>5, <3>1, <4>1, TimesAssumption DEF TypeOK
            <4>2. CASE e # Entry(x.proof)
                BY <1>1, <2>1, <2>2, <3>1, <4>2 DEF TypeOK, CacheInv
            <4>3. QED
                BY <4>1, <4>2
        <3>3. ASSUME NEW y \in accepted', y.recorded, y.epoch = epoch
              PROVE  jtiCache'[Entry(y.proof)] >= y.at + JTITTL
            <4>1. CASE Entry(y.proof) = Entry(x.proof)
                <5>1. jtiCache[Entry(x.proof)] <= now + JTITTL
                    BY <1>1, <2>1, <2>3 DEF CacheInv
                <5>2. jtiCache'[Entry(x.proof)] = now + JTITTL
                    BY <1>1, <2>1, <2>3, <3>1 DEF TypeOK
                <5>3. CASE y = x
                    BY <1>1, <2>1, <4>1, <5>2, <5>3, TimesAssumption DEF TypeOK
                <5>4. CASE y \in accepted
                    <6>1. jtiCache[Entry(y.proof)] >= y.at + JTITTL
                        BY <1>1, <3>3, <5>4 DEF CacheInv
                    <6>2. jtiCache[Entry(x.proof)] \in Nat
                        BY <1>1, <2>1, <2>3 DEF TypeOK
                    <6>3. now + JTITTL \in Nat /\ y.at + JTITTL \in Nat
                        BY <1>1, <2>4, <5>4, TimesAssumption DEF TypeOK
                    <6>4. QED
                        BY <4>1, <5>1, <5>2, <6>1, <6>2, <6>3
                <5>5. QED
                    BY <2>1, <5>3, <5>4
            <4>2. CASE Entry(y.proof) # Entry(x.proof)
                <5>1. y \in accepted
                    BY <2>1, <4>2
                <5>2. jtiCache[Entry(y.proof)] >= y.at + JTITTL
                    BY <1>1, <3>3, <5>1 DEF CacheInv
                <5>3. jtiCache'[Entry(y.proof)] = jtiCache[Entry(y.proof)]
                    BY <1>1, <2>1, <2>3, <2>4, <3>1, <4>2, <5>1 DEF TypeOK
                <5>4. QED
                    BY <5>2, <5>3
            <4>3. QED
                BY <4>1, <4>2
        <3>4. \A y \in accepted' : y.epoch <= epoch
            BY <1>1, <2>1, <2>2 DEF CacheInv
        <3>5. QED
            BY <2>2, <3>2, <3>3, <3>4 DEF CacheInv
    <2>6. CASE ~ x.recorded
        BY <1>1, <2>1, <2>2, <2>6 DEF CacheInv
    <2>7. QED
        BY <2>5, <2>6
<1>5. ASSUME NEW r \in Reqs, Step(r)
      PROVE  CacheInv'
    BY <1>1, <1>3, <1>4, <1>5, StepCases
       DEF Arrive, Proceeds, CheckFresh, LookUnseen, LookFails, Stops
<1>6. CASE Restart
    <2>1. CASE UNCHANGED <<jtiCache, epoch>>
        BY <1>3, <1>6, <2>1 DEF Restart
    <2>2. CASE epoch' = epoch + 1 /\ jtiCache' = [entry \in Kinds \X Jtis |-> 0]
        <3>1. now' = now /\ accepted' = accepted /\ now + JTITTL \in Nat
            BY <1>1, <1>6, TimesAssumption DEF Restart, TypeOK
        <3>2. \A x \in accepted : x.epoch \in Nat /\ epoch \in Nat
            BY <1>1 DEF TypeOK, Acceptance
        <3>3. \A x \in accepted' : x.epoch <= epoch' /\ x.epoch # epoch'
            BY <1>1, <2>2, <3>1, <3>2 DEF CacheInv
        <3>4. QED
            BY <2>2, <3>1, <3>3 DEF CacheInv
    <2>3. QED
        BY <1>6, <2>1, <2>2 DEF Restart
<1>7. QED
    BY <1>2, <1>5, <1>6 DEF Next

\* What one request knows about its own proof and about the past.
LEMMA RequestStep ==
    ASSUME Inv, Next, NEW q \in Reqs
    PROVE  RequestInv(q)'
<1>1. TypeOK /\ RequestInv(q) /\ CacheInv /\ now \in Nat /\ req[q] \in Request
    BY DEF Inv, TypeOK
<1>2. CASE Tick
    BY <1>1, <1>2, TimesAssumption DEF Tick, RequestInv, Request, Acceptance, Checking
<1>3. ASSUME req'[q] = req[q], stage'[q] = stage[q], now' = now, epoch' = epoch,
             accepted \subseteq accepted'
      PROVE  RequestInv(q)'
    BY <1>1, <1>3 DEF RequestInv
<1>4. CASE Arrive(q)
    <2>1. PICK grant \in Grants, mustBind \in BOOLEAN,
               first \in Proofs \cup {NoProof}, second \in Proofs \cup {NoProof} :
             /\ Presents(grant, first, second)
             /\ req' = [req EXCEPT ![q] = [NoRequest EXCEPT !.grant = grant, !.proof = first,
                           !.then = second, !.mustBind = mustBind, !.prior = accepted]]
             /\ Goto(q, Check(first))
             /\ UNCHANGED <<now, jtiCache, epoch, accepted>>
             /\ grant # "none"
        BY <1>4 DEF Arrive
    <2>2. /\ req'[q].proof = first /\ req'[q].then = second /\ req'[q].prior = accepted
          /\ stage'[q] = IF first = NoProof THEN "grant" ELSE "fresh"
        BY <1>1, <2>1 DEF TypeOK, NoRequest, Goto, Check
    <2>3. second # NoProof =>
              first # NoProof /\ first.kind = "dpop" /\ second.kind # "dpop"
        BY <2>1, ProofsAssumption DEF Presents, KindOf, Required, Grants
    <2>4. QED
        BY <1>1, <2>1, <2>2, <2>3 DEF RequestInv, Checking
<1>5. CASE Proceeds(q)
    <2>1. CASE CheckFresh(q) /\ Fresh(req[q].proof, now)
        BY <1>1, <2>1, TimesAssumption
           DEF CheckFresh, Goto, RequestInv, TypeOK, Request, Checking
    <2>2. CASE LookUnseen(q)
        <3>1. /\ stage[q] = "look" /\ stage'[q] = "record"
              /\ req'[q] = [req[q] EXCEPT !.looked = TRUE]
              /\ UNCHANGED <<now, jtiCache, epoch, accepted>>
              /\ now >= jtiCache[Entry(req[q].proof)]
            BY <1>1, <2>2 DEF LookUnseen, Goto, TypeOK
        <3>2. ASSUME NEW x \in req[q].prior, x.recorded, x.epoch = epoch,
                     Entry(x.proof) = Entry(req[q].proof)
              PROVE  now >= x.at + JTITTL
            <4>1. x \in accepted
                BY <1>1 DEF RequestInv
            <4>2. jtiCache[Entry(x.proof)] >= x.at + JTITTL
                BY <1>1, <3>2, <4>1 DEF CacheInv
            <4>3. Entry(req[q].proof) \in Kinds \X Jtis
                BY <1>1, <3>1, ProofsAssumption DEF RequestInv, Checking, Entry, Proof
            <4>4. jtiCache[Entry(req[q].proof)] \in Nat /\ x.at + JTITTL \in Nat
                BY <1>1, <4>1, <4>3, TimesAssumption DEF TypeOK, Acceptance
            <4>5. QED
                BY <1>1, <3>1, <3>2, <4>2, <4>4
        <3>3. QED
            BY <1>1, <3>1, <3>2 DEF RequestInv, Request, Checking
    <2>3. CASE LookFails(q) /\ req[q].proof.kind = "assertion"
        BY <1>1, <2>3 DEF LookFails, Goto, RequestInv, TypeOK, Request, Checking
    <2>4. QED
        BY <1>5, <2>1, <2>2, <2>3 DEF Proceeds
<1>6. CASE Passes(q)
    <2>1. /\ now' = now /\ accepted \subseteq accepted'
          /\ stage'[q] \in {"fresh", "grant"}
          /\ stage'[q] = "fresh" <=> req[q].then # NoProof
          /\ req'[q].proof = req[q].then
          /\ req'[q].then = NoProof
          /\ req'[q].prior = req[q].prior
        BY <1>6, PassesEffect DEF Passes
    <2>2. req[q].then \in Proofs \cup {NoProof}
        BY <1>1 DEF Request
    <2>3. QED
        BY <1>1, <2>1, <2>2 DEF RequestInv, Checking
<1>7. CASE Stops(q)
    BY <1>1, <1>7 DEF Stops, RequestInv, Checking
<1>8. ASSUME NEW r \in Reqs, r # q, Step(r)
      PROVE  RequestInv(q)'
    <2>1. CASE Passes(r)
        BY <1>3, <1>8, <2>1, PassesEffect DEF Passes
    <2>2. QED
        BY <1>1, <1>3, <1>8, <2>1, StepCases
           DEF Arrive, Proceeds, CheckFresh, LookUnseen, LookFails, Stops, Goto, TypeOK
<1>9. CASE Restart
    <2>1. /\ req' = req /\ accepted' = accepted
          /\ stage'[q] \notin Checking
          /\ stage'[q] \in {"replayed", "idle"} => stage[q] = stage'[q]
        BY <1>1, <1>9 DEF Restart, TypeOK, Checking
    <2>2. QED
        BY <1>1, <2>1 DEF RequestInv, Checking
<1>10. QED
    BY <1>1, <1>2, <1>4, <1>5, <1>6, <1>7, <1>8, <1>9, StepCases DEF Next

\* A DPoP proof is accepted within its window, but for the delay of its handler.
LEMMA AcceptedStep ==
    ASSUME Inv, Next
    PROVE  AcceptedInv'
<1>1. TypeOK /\ AcceptedInv /\ now \in Nat
    BY DEF Inv, TypeOK
<1>2. CASE Tick
    BY <1>1, <1>2 DEF Tick, AcceptedInv, TypeOK, Acceptance
<1>3. ASSUME NEW r \in Reqs, Arrive(r)
      PROVE  AcceptedInv'
    <2>1. \A x \in accepted : x.by \in Reqs /\ x.by # r
        BY <1>1, <1>3 DEF Arrive, AcceptedInv, TypeOK, Acceptance
    <2>2. \A q \in Reqs \ {r} : req'[q] = req[q] /\ stage'[q] = stage[q]
        BY <1>1, <1>3 DEF Arrive, Goto, TypeOK
    <2>3. QED
        BY <1>1, <1>3, <2>1, <2>2 DEF Arrive, AcceptedInv
<1>4. ASSUME NEW r \in Reqs, Proceeds(r) \/ Stops(r)
      PROVE  AcceptedInv'
    <2>1. /\ UNCHANGED <<now, accepted>>
          /\ \A q \in Reqs : /\ req'[q].proof = req[q].proof
                             /\ req'[q].then = req[q].then
                             /\ stage[q] # "idle" => stage'[q] # "idle"
        BY <1>1, <1>4, ProceedsEffect DEF Stops
    <2>2. QED
        BY <1>1, <2>1 DEF AcceptedInv, TypeOK, Acceptance
<1>5. ASSUME NEW r \in Reqs, Passes(r)
      PROVE  AcceptedInv'
    <2>1. PICK x \in Acceptance :
              /\ accepted' = accepted \cup {x}
              /\ x.by = r /\ x.proof = req[r].proof /\ x.at = now
              /\ req[r].proof \in Proofs
              /\ stage'[r] \in {"fresh", "grant"}
              /\ req'[r].proof = req[r].then
              /\ req'[r].then = NoProof
              /\ \A q \in Reqs \ {r} : req'[q] = req[q] /\ stage'[q] = stage[q]
        BY <1>5, PassesEffect
    <2>2. now' = now /\ stage[r] \in {"look", "record"} /\ RequestInv(r)
        BY <1>5 DEF Passes, Inv
    <2>3. /\ req[r].proof # NoProof
          /\ req[r].checkedAt \in Nat
          /\ req[r].proof.iat \in Nat
        BY <1>1, <2>1, ProofsAssumption DEF Proof, TypeOK, Request
    <2>4. ASSUME x.proof.kind = "dpop"
          PROVE  /\ x.at >= x.proof.iat - DPoPWindow
                 /\ x.at <= x.proof.iat + DPoPWindow + MaxDelay
        <3>1. Near(x.proof.iat, req[r].checkedAt, DPoPWindow)
            BY <2>1, <2>2, <2>4 DEF RequestInv, Fresh, FreshDPoP
        <3>2. QED
            BY <1>1, <2>1, <2>2, <2>3, <3>1, TimesAssumption DEF RequestInv, Near
    <2>5. ASSUME NEW y \in accepted, y.by = r
          PROVE  /\ req'[r].then = NoProof
                 /\ req'[r].proof # NoProof => req'[r].proof.kind # y.proof.kind
        <3>1. req[r].then = NoProof
            BY <1>1, <2>5 DEF AcceptedInv
        <3>2. QED
            BY <2>1, <3>1
    <2>6. req'[r].proof # NoProof => req'[r].proof.kind # x.proof.kind
        BY <2>1, <2>2 DEF RequestInv
    <2>7. ASSUME NEW y \in accepted, y.by # r
          PROVE  /\ stage'[y.by] # "idle"
                 /\ req'[y.by].then = NoProof
                 /\ req'[y.by].proof # NoProof => req'[y.by].proof.kind # y.proof.kind
        <3>1. y.by \in Reqs
            BY <1>1 DEF TypeOK, Acceptance
        <3>2. QED
            BY <1>1, <2>1, <2>7, <3>1 DEF AcceptedInv
    <2>8. QED
        BY <1>1, <2>1, <2>2, <2>4, <2>5, <2>6, <2>7 DEF AcceptedInv
<1>6. CASE Restart
    <2>1. /\ UNCHANGED <<now, req, accepted>>
          /\ \A q \in Reqs : stage[q] # "idle" => stage'[q] # "idle"
        BY <1>1, <1>6 DEF Restart, TypeOK
    <2>2. QED
        BY <1>1, <2>1 DEF AcceptedInv, TypeOK, Acceptance
<1>7. QED
    BY <1>2, <1>3, <1>4, <1>5, <1>6, <1>1, StepCases DEF Next

\* A replay passes no sooner than JTITTL after the first use.
LEMMA ReplaysStep ==
    ASSUME Inv, Next
    PROVE  ReplaysWaitForTTL'
<1>1. TypeOK /\ AcceptedInv /\ ReplaysWaitForTTL /\ \A r \in Reqs : RequestInv(r)
    BY DEF Inv
<1>2. \A y \in accepted : y.by \in Reqs /\ stage[y.by] # "idle"
    BY <1>1 DEF TypeOK, Acceptance, AcceptedInv
<1>3. ASSUME accepted' = accepted, \A y \in accepted : req'[y.by].prior = req[y.by].prior
      PROVE  ReplaysWaitForTTL'
    BY <1>1, <1>3 DEF ReplaysWaitForTTL, Replays
<1>4. CASE Tick
    BY <1>3, <1>4 DEF Tick
<1>5. ASSUME NEW r \in Reqs, Arrive(r)
      PROVE  ReplaysWaitForTTL'
    <2>1. \A y \in accepted : y.by # r
        BY <1>2, <1>5 DEF Arrive
    <2>2. \A y \in accepted : req'[y.by] = req[y.by]
        BY <1>1, <1>2, <1>5, <2>1 DEF Arrive, TypeOK
    <2>3. QED
        BY <1>3, <1>5, <2>2 DEF Arrive
<1>6. ASSUME NEW r \in Reqs, Proceeds(r) \/ Stops(r)
      PROVE  ReplaysWaitForTTL'
    <2>1. accepted' = accepted /\ \A q \in Reqs : req'[q].prior = req[q].prior
        BY <1>1, <1>6, ProceedsEffect DEF Stops
    <2>2. QED
        BY <1>2, <1>3, <2>1
<1>7. ASSUME NEW r \in Reqs, Passes(r)
      PROVE  ReplaysWaitForTTL'
    <2>1. PICK z \in Acceptance :
              /\ accepted' = accepted \cup {z}
              /\ z.by = r /\ z.proof = req[r].proof /\ z.at = now /\ z.epoch = epoch
              /\ z.looked => stage[r] = "record" /\ req[r].looked
              /\ req'[r].prior = req[r].prior
              /\ \A q \in Reqs \ {r} : req'[q] = req[q]
        BY <1>7, PassesEffect
    <2>2. \A q \in Reqs : req'[q].prior = req[q].prior /\ req[q].prior \subseteq accepted
        BY <1>1, <2>1 DEF RequestInv
    <2>3. ASSUME NEW x \in accepted', NEW y \in accepted', Replays(x, y)'
          PROVE  y.at >= x.at + JTITTL
        <3>1. y.by \in Reqs
            BY <1>2, <2>1
        <3>2. x \in accepted /\ Replays(x, y)
            BY <2>2, <2>3, <3>1 DEF Replays
        <3>3. CASE y \in accepted
            BY <1>1, <3>2, <3>3 DEF ReplaysWaitForTTL
        <3>4. CASE y = z
            BY <1>1, <2>1, <3>2, <3>4 DEF Replays, RequestInv
        <3>5. QED
            BY <2>1, <3>3, <3>4
    <2>4. QED
        BY <2>3 DEF ReplaysWaitForTTL
<1>8. CASE Restart
    BY <1>3, <1>8 DEF Restart
<1>9. QED
    BY <1>1, <1>4, <1>5, <1>6, <1>7, <1>8, StepCases DEF Next

\* A jti is only known because another request had it recorded.
LEMMA ReplayedStep ==
    ASSUME Inv, Next
    PROVE  ReplayedWasAccepted'
<1>1. TypeOK /\ AcceptedInv /\ CacheInv /\ ReplayedWasAccepted /\ now \in Nat
    BY DEF Inv, TypeOK
<1>2. ASSUME NEW q \in Reqs, stage[q] = "replayed", req'[q] = req[q], accepted \subseteq accepted'
      PROVE  \E x \in accepted' :
                /\ x.recorded
                /\ x.by # q
                /\ x.proof.kind = req'[q].proof.kind
                /\ x.proof.jti = req'[q].proof.jti
                /\ req'[q].checkedAt < x.at + JTITTL
    BY <1>1, <1>2 DEF ReplayedWasAccepted
<1>3. ASSUME NEW q \in Reqs, stage'[q] = "replayed", stage[q] # "replayed"
      PROVE  /\ Stops(q) /\ stage[q] = "look" /\ now < jtiCache[Entry(req[q].proof)]
    <2>1. ~ Tick /\ ~ Restart
        BY <1>1, <1>3 DEF Tick, Restart, TypeOK
    <2>2. PICK r \in Reqs : Step(r)
        BY <2>1 DEF Next
    <2>3. r = q
        <3>1. CASE Passes(r)
            BY <1>3, <3>1, PassesEffect
        <3>2. QED
            BY <1>1, <1>3, <2>2, <3>1, StepCases
               DEF Arrive, Proceeds, CheckFresh, LookUnseen, LookFails, Stops, Goto, TypeOK
    <2>4. ~ Passes(q)
        BY <1>3, PassesEffect
    <2>5. QED
        BY <1>1, <1>3, <2>2, <2>3, <2>4, StepCases
           DEF Arrive, Proceeds, CheckFresh, LookUnseen, LookFails, Stops, Goto, TypeOK, Check
<1>4. ASSUME NEW q \in Reqs, stage[q] = "replayed"
      PROVE  req'[q] = req[q] /\ accepted \subseteq accepted'
    <2>1. CASE Tick \/ Restart
        BY <2>1 DEF Tick, Restart
    <2>2. ASSUME NEW r \in Reqs, Step(r)
          PROVE  req'[q] = req[q] /\ accepted \subseteq accepted'
        <3>1. CASE Passes(r)
            BY <1>4, <3>1, PassesEffect DEF Passes
        <3>2. QED
            BY <1>1, <1>4, <2>2, <3>1, StepCases
               DEF Arrive, Proceeds, CheckFresh, LookUnseen, LookFails, Stops, Goto, TypeOK
    <2>3. QED
        BY <2>1, <2>2 DEF Next
<1>5. ASSUME NEW q \in Reqs, stage'[q] = "replayed", stage[q] # "replayed"
      PROVE  \E x \in accepted' :
                /\ x.recorded
                /\ x.by # q
                /\ x.proof.kind = req'[q].proof.kind
                /\ x.proof.jti = req'[q].proof.jti
                /\ req'[q].checkedAt < x.at + JTITTL
    <2>1. /\ UNCHANGED <<req, accepted>> /\ now < jtiCache[Entry(req[q].proof)]
          /\ req[q].proof \in Proofs /\ req[q].checkedAt <= now /\ req[q].checkedAt \in Nat
        BY <1>1, <1>3, <1>5 DEF Stops, Inv, RequestInv, Checking, TypeOK, Request
    <2>2. /\ Entry(req[q].proof) \in Kinds \X Jtis
          /\ req[q].proof # NoProof
        BY <2>1, ProofsAssumption DEF Entry, Proof
    <2>3. jtiCache[Entry(req[q].proof)] \in Nat
        BY <1>1, <2>2 DEF TypeOK
    <2>4. PICK x \in accepted : /\ x.recorded /\ Entry(x.proof) = Entry(req[q].proof)
                                /\ jtiCache[Entry(req[q].proof)] = x.at + JTITTL
        BY <1>1, <2>1, <2>2, <2>3 DEF CacheInv
    <2>5. x.proof.kind = req[q].proof.kind /\ x.proof.jti = req[q].proof.jti
        BY <2>4 DEF Entry
    <2>6. x.by # q
        BY <1>1, <2>2, <2>5 DEF AcceptedInv
    <2>7. req[q].checkedAt < x.at + JTITTL
        BY <1>1, <2>1, <2>3, <2>4
    <2>8. QED
        BY <2>1, <2>4, <2>5, <2>6, <2>7
<1>6. QED
    BY <1>2, <1>4, <1>5 DEF ReplayedWasAccepted

(***************************************************************************)
(* The theorems.                                                           *)
(***************************************************************************)

\* The invariant holds of every behavior of the replay checks.
LEMMA InvInductive == Spec => []Inv
<1>1. Init => Inv
    <2> SUFFICES ASSUME Init PROVE Inv
        OBVIOUS
    <2>1. NoRequest \in Request
        BY DEF NoRequest, Request, Grants
    <2>2. TypeOK
        BY <2>1 DEF Init, TypeOK, Stages
    <2>3. QED
        BY <2>2, TimesAssumption
           DEF Init, Inv, CacheInv, RequestInv, AcceptedInv, ReplaysWaitForTTL,
               ReplayedWasAccepted, NoRequest, Checking
<1>2. Inv /\ [Next]_vars => Inv'
    <2> SUFFICES ASSUME Inv, [Next]_vars PROVE Inv'
        OBVIOUS
    <2>1. CASE Next
        BY <2>1, TypeStep, CacheStep, RequestStep, AcceptedStep, ReplaysStep, ReplayedStep
           DEF Inv
    <2>2. CASE UNCHANGED vars
        BY <2>2 DEF vars, Inv, TypeOK, CacheInv, RequestInv, AcceptedInv,
                    ReplaysWaitForTTL, Replays, ReplayedWasAccepted
    <2>3. QED
        BY <2>1, <2>2
<1>3. QED
    BY <1>1, <1>2, PTL DEF Spec

\* The clock, the jti caches and the handlers of the replay checks keep their types.
THEOREM ReplayTypes == Spec => []TypeOK
BY InvInductive, PTL DEF Inv

\* A replay of any proof passes no sooner than JTITTL after its first use, unless a
\* cache call failed or the caches were lost with the process (router.go:73-83,
\* 109-119; token.go:273-291).
THEOREM ReplaysWait == Spec => []ReplaysWaitForTTL
BY InvInductive, PTL DEF Inv

\* A proof is only turned down as a replay when another request had its jti recorded
\* for the same kind of proof, less than JTITTL before.
THEOREM NoFalseReplay == Spec => []ReplayedWasAccepted
BY InvInductive, PTL DEF Inv

\* With windows and delays that add up to less than the TTL of the cache, a DPoP
\* proof that was accepted and recorded is never accepted from a later request
\* (dpop.go:99-131, router.go:57, 73-83).
THEOREM DPoPUsedOnce ==
    ASSUME 2 * DPoPWindow + MaxDelay < JTITTL
    PROVE  Spec => []DPoPProofsAreNotReplayed
<1>1. Inv => DPoPProofsAreNotReplayed
    <2> SUFFICES ASSUME Inv, NEW x \in accepted, NEW y \in accepted,
                        x.proof.kind = "dpop", Replays(x, y)
                 PROVE  FALSE
        BY DEF DPoPProofsAreNotReplayed
    <2>1. y.at >= x.at + JTITTL
        BY DEF Inv, ReplaysWaitForTTL
    <2>2. x.at >= x.proof.iat - DPoPWindow /\ y.at <= x.proof.iat + DPoPWindow + MaxDelay
        BY DEF Inv, AcceptedInv, Replays
    <2>3. x.at \in Nat /\ y.at \in Nat /\ x.proof.iat \in Nat
        BY ProofsAssumption DEF Inv, TypeOK, Acceptance, Proof
    <2>4. QED
        BY <2>1, <2>2, <2>3, TimesAssumption
<1>2. QED
    BY <1>1, InvInductive, PTL
=============================================================================

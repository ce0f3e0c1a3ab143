---------------------------- MODULE ReplayCheck ----------------------------
(***************************************************************************)
(* The signed proofs in front of the grants: the DPoP proof (dpop.Validate *)
(* from dpopJKT), the attestation PoP (clientattestation.Verify from       *)
(* HandleAuthorization, HandlePreAuthorized and par) and the client        *)
(* assertion (handleClientCredentials, modelled whole).                    *)
(*                                                                         *)
(* Each kind is checked for freshness, looked up in the kind's jti cache   *)
(* and then recorded there: two calls to the cache, with other requests    *)
(* and time in between.  The kinds differ in what a failed call does.      *)
(* Signatures, typ, htm, htu, aud, iss, sub and scope are left out: a      *)
(* proof is one that passes them.                                          *)
(***************************************************************************)
EXTENDS Integers

CONSTANTS
    Reqs,
    Jtis,
    Proofs,         \* the proofs clients may present
    NoProof,
    DPoPWindow,     \* DPOP_IAT_WINDOW
    PoPWindow,      \* CLIENT_ATTESTATION_IAT_WINDOW
    Leeway,         \* jwt.WithLeeway of client assertions, 30 s
    JTITTL,         \* the TTL of the three jti caches, 5 min
    MaxDelay,       \* how long a handler takes from a proof's freshness check
                    \* to the end of its replay check
    MaxTime,        \* bound on the clock
    MaxEpoch,       \* bound on how often the jti caches are lost
    MissReturnsZero,    \* cache Get of a missing key: zero value, or an error
    Faults          \* whether cache and session calls may fail

Kinds == {"dpop", "pop", "assertion"}

\* exp counts only if expires: the claim is optional.
Proof == [kind : Kinds, jti : Jtis, iat : Nat, expires : BOOLEAN, exp : Nat]

ASSUME ProofsAssumption == Proofs \subseteq Proof /\ NoProof \notin Proofs

ASSUME TimesAssumption ==
    /\ DPoPWindow \in Nat /\ PoPWindow \in Nat /\ Leeway \in Nat
    /\ JTITTL \in Nat /\ MaxDelay \in Nat /\ MaxTime \in Nat /\ MaxEpoch \in Nat

ASSUME FlagsAssumption == MissReturnsZero \in BOOLEAN /\ Faults \in BOOLEAN

VARIABLES
    now,
    jtiCache,   \* per kind and jti, until when the entry is found (0: no entry)
    epoch,      \* history: how often the jti caches were lost
    stage,      \* where the handler of a request is
    req,        \* what the request presented, its handler's locals
    accepted    \* history: the proofs that passed

vars == <<now, jtiCache, epoch, stage, req, accepted>>

Grants == {"none", "token", "attested", "par", "client_credentials"}
Checking == {"fresh", "look", "record"}
Stages == {"idle", "grant", "ok", "refused", "replayed", "failed"} \cup Checking

\* looked: the replay check's Get succeeded; recorded: its Set did.
Acceptance == [by : Reqs, proof : Proofs, at : Nat, epoch : Nat,
               looked : BOOLEAN, recorded : BOOLEAN]

Request == [grant     : Grants,
            proof     : Proofs \cup {NoProof}, \* the proof being checked
            then      : Proofs \cup {NoProof}, \* the one to be checked after it
            jkt       : BOOLEAN,            \* a DPoP proof was validated
            mustBind  : BOOLEAN,            \* the client has token_binding = "dpop"
            checkedAt : Nat,                \* when proof was found fresh
            looked    : BOOLEAN,
            prior     : SUBSET Acceptance]  \* history: accepted before it arrived

NoRequest == [grant |-> "none", proof |-> NoProof, then |-> NoProof, jkt |-> FALSE,
              mustBind |-> FALSE, checkedAt |-> 0, looked |-> FALSE, prior |-> {}]

Init ==
    /\ now = 0
    /\ jtiCache = [entry \in Kinds \X Jtis |-> 0]
    /\ epoch = 0
    /\ stage = [r \in Reqs |-> "idle"]
    /\ req = [r \in Reqs |-> NoRequest]
    /\ accepted = {}

Goto(r, to) == stage' = [stage EXCEPT ![r] = to]

\* Variant: one cache for the three kinds.
SharedEntry(p) == <<"dpop", p.jti>>

Entry(p) == <<p.kind, p.jti>>

(***************************************************************************)
(* Freshness.                                                              *)
(***************************************************************************)

\* Variant: a proof from the future is not turned down.
NotOld(iat, t, window) == t - iat <= window

Near(iat, t, window) == t - iat <= window /\ iat - t <= window

FreshDPoP(p, t) == Near(p.iat, t, DPoPWindow) /\ (p.expires => t < p.exp)

\* iat is only looked at when there is no exp.
FreshPoP(p, t) == IF p.expires THEN t < p.exp + PoPWindow ELSE Near(p.iat, t, PoPWindow)

\* The check that it expires within 5 minutes (token.go:257) turns none down.
FreshAssertion(p, t) == (p.expires => t < p.exp + Leeway) /\ p.iat <= t + Leeway

Fresh(p, t) ==
    CASE p.kind = "dpop" -> FreshDPoP(p, t)
      [] p.kind = "pop" -> FreshPoP(p, t)
      [] p.kind = "assertion" -> FreshAssertion(p, t)

(***************************************************************************)
(* A request and its checks.                                               *)
(***************************************************************************)

KindOf(p) == IF p = NoProof THEN "none" ELSE p.kind

\* What a grant asks for comes after the DPoP proof, which par does not look at.
Required == [token |-> "none", attested |-> "pop", par |-> "pop",
             client_credentials |-> "assertion"]

Presents(grant, first, second) ==
    \/ KindOf(first) = Required[grant] /\ second = NoProof
    \/ grant # "par" /\ KindOf(first) = "dpop" /\ KindOf(second) = Required[grant]

Check(p) == IF p = NoProof THEN "grant" ELSE "fresh"

Arrive(r) ==
    /\ stage[r] = "idle"
    /\ \E grant \in Grants \ {"none"}, mustBind \in BOOLEAN,
          first \in Proofs \cup {NoProof}, second \in Proofs \cup {NoProof} :
          /\ Presents(grant, first, second)
          /\ mustBind => grant = "client_credentials"
          /\ req' = [req EXCEPT ![r] = [NoRequest EXCEPT !.grant = grant, !.proof = first,
                         !.then = second, !.mustBind = mustBind, !.prior = accepted]]
          /\ Goto(r, Check(first))
    /\ UNCHANGED <<now, jtiCache, epoch, accepted>>

\* Variant: keeps the age of the proof instead of the time of the check.
CheckAge(r) ==
    /\ stage[r] = "fresh"
    /\ IF Fresh(req[r].proof, now)
       THEN Goto(r, "look") /\ req' = [req EXCEPT ![r].checkedAt = now - req[r].proof.iat]
       ELSE Goto(r, "refused") /\ UNCHANGED req
    /\ UNCHANGED <<now, jtiCache, epoch, accepted>>

CheckFresh(r) ==
    /\ stage[r] = "fresh"
    /\ IF Fresh(req[r].proof, now)
       THEN Goto(r, "look") /\ req' = [req EXCEPT ![r].checkedAt = now]
       ELSE Goto(r, "refused") /\ UNCHANGED req
    /\ UNCHANGED <<now, jtiCache, epoch, accepted>>

\* The proof passes: on to the next one, or to the grant.
Pass(r, looked, recorded) ==
    /\ accepted' = accepted \cup {[by |-> r, proof |-> req[r].proof, at |-> now,
                                   epoch |-> epoch, looked |-> looked, recorded |-> recorded]}
    /\ req' = [req EXCEPT ![r].proof = req[r].then, ![r].then = NoProof,
                          ![r].checkedAt = 0, ![r].looked = FALSE, ![r].jkt = @ \/ req[r].proof.kind = "dpop"]
    /\ Goto(r, Check(req[r].then))

\* The jti is known.
LookSeen(r) ==
    /\ stage[r] = "look"
    /\ now < jtiCache[Entry(req[r].proof)]
    /\ Goto(r, "replayed")
    /\ UNCHANGED <<now, jtiCache, epoch, req, accepted>>

\* Variant: only the error of Get is looked at.
LookIgnored(r) ==
    /\ stage[r] = "look"
    /\ Goto(r, "record")
    /\ req' = [req EXCEPT ![r].looked = TRUE]
    /\ UNCHANGED <<now, jtiCache, epoch, accepted>>

LookUnseen(r) ==
    /\ stage[r] = "look"
    /\ MissReturnsZero
    /\ now >= jtiCache[Entry(req[r].proof)]
    /\ Goto(r, "record")
    /\ req' = [req EXCEPT ![r].looked = TRUE]
    /\ UNCHANGED <<now, jtiCache, epoch, accepted>>

\* A failed Get: ReplayCheck reports an unseen jti and records nothing;
\* handleClientCredentials goes on to record it.
LookFails(r) ==
    /\ stage[r] = "look"
    /\ Faults \/ (~ MissReturnsZero /\ now >= jtiCache[Entry(req[r].proof)])
    /\ IF req[r].proof.kind = "assertion"
       THEN /\ Goto(r, "record")
            /\ req' = [req EXCEPT ![r].looked = FALSE]
            /\ UNCHANGED accepted
       ELSE Pass(r, FALSE, FALSE)
    /\ UNCHANGED <<now, jtiCache, epoch>>

Record(r) ==
    /\ stage[r] = "record"
    /\ jtiCache' = [jtiCache EXCEPT ![Entry(req[r].proof)] = now + JTITTL]
    /\ Pass(r, req[r].looked, TRUE)
    /\ UNCHANGED <<now, epoch>>

\* A failed Set: only dpop.Validate turns the request down.
RecordFails(r) ==
    /\ stage[r] = "record"
    /\ Faults
    /\ IF req[r].proof.kind = "dpop"
       THEN Goto(r, "refused") /\ UNCHANGED <<req, accepted>>
       ELSE Pass(r, req[r].looked, FALSE)
    /\ UNCHANGED <<now, jtiCache, epoch>>

\* What follows the proofs: an attested client must have proved a DPoP key, a
\* dpop-bound client of client_credentials too; then the session is created.
\* The other grants go on in TokenEndpoint.
Grant(r) ==
    /\ stage[r] = "grant"
    /\ IF ~ req[r].jkt /\ (req[r].grant = "attested" \/ req[r].mustBind)
       THEN Goto(r, "refused")
       ELSE Goto(r, "ok") \/ (Faults /\ Goto(r, "failed"))
    /\ UNCHANGED <<now, jtiCache, epoch, req, accepted>>

\* The clock, which waits for a replay check that has taken MaxDelay.
Tick ==
    /\ now < MaxTime
    /\ \A r \in Reqs : stage[r] \in {"look", "record"} => now < req[r].checkedAt + MaxDelay
    /\ now' = now + 1
    /\ UNCHANGED <<jtiCache, epoch, stage, req, accepted>>

\* The process dies with its handlers and starts again.  The jti caches are lost
\* with it, or are kept: CACHE_TYPE says where they are (README.md:111).
Restart ==
    /\ Faults
    /\ stage' = [r \in Reqs |->
          IF stage[r] \in Checking \cup {"grant"} THEN "failed" ELSE stage[r]]
    /\ \/ UNCHANGED <<jtiCache, epoch>>
       \/ /\ epoch < MaxEpoch
          /\ epoch' = epoch + 1
          /\ jtiCache' = [entry \in Kinds \X Jtis |-> 0]
    /\ UNCHANGED <<now, req, accepted>>

Step(r) ==
    \/ Arrive(r) \/ CheckFresh(r) \/ LookSeen(r) \/ LookUnseen(r) \/ LookFails(r)
    \/ Record(r) \/ RecordFails(r) \/ Grant(r)

Next == Tick \/ Restart \/ \E r \in Reqs : Step(r)

Spec == Init /\ [][Next]_vars

(***************************************************************************)
(* Properties.                                                             *)
(***************************************************************************)

\* Type correctness of the clock, the caches, the handlers' locals and the history.
TypeOK ==
    /\ now \in Nat
    /\ jtiCache \in [Kinds \X Jtis -> Nat]
    /\ epoch \in Nat
    /\ stage \in [Reqs -> Stages]
    /\ req \in [Reqs -> Request]
    /\ accepted \subseteq Acceptance

\* Two acceptances of one proof, the second by a request that arrived after the
\* first, when neither cache call of either went wrong and the caches were not
\* lost in between.
Replays(x, y) ==
    /\ x \in req[y.by].prior
    /\ y.proof = x.proof
    /\ x.recorded /\ y.looked
    /\ x.epoch = y.epoch

\* The jti cache remembers a DPoP proof for as long as it is fresh: a replay that
\* comes after the first use is turned down, at any time and from any request
\* (dpop.go:99, 123; router.go:57).  It needs 2 * DPoPWindow + MaxDelay < JTITTL.
DPoPProofsAreNotReplayed ==
    \A x, y \in accepted : x.proof.kind = "dpop" => ~ Replays(x, y)

\* Whatever the kind, a replay after the first use passes no sooner than JTITTL
\* after it (router.go:52, 57, 87; token.go:273).
ReplaysWaitForTTL ==
    \A x, y \in accepted : Replays(x, y) => y.at >= x.at + JTITTL

\* No honest proof is mistaken for a replay: a jti is only known because another
\* request had a proof of the same kind with that jti recorded, less than JTITTL
\* before, whatever became of that request (router.go:78, 114; token.go:280).
ReplayedWasAccepted ==
    \A r \in Reqs : stage[r] = "replayed" =>
        \E x \in accepted :
            /\ x.recorded
            /\ x.by # r
            /\ x.proof.kind = req[r].proof.kind
            /\ x.proof.jti = req[r].proof.jti
            /\ req[r].checkedAt < x.at + JTITTL

\* An assertion is only accepted within 5 minutes of its expiry: the jti cache,
\* which forgets after that time, then covers its life (token.go:257).
AssertionsExpireSoon ==
    \A x \in accepted : x.proof.kind = "assertion" =>
        x.proof.expires /\ x.proof.exp - x.at <= JTITTL
=============================================================================

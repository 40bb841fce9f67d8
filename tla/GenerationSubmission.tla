---------------------------- MODULE GenerationSubmission ---------------------------
(*****************************************************************************)
(* POST /v1/generations of one user, from the preflight to the answer: a     *)
(* look-up without the user's mutex, the embedding quota, the preparation of *)
(* the plan (which awaits local embeddings), and the transaction under the   *)
(* mutex.  Between these steps everything else may happen: other submissions *)
(* with the same idempotency key, the other routes of the relay, the         *)
(* maintenance, other routes that use the same quota, the end of the day.    *)
(*****************************************************************************)
EXTENDS GenerationStore, UsageQuota

CONSTANTS
    Bodies,     \* request bodies; the fingerprint of a request is its body
    Requests    \* HTTP requests

\* A body names its key, its target, and whether it is a vault answer.
ASSUME BodiesAssumption ==
    Bodies \subseteq [key : Keys, relay : Sessions, model : Models, vault : BOOLEAN]

ASSUME EmbeddingAssumption == "embedding" \in Buckets

VARIABLES
    subs,       \* the requests, by identifier
    made        \* request_hash of each generation: the body it was made from

submissionVars == <<gen, relays, grants, used, calls, granted, subs, made>>

Submission == [stage : {"idle", "quota", "planning", "persist",
                        "accepted", "refused", "lost"},
               body : Bodies \cup {None},
               plan : Plans \cup {None},
               run : Runs \cup {None},
               paid : BOOLEAN]       \* the embedding quota was consumed for it

\* A request has its body once it was read, its plan once it was prepared, and
\* its generation exactly when it was accepted.
SubmissionTypeOK ==
    /\ TypeOK /\ QuotaTypeOK
    /\ subs \in [Requests -> Submission]
    /\ made \in [Runs -> Bodies \cup {None}]
    /\ \A q \in Requests :
          /\ subs[q].stage # "idle" => subs[q].body \in Bodies
          /\ subs[q].stage = "persist" => subs[q].plan \in Plans
          /\ IF subs[q].stage = "accepted" THEN subs[q].run \in Runs ELSE subs[q].run = None

SubmissionInit ==
    /\ Init /\ QuotaInit
    /\ subs = [q \in Requests |-> [stage |-> "idle", body |-> None, plan |-> None,
                                   run |-> None, paid |-> FALSE]]
    /\ made = [r \in Runs |-> None]

-----------------------------------------------------------------------------
Answered(q) == subs[q].stage \in {"accepted", "refused", "lost"}

Refuse(q) == subs' = [subs EXCEPT ![q].stage = "refused"]

Accept(q, r) == subs' = [subs EXCEPT ![q].stage = "accepted", ![q].run = r]

\* Mutant of SameRequest: the fingerprints are not compared.
MutantSameRequest(r, b) == Exists(gen[r]) /\ gen[r].key = b.key

\* existing_request finds r, made from the same request ...
SameRequest(r, b) == Exists(gen[r]) /\ gen[r].key = b.key /\ made[r] = b

\* ... or from another one, which is a conflict (409).
Conflict(b) == \E r \in Runs : Exists(gen[r]) /\ gen[r].key = b.key /\ made[r] # b

KeyIsFree(k) == \A r \in Runs : Exists(gen[r]) => gen[r].key # k

\* Without the mutex: a key in use, or a relay that cannot serve the target,
\* ends the request; anything else goes on.
Preflight(q, b) ==
    /\ subs[q].stage = "idle"
    /\ LET s == [subs[q] EXCEPT !.body = b] IN
       \/ \E r \in Runs : /\ SameRequest(r, b)
                          /\ subs' = [subs EXCEPT ![q] = [s EXCEPT !.stage = "accepted", !.run = r]]
       \/ /\ Conflict(b) \/ (KeyIsFree(b.key) /\ ~Serves(b.relay, b.model))
          /\ subs' = [subs EXCEPT ![q] = [s EXCEPT !.stage = "refused"]]
       \/ /\ KeyIsFree(b.key) /\ Serves(b.relay, b.model)
          /\ subs' = [subs EXCEPT ![q] = [s EXCEPT !.stage = IF b.vault THEN "quota" ELSE "planning"]]
    /\ UNCHANGED <<gen, relays, grants, used, calls, granted, made>>

ConsumeQuota(q) ==
    /\ subs[q].stage = "quota"
    /\ Consume("embedding")
    /\ subs' = [subs EXCEPT ![q].stage = IF Exceeded("embedding") THEN "refused" ELSE "planning",
                            ![q].paid = TRUE]
    /\ UNCHANGED <<gen, relays, grants, calls, made>>

\* A vault answer without sources has no step; every other plan has one.
PlanFits(b, p) == p = <<>> => b.vault

PreparePlan(q, p) ==
    /\ subs[q].stage = "planning"
    /\ PlanFits(subs[q].body, p)
    /\ subs' = [subs EXCEPT ![q].stage = "persist", ![q].plan = p]
    /\ UNCHANGED <<gen, relays, grants, used, calls, granted, made>>

\* Redis fails (503), an input is refused (422, 413, 403), embeddings fail (502, 503).
Fails(q) ==
    /\ subs[q].stage \in {"quota", "planning"}
    /\ Refuse(q)
    /\ UNCHANGED <<gen, relays, grants, used, calls, granted, made>>

\* require_session, validate_model and the two limits of create_run.
Refusable(b) ==
    \/ ~Serves(b.relay, b.model)
    \/ Cardinality({s \in Runs : IsActive(ReconcileUser[s])}) >= MaxActive
    \/ Cardinality({s \in Runs : Exists(gen[s]) /\ gen[s].today}) >= MaxDaily

\* Under the mutex: everything is looked at again.
Persist(q) ==
    LET b == subs[q].body IN
    /\ subs[q].stage = "persist"
    /\ \/ \E r \in Runs : /\ SameRequest(r, b)
                          /\ Accept(q, r)
                          /\ UNCHANGED <<gen, relays, grants, made>>
       \/ /\ Conflict(b) \/ (KeyIsFree(b.key) /\ Refusable(b))
          /\ Refuse(q)
          /\ UNCHANGED <<gen, relays, grants, made>>
       \/ \E r \in Runs : /\ SubmitGeneration(r, b.key, b.relay, b.model, subs[q].plan)
                          /\ Accept(q, r)
                          /\ made' = [made EXCEPT ![r] = b]
    /\ UNCHANGED <<used, calls, granted>>

\* The gateway's process ends: requests in flight get no answer.
GatewayRestarts ==
    /\ \E q \in Requests : subs[q].stage \in {"quota", "planning", "persist"}
    /\ subs' = [q \in Requests |-> IF subs[q].stage = "idle" \/ Answered(q) THEN subs[q]
                                   ELSE [subs[q] EXCEPT !.stage = "lost"]]
    /\ UNCHANGED <<gen, relays, grants, used, calls, granted, made>>

\* Every other transaction on the user's generations, and the clock.
OtherUserRequest ==
    \/ ListGenerations
    \/ \E r \in Runs : \/ GenerationStatus(r)
                       \/ CancelGeneration(r)
                       \/ \E x \in Sessions, retry \in BOOLEAN : ResumeGeneration(r, x, retry)

Elsewhere ==
    /\ SessionRequest \/ OtherUserRequest \/ ClaimRequest \/ StepRequest \/ Maintain
    /\ UNCHANGED <<used, calls, granted, subs, made>>

TimeGoesOn ==
    /\ \/ \E r \in Runs : \/ RunDue(r)
                          \/ RunAges(r)
                          \/ \E i \in DOMAIN gen[r].steps : LeaseLapses(r, i)
       \/ \E x \in Sessions : SessionExpires(x)
    /\ UNCHANGED <<used, calls, granted, subs, made>>

DayEnds ==
    /\ NewCounters
    /\ gen' = [r \in Runs |-> [gen[r] EXCEPT !.today = FALSE]]
    /\ UNCHANGED <<relays, grants, subs, made>>

SubmissionNext ==
    \/ \E q \in Requests : \/ \E b \in Bodies : Preflight(q, b)
                           \/ ConsumeQuota(q)
                           \/ \E p \in Plans : PreparePlan(q, p)
                           \/ Fails(q)
                           \/ Persist(q)
    \/ GatewayRestarts
    \/ QuotaNext /\ UNCHANGED <<gen, relays, grants, subs, made>>
    \/ Elsewhere
    \/ TimeGoesOn
    \/ DayEnds

SubmissionSpec == SubmissionInit /\ [][SubmissionNext]_submissionVars

-----------------------------------------------------------------------------
\* What a submission was answered stays true: the generation it was given was
\* made from its own body, whoever created it, as long as it is kept; and two
\* answers for one key name the same generation, unless the first was purged.
AnswersAgree ==
    \A q \in Requests : subs[q].stage = "accepted" =>
        LET r == subs[q].run IN
        /\ Exists(gen[r]) => made[r] = subs[q].body /\ gen[r].key = subs[q].body.key
        /\ \A o \in Requests :
              subs[o].stage = "accepted" /\ subs[o].body.key = subs[q].body.key /\ subs[o].run # r
              => gen[r].status = "purged" \/ gen[subs[o].run].status = "purged"

\* A generation begins under the mutex as the preflight let it through, however
\* much happened in between: its relay is alive and serves it, and its plan is
\* the one prepared for its own body, paid for when it needed embeddings.
BegunAsPrepared ==
    [][\A r \in Runs : gen[r].status = "absent" /\ Exists(gen'[r]) =>
          \E q \in Requests :
              LET b == subs[q].body IN
              /\ ~Answered(q) /\ subs'[q].run = r /\ made'[r] = b
              /\ Serves(b.relay, b.model)
              /\ b.vault => subs[q].paid
              /\ Len(gen'[r].steps) = Len(subs[q].plan)]_submissionVars
=============================================================================

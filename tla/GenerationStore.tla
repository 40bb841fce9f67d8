------------------------------ MODULE GenerationStore -----------------------------
(*****************************************************************************)
(* The durable enterprise relay of the gateway: generation_store.py, the     *)
(* routes of generation_routes.py and the maintenance service, for one user. *)
(* Each action is one transaction under that user's mutex (lock_user); a     *)
(* transaction that raises is rolled back and is no step.  Other users share *)
(* no row with this one.                                                     *)
(*****************************************************************************)
EXTENDS GenerationRuns, FiniteSets

CONSTANTS
    Runs,               \* identifiers of generations
    MaxActive,          \* enterprise_max_active_generations_per_user
    MaxDaily,           \* enterprise_daily_generations_per_user
    MaxActiveSessions   \* 10 in create_relay_session

ASSUME LimitsAssumption == {MaxActive, MaxDaily, MaxActiveSessions} \subseteq Nat \ {0}

VARIABLES
    gen,      \* generation_runs with their generation_steps, by identifier
    relays,   \* relay_sessions, by identifier
    grants    \* history: times the current step may be called again, by an
              \* explicit retry_uncertain or after a refusal by the provider

vars == <<gen, relays, grants>>

Relay == [status : {"unused", "live", "expired"}, models : SUBSET Models]

TypeOK == /\ gen \in [Runs -> Run]
          /\ relays \in [Sessions -> Relay]
          /\ grants \in [Runs -> Nat]

Init == /\ gen = [r \in Runs |-> NoRun("absent")]
        /\ relays = [x \in Sessions |-> [status |-> "unused", models |-> {}]]
        /\ grants = [r \in Runs |-> 0]

-----------------------------------------------------------------------------
\* require_session and validate_model.  A purged session row answers as an
\* expired one does.
LiveSession(x) == relays[x].status = "live"
Serves(x, m) == LiveSession(x) /\ m \in relays[x].models

ReconcileUser == [r \in Runs |-> RefreshRun(gen[r])]

\* Relay sessions ----------------------------------------------------------

CreateRelaySession(x, ms) ==
    /\ relays[x].status = "unused"
    /\ ms # {}
    /\ Cardinality({y \in Sessions : LiveSession(y)}) < MaxActiveSessions
    /\ relays' = [relays EXCEPT ![x] = [status |-> "live", models |-> ms]]
    /\ UNCHANGED <<gen, grants>>

RevokeRelay(x) ==
    /\ LiveSession(x)
    /\ relays' = [relays EXCEPT ![x].status = "expired"]
    /\ gen' = [r \in Runs |-> IF IsActive(gen[r]) /\ gen[r].relay = x
                              THEN MarkUncertain(gen[r], RunningSteps(gen[r])) ELSE gen[r]]
    /\ UNCHANGED grants

\* Generations -------------------------------------------------------------

\* Mutant of SubmitGeneration: the key is not looked up again under the lock.
MutantSubmitGeneration(r, k, x, m, p) ==
    /\ gen[r].status = "absent"
    /\ Serves(x, m)
    /\ Cardinality({s \in Runs : IsActive(ReconcileUser[s])}) < MaxActive
    /\ Cardinality({s \in Runs : Exists(gen[s]) /\ gen[s].today}) < MaxDaily
    /\ gen' = [ReconcileUser EXCEPT ![r] = CreateRun(k, m, x, p)]
    /\ UNCHANGED <<relays, grants>>

\* Mutant of SubmitGeneration: the limit on active generations is not counted.
MutantSubmitUncounted(r, k, x, m, p) ==
    /\ gen[r].status = "absent"
    /\ \A s \in Runs : Exists(gen[s]) => gen[s].key # k
    /\ Serves(x, m)
    /\ gen' = [ReconcileUser EXCEPT ![r] = CreateRun(k, m, x, p)]
    /\ UNCHANGED <<relays, grants>>

\* Mutant of SubmitGeneration: the preflight's word is taken for the relay.
MutantSubmitStale(r, k, x, m, p) ==
    /\ gen[r].status = "absent"
    /\ \A s \in Runs : Exists(gen[s]) => gen[s].key # k
    /\ Cardinality({s \in Runs : IsActive(ReconcileUser[s])}) < MaxActive
    /\ Cardinality({s \in Runs : Exists(gen[s]) /\ gen[s].today}) < MaxDaily
    /\ gen' = [ReconcileUser EXCEPT ![r] = CreateRun(k, m, x, p)]
    /\ UNCHANGED <<relays, grants>>

\* submit_generation, the transaction that persists a new run.  A key already
\* used changes nothing: it answers with the existing run, or 409.
SubmitGeneration(r, k, x, m, p) ==
    /\ gen[r].status = "absent"
    /\ \A s \in Runs : Exists(gen[s]) => gen[s].key # k
    /\ Serves(x, m)
    /\ Cardinality({s \in Runs : IsActive(ReconcileUser[s])}) < MaxActive
    /\ Cardinality({s \in Runs : Exists(gen[s]) /\ gen[s].today}) < MaxDaily
    /\ gen' = [ReconcileUser EXCEPT ![r] = CreateRun(k, m, x, p)]
    /\ UNCHANGED <<relays, grants>>

ListGenerations == gen' = ReconcileUser /\ UNCHANGED <<relays, grants>>

GenerationStatus(r) ==
    /\ Exists(gen[r])
    /\ gen' = [gen EXCEPT ![r] = RefreshRun(@)]
    /\ UNCHANGED <<relays, grants>>

\* Mutant of CancelGeneration: a finished generation can be cancelled.
MutantCancelGeneration(r) ==
    /\ Exists(gen[r])
    /\ gen' = [gen EXCEPT ![r] = Abandon(@, "cancelled")]
    /\ UNCHANGED <<relays, grants>>

CancelGeneration(r) ==
    /\ IsActive(gen[r])
    /\ gen' = [gen EXCEPT ![r] = Abandon(@, "cancelled")]
    /\ UNCHANGED <<relays, grants>>

\* Mutant of ResumeGeneration: no consent is asked for a call in doubt.
MutantResumeSilently(r, x, retryUncertain) ==
    LET g == RefreshRun(gen[r]) IN
    /\ IsActive(g)
    /\ Serves(x, g.model)
    /\ gen' = [gen EXCEPT ![r] = Resume(g, x)]
    /\ grants' = [grants EXCEPT ![r] =
                    IF g.status = "paused" \/ (InDoubt(g) /\ retryUncertain) THEN @ + 1 ELSE @]
    /\ UNCHANGED relays

\* Mutant of ResumeGeneration: the new relay may lack the model.
MutantResumeAnywhere(r, x, retryUncertain) ==
    LET g == RefreshRun(gen[r]) IN
    /\ IsActive(g)
    /\ LiveSession(x)
    /\ InDoubt(g) => retryUncertain
    /\ gen' = [gen EXCEPT ![r] = Resume(g, x)]
    /\ UNCHANGED <<relays, grants>>

ResumeGeneration(r, x, retryUncertain) ==
    LET g == RefreshRun(gen[r]) IN
    /\ IsActive(g)
    /\ Serves(x, g.model)
    /\ InDoubt(g) => retryUncertain
    /\ gen' = [gen EXCEPT ![r] = Resume(g, x)]
    /\ grants' = [grants EXCEPT ![r] =
                    IF g.status = "paused" \/ (InDoubt(g) /\ retryUncertain) THEN @ + 1 ELSE @]
    /\ UNCHANGED relays

\* Relay steps -------------------------------------------------------------

\* The runs that one claim looks at before it finds a step: those whose step
\* has no attempt left fail.  The order of the run_ids decides which of them
\* come before the step handed out.
Exhausted(g) == \E i \in DOMAIN g.steps : Claimable(g, i) /\ g.steps[i].attempt >= MaxStepAttempts

\* One iteration (poll_once) of a claim by relay x for the runs ids.
ClaimPreamble(x, ids) ==
    /\ ids # {}
    /\ \A r \in ids : Exists(gen[r]) /\ gen[r].relay = x /\ Serves(x, gen[r].model)

\* Mutant of NoRunningStep: one idle generation is enough.
MutantNoRunningStep == \E r \in Runs : RunningSteps(ReconcileUser[r]) = {}

NoRunningStep == \A r \in Runs : RunningSteps(ReconcileUser[r]) = {}

ClaimNothing(x, ids) ==
    /\ ClaimPreamble(x, ids)
    /\ \/ /\ ~NoRunningStep
          /\ gen' = ReconcileUser
       \/ /\ NoRunningStep
          /\ \A r \in ids : \A i \in DOMAIN gen[r].steps :
                Claimable(ReconcileUser[r], i) => ReconcileUser[r].steps[i].attempt >= MaxStepAttempts
          /\ gen' = [r \in Runs |-> IF r \in ids /\ Exhausted(ReconcileUser[r])
                                    THEN Fail(ReconcileUser[r]) ELSE ReconcileUser[r]]
    /\ UNCHANGED <<relays, grants>>

ClaimOne(x, ids, r, i, earlier) ==
    /\ ClaimPreamble(x, ids)
    /\ NoRunningStep
    /\ Claimable(ReconcileUser[r], i)
    /\ ReconcileUser[r].steps[i].attempt < MaxStepAttempts
    /\ \A s \in earlier : Exhausted(ReconcileUser[s])
    /\ gen' = [s \in Runs |-> IF s = r THEN ClaimStep(ReconcileUser[s], i, x)
                              ELSE IF s \in earlier THEN Fail(ReconcileUser[s])
                              ELSE ReconcileUser[s]]
    /\ UNCHANGED <<relays, grants>>

\* Mutant of RequireStep: the generation is not refreshed before it is read.
MutantRequireStep(r, i, x, a) ==
    /\ Exists(gen[r]) /\ i \in DOMAIN gen[r].steps
    /\ Serves(x, gen[r].model)
    /\ gen[r].relay = x /\ gen[r].steps[i].relay = x /\ gen[r].steps[i].attempt = a
    /\ gen[r].status \notin {"cancelled", "expired", "failed"}
    /\ gen[r].steps[i].status \in {"running", "completed"}

\* prepare_step_update and require_step: relay x speaks of attempt a of a step
\* it still owns, in a run that is still open for it.
RequireStep(r, i, x, a) ==
    LET g == RefreshRun(gen[r]) IN
    /\ Exists(gen[r]) /\ i \in DOMAIN gen[r].steps
    /\ Serves(x, gen[r].model)
    /\ gen[r].relay = x /\ gen[r].steps[i].relay = x /\ gen[r].steps[i].attempt = a
    /\ g.status \notin {"cancelled", "expired", "failed"}
    /\ g.steps[i].status \in {"running", "completed"}

StepHeartbeat(r, i, x, a) ==
    LET g == RefreshRun(gen[r]) IN
    /\ RequireStep(r, i, x, a)
    /\ gen' = [gen EXCEPT ![r] = IF g.steps[i].status = "running"
                                 THEN [g EXCEPT !.steps[i].lease = "live"] ELSE g]
    /\ UNCHANGED <<relays, grants>>

SubmitResult(r, i, x, a, answer, fits) ==
    LET g == RefreshRun(gen[r]) IN
    /\ RequireStep(r, i, x, a)
    /\ \/ /\ g.steps[i].status = "completed"
          /\ g.steps[i].hash = answer
          /\ gen' = [gen EXCEPT ![r] = g]
          /\ UNCHANGED grants
       \/ /\ g.steps[i].status # "completed"
          /\ gen' = [gen EXCEPT ![r] = AcceptResult(g, i, answer, fits)]
          /\ grants' = [grants EXCEPT ![r] = 0]
    /\ UNCHANGED relays

SubmitError(r, i, x, a, refused) ==
    LET g == RefreshRun(gen[r]) IN
    /\ RequireStep(r, i, x, a)
    /\ g.steps[i].status # "completed"
    /\ gen' = [gen EXCEPT ![r] = AcceptError(g, i, refused)]
    /\ UNCHANGED <<relays, grants>>

\* Maintenance (reconcile_user, then purge_user) ---------------------------

Purge(g) == IF g.status \in Terminal /\ g.aged THEN NoRun("purged") ELSE g

Maintain ==
    /\ gen' = [r \in Runs |-> Purge(ReconcileUser[r])]
    /\ grants' = [r \in Runs |-> IF gen'[r].status = "purged" THEN 0 ELSE grants[r]]
    /\ UNCHANGED relays

\* The clock ---------------------------------------------------------------

LeaseLapses(r, i) ==
    /\ i \in DOMAIN gen[r].steps /\ gen[r].steps[i].lease = "live"
    /\ gen' = [gen EXCEPT ![r].steps[i].lease = "lapsed"]
    /\ UNCHANGED <<relays, grants>>

RunDue(r) ==
    /\ IsActive(gen[r]) /\ ~gen[r].due
    /\ gen' = [gen EXCEPT ![r].due = TRUE]
    /\ UNCHANGED <<relays, grants>>

SessionExpires(x) ==
    /\ LiveSession(x)
    /\ relays' = [relays EXCEPT ![x].status = "expired"]
    /\ UNCHANGED <<gen, grants>>

\* A UTC day begins: nothing was created today yet.
DayTurns ==
    /\ \E r \in Runs : gen[r].today
    /\ gen' = [r \in Runs |-> [gen[r] EXCEPT !.today = FALSE]]
    /\ UNCHANGED <<relays, grants>>

\* The retention period (two days or more) of a finished run is over.
RunAges(r) ==
    /\ gen[r].status \in Terminal /\ ~gen[r].today /\ ~gen[r].aged
    /\ gen' = [gen EXCEPT ![r].aged = TRUE]
    /\ UNCHANGED <<relays, grants>>

-----------------------------------------------------------------------------
SessionRequest ==
    \E x \in Sessions : \/ \E ms \in SUBSET Models : CreateRelaySession(x, ms)
                        \/ RevokeRelay(x)

UserRequest ==
    \/ \E r \in Runs, k \in Keys, x \in Sessions, m \in Models, p \in Plans :
          SubmitGeneration(r, k, x, m, p)
    \/ ListGenerations
    \/ \E r \in Runs : \/ GenerationStatus(r)
                       \/ CancelGeneration(r)
                       \/ \E x \in Sessions, retry \in BOOLEAN : ResumeGeneration(r, x, retry)

ClaimRequest ==
    \E x \in Sessions, ids \in SUBSET Runs :
        \/ ClaimNothing(x, ids)
        \/ \E r \in ids : \E i \in DOMAIN gen[r].steps, earlier \in SUBSET (ids \ {r}) :
              ClaimOne(x, ids, r, i, earlier)

StepRequest ==
    \E r \in Runs, x \in Sessions, a \in 1..MaxStepAttempts : \E i \in DOMAIN gen[r].steps :
        \/ StepHeartbeat(r, i, x, a)
        \/ \E answer \in Results, fits \in BOOLEAN : SubmitResult(r, i, x, a, answer, fits)
        \/ \E refused \in BOOLEAN : SubmitError(r, i, x, a, refused)

Clock ==
    \/ \E r \in Runs : \/ RunDue(r)
                       \/ RunAges(r)
                       \/ \E i \in DOMAIN gen[r].steps : LeaseLapses(r, i)
    \/ \E x \in Sessions : SessionExpires(x)
    \/ DayTurns

Next == SessionRequest \/ UserRequest \/ ClaimRequest \/ StepRequest \/ Maintain \/ Clock

Spec == Init /\ [][Next]_vars

\* The maintenance service (relay-maintenance, generation_maintenance --loop)
\* runs every minute.  Nothing is assumed of the user and of the relays.
MaintainedSpec == Spec /\ WF_vars(Maintain)

\* Real time passes: a generation in progress reaches its expires_at.
TimePasses == \A r \in Runs : WF_vars(RunDue(r))

-----------------------------------------------------------------------------
\* Invariants ----------------------------------------------------------------

\* "One active upstream call per user, even across devices/sessions" (comment
\* of claim): no two steps of the user's generations are running at once.
SingleUpstreamCall ==
    \A r, s \in Runs : \A i \in RunningSteps(gen[r]), j \in RunningSteps(gen[s]) :
        r = s /\ i = j

\* A step is only worked on when every step before it has its answer, and the
\* steps after the one in progress were never handed out: a resumed meeting
\* continues at the first missing part and redoes none (claim, advance).
StepsInOrder ==
    \A r \in Runs : \A i \in DOMAIN gen[r].steps :
        LET s == gen[r].steps[i] IN
        s.attempt > 0 \/ s.status \in {"running", "uncertain", "paused", "completed"} =>
            \A j \in 1..(i - 1) : gen[r].steps[j].status = "completed"

\* What the user is shown is what the steps are doing: an active generation is
\* running, uncertain or paused exactly when one of its steps is, otherwise it
\* waits for a relay with a step left to hand out; a finished one has no step
\* in flight, and is completed exactly when all its steps are.
StatusTellsSteps ==
    \A r \in Runs : LET g == gen[r]
                        Has(st) == \E i \in DOMAIN g.steps : g.steps[i].status = st IN
        /\ \A st \in {"running", "uncertain", "paused"} : Has(st) <=> g.status = st
        /\ IsActive(g) => ~Has("cancelled") /\ ~AllCompleted(g)
        /\ Exists(g) => (g.status = "completed" <=> AllCompleted(g))

\* Prepared prompts and intermediate answers are erased as soon as, and not
\* before, a generation is terminal: a finished one keeps none of them, an
\* active one keeps its plan, every accepted answer, and a prompt for the step
\* in progress (without which claim could not hand it out).
TextKeptWhileNeeded ==
    \A r \in Runs : LET g == gen[r] IN
        /\ g.status \in Terminal =>
              /\ ~g.plan
              /\ \A i \in DOMAIN g.steps : ~g.steps[i].prompt /\ g.steps[i].content = None
        /\ IsActive(g) =>
              /\ g.plan
              /\ \A i \in DOMAIN g.steps :
                    /\ g.steps[i].status = "completed" => g.steps[i].content # None
                    /\ IsCurrent(g, i) => g.steps[i].prompt

\* A call whose outcome is unknown is never repeated silently: the step in
\* progress was handed out at most once more than the user explicitly resumed
\* it after a call in doubt, or after a refusal by the provider.
NoSilentRetry ==
    \A r \in Runs : \A i \in DOMAIN gen[r].steps :
        gen[r].steps[i].status \in {"pending", "running", "uncertain", "paused"} =>
            gen[r].steps[i].attempt <= 1 + grants[r]

\* Only the relay a generation is bound to works on it, under a lease, and a
\* generation is only ever bound to a relay that offered its model.
BoundRelay ==
    \A r \in Runs : LET g == gen[r] IN
        /\ IsActive(g) => g.model \in relays[g.relay].models
        /\ \A i \in DOMAIN g.steps :
              /\ g.steps[i].status = "running" => g.steps[i].relay = g.relay
              /\ g.steps[i].status = "running" <=> g.steps[i].lease # "none"

\* A replayed request never makes a second generation out of one key.
OneRunPerKey ==
    \A r, s \in Runs : Exists(gen[r]) /\ Exists(gen[s]) /\ gen[r].key = gen[s].key => r = s

\* The limits on generations in progress and on relay sessions hold in every
\* state, whatever is resumed, expired or revoked meanwhile.
LimitsHold == /\ Cardinality({r \in Runs : IsActive(gen[r])}) <= MaxActive
              /\ Cardinality({x \in Sessions : LiveSession(x)}) <= MaxActiveSessions

\* Action properties -----------------------------------------------------------

\* An accepted answer is never replaced or lost while the generation exists, and
\* an answer is only accepted from the attempt in flight: by the live session
\* that holds the step, under a lease that has not lapsed, before the
\* generation is due.
AnswersAreFenced ==
    [][\A r \in Runs : \A i \in DOMAIN gen[r].steps :
          LET s == gen[r].steps[i] IN
          Exists(gen'[r]) =>
            LET t == gen'[r].steps[i] IN
            /\ s.status = "completed" => t.status = "completed" /\ t.hash = s.hash
            /\ s.status # "completed" /\ t.status = "completed" =>
                  /\ s.status = "running" /\ s.lease = "live" /\ ~gen[r].due
                  /\ s.relay = gen[r].relay /\ LiveSession(s.relay)
                  /\ t.attempt = s.attempt]_vars

\* Liveness --------------------------------------------------------------------

\* No generation stays open for ever, whatever its relay does: it ends by an
\* answer, a failure, a cancellation or its expiry.
EveryRunEnds == TimePasses => \A r \in Runs : IsActive(gen[r]) ~> ~IsActive(gen[r])

\* A step whose relay went silent does not block the user's other generations:
\* once its lease has lapsed it stops being the running step, however far the
\* expiry of its generation may be.
LapsedLeaseIsNoticed ==
    \A r \in Runs : OverdueSteps(gen[r]) # {} ~> OverdueSteps(gen[r]) = {}

-----------------------------------------------------------------------------
\* The contract, seen through this state: a question is a step, its answer the
\* one that was accepted, and a call in flight a running step.
PhaseOf(g) == IF g.status = "absent" THEN "none"
              ELSE IF IsActive(g) THEN "open" ELSE g.status

Contract == INSTANCE GenerationContract WITH
    phase <- [r \in Runs |-> PhaseOf(gen[r])],
    answers <- [r \in Runs |-> [i \in DOMAIN gen[r].steps |-> gen[r].steps[i].hash]],
    result <- [r \in Runs |-> gen[r].result],
    calls <- {r \in Runs : RunningSteps(gen[r]) # {}}

\* Whatever relays, leases, resumes and expiry do, the user sees a generation
\* that is answered in order, one call at a time, and ends once.
ImplementsContract == Contract!Spec
=============================================================================

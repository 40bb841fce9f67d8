------------------------------ MODULE GenerationRuns ------------------------------
(*****************************************************************************)
(* One persistent enterprise generation: the row of generation_runs and its  *)
(* rows of generation_steps, with the operations of generation_store.py that *)
(* touch a single generation.  A generation is a value here; module          *)
(* GenerationStore keeps one per identifier and composes these operators     *)
(* into the transactions of the HTTP routes.                                 *)
(*                                                                           *)
(* Time is abstract.  An expires_at in the past is the flag "due", a         *)
(* lease_until is "none", "live" (in the future) or "lapsed" (in the past),  *)
(* and "aged" says that completed_at is older than the retention period.     *)
(*****************************************************************************)
EXTENDS Integers, Sequences

CONSTANTS
    Sessions,          \* identifiers of relay sessions
    Models,            \* enterprise model identifiers
    Keys,              \* idempotency keys
    Results,           \* what the provider can answer for one step
    Plans,             \* prepared plans: for each step, is its prompt known?
    MaxStepAttempts,   \* MAX_STEP_ATTEMPTS
    None               \* SQL NULL

\* prepare_plan prepares every prompt except the last one of a "predigest"
\* plan, which is built from the answers to the steps before it.  A plan that
\* has none before it (ReportOfNothing of MeetingPlan) is left out here: every
\* claim of such a run fails where it reads the prompt.
ASSUME PlansAssumption ==
    \A p \in Plans : /\ p \in Seq(BOOLEAN)
                     /\ \A i \in 1..Len(p) : ~p[i] => i = Len(p) /\ i > 1

ASSUME NoneAssumption == None \notin Sessions \cup Results

ASSUME AttemptsAssumption == MaxStepAttempts \in Nat \ {0}

-----------------------------------------------------------------------------
Terminal == {"completed", "cancelled", "expired", "failed"}
Active == {"waiting_relay", "running", "uncertain", "paused"}

Step == [status : {"pending", "running", "uncertain", "paused", "completed", "cancelled"},
         attempt : 0..MaxStepAttempts,
         relay : Sessions \cup {None},
         lease : {"none", "live", "lapsed"},
         prompt : BOOLEAN,                      \* messages_json is set
         content : Results \cup {None},         \* result_content
         hash : Results \cup {None}]            \* result_hash, result_model

Run == [status : Terminal \cup Active \cup {"absent", "purged"},
        key : Keys \cup {None},
        model : Models \cup {None},
        relay : Sessions \cup {None},
        due : BOOLEAN, today : BOOLEAN, aged : BOOLEAN,
        plan : BOOLEAN,                         \* plan_json is not "{}"
        result : Seq(Results \cup {None}) \cup {None},
        steps : Seq(Step)]

\* A row that does not exist: not yet created, or deleted by the purge.
NoRun(st) == [status |-> st, key |-> None, model |-> None, relay |-> None,
              due |-> FALSE, today |-> FALSE, aged |-> FALSE,
              plan |-> FALSE, result |-> None, steps |-> <<>>]

Exists(g) == g.status \notin {"absent", "purged"}
IsActive(g) == g.status \in Active

\* Mutant of IsCurrent: any open step is taken for the current one.
MutantIsCurrent(g, i) == i \in DOMAIN g.steps /\ g.steps[i].status # "completed"

\* The first step that has no accepted answer.
IsCurrent(g, i) == /\ i \in DOMAIN g.steps
                   /\ g.steps[i].status # "completed"
                   /\ \A j \in 1..(i - 1) : g.steps[j].status = "completed"

AllCompleted(g) == \A i \in DOMAIN g.steps : g.steps[i].status = "completed"

\* Some call of g may have been executed upstream without an accepted answer.
InDoubt(g) == \E i \in DOMAIN g.steps : g.steps[i].status \in {"running", "uncertain"}

-----------------------------------------------------------------------------
\* erase_intermediate
EraseIntermediate(g) ==
    [g EXCEPT !.plan = FALSE,
              !.steps = [i \in DOMAIN g.steps |->
                           [g.steps[i] EXCEPT !.prompt = FALSE, !.content = None]]]

\* Mutant of Abandon: the erasure is forgotten.
MutantAbandon(g, st) ==
    [g EXCEPT !.status = st,
              !.steps = [i \in DOMAIN g.steps |->
                           IF g.steps[i].status = "completed" THEN g.steps[i]
                           ELSE [g.steps[i] EXCEPT !.status = "cancelled",
                                                   !.lease = "none"]]]

\* What expiry (refresh_run) and cancel_generation do to a generation in progress.
Abandon(g, st) ==
    EraseIntermediate(
      [g EXCEPT !.status = st,
                !.steps = [i \in DOMAIN g.steps |->
                             IF g.steps[i].status = "completed" THEN g.steps[i]
                             ELSE [g.steps[i] EXCEPT !.status = "cancelled",
                                                     !.lease = "none"]]])

Fail(g) == EraseIntermediate([g EXCEPT !.status = "failed"])

\* Mutant of MarkUncertain: the generation itself stays "running".
MutantMarkUncertain(g, lost) ==
    [g EXCEPT !.steps = [i \in DOMAIN g.steps |->
                           IF i \in lost
                           THEN [g.steps[i] EXCEPT !.status = "uncertain", !.lease = "none"]
                           ELSE g.steps[i]]]

\* The outcome of the calls of the steps "lost" becomes unknown: lease over
\* (refresh_run), relay revoked (revoke_relay).
MarkUncertain(g, lost) ==
    IF lost = {} THEN g
    ELSE [g EXCEPT !.status = "uncertain",
                   !.steps = [i \in DOMAIN g.steps |->
                                IF i \in lost
                                THEN [g.steps[i] EXCEPT !.status = "uncertain",
                                                        !.lease = "none"]
                                ELSE g.steps[i]]]

RunningSteps(g) == {i \in DOMAIN g.steps : g.steps[i].status = "running"}
OverdueSteps(g) == {i \in RunningSteps(g) : g.steps[i].lease = "lapsed"}

\* Mutant of RefreshRun: expires_at is not looked at.
MutantNoExpiry(g) == IF IsActive(g) THEN MarkUncertain(g, OverdueSteps(g)) ELSE g

\* Mutant of RefreshRun: lease_until is not looked at.
MutantNoLease(g) == IF IsActive(g) /\ g.due THEN Abandon(g, "expired") ELSE g

RefreshRun(g) ==
    IF ~IsActive(g) THEN g
    ELSE IF g.due THEN Abandon(g, "expired")
    ELSE MarkUncertain(g, OverdueSteps(g))

\* advance: assemble the result, or make the next step claimable; "fits" says
\* whether a prompt that is still to be built stays within the input limit.
Advance(g, fits) ==
    IF AllCompleted(g)
    THEN EraseIntermediate(
           [g EXCEPT !.status = "completed",
                     !.result = [i \in DOMAIN g.steps |-> g.steps[i].content]])
    ELSE IF ~fits /\ \E i \in DOMAIN g.steps : IsCurrent(g, i) /\ ~g.steps[i].prompt
    THEN Fail(g)
    ELSE [g EXCEPT !.status = "waiting_relay",
                   !.steps = [i \in DOMAIN g.steps |->
                                IF IsCurrent(g, i)
                                THEN [g.steps[i] EXCEPT !.prompt = TRUE]
                                ELSE g.steps[i]]]

NewStep(prepared) ==
    [status |-> "pending", attempt |-> 0, relay |-> None, lease |-> "none",
     prompt |-> prepared, content |-> None, hash |-> None]

\* create_run, once its two limits are passed.
CreateRun(k, m, x, p) ==
    LET g == [status |-> "waiting_relay", key |-> k, model |-> m, relay |-> x,
              due |-> FALSE, today |-> TRUE, aged |-> FALSE,
              plan |-> TRUE, result |-> None,
              steps |-> [i \in DOMAIN p |-> NewStep(p[i])]]
    IN  IF p = <<>> THEN Advance(g, TRUE) ELSE g

\* claim: the step handed to relay x.
ClaimStep(g, i, x) ==
    [g EXCEPT !.status = "running",
              !.steps[i] = [g.steps[i] EXCEPT !.status = "running", !.attempt = @ + 1,
                                              !.relay = x, !.lease = "live"]]

\* claim: may step i be handed out, or has it used up its attempts?
Claimable(g, i) == /\ g.status = "waiting_relay"
                   /\ IsCurrent(g, i)
                   /\ g.steps[i].status = "pending"

AcceptResult(g, i, answer, fits) ==
    Advance([g EXCEPT !.steps[i] = [@ EXCEPT !.status = "completed", !.lease = "none",
                                             !.content = answer, !.hash = answer]],
            fits)

\* submit_error: an explicit refusal proves that no usable call ran.
AcceptError(g, i, refused) ==
    LET st == IF refused THEN "paused" ELSE "uncertain"
    IN  [g EXCEPT !.status = st,
                  !.steps[i] = [@ EXCEPT !.status = st, !.lease = "none"]]

\* resume_generation: every step without an answer is taken from its relay.
Resume(g, x) ==
    [g EXCEPT !.status = "waiting_relay", !.relay = x,
              !.steps = [i \in DOMAIN g.steps |->
                           IF g.steps[i].status = "completed" THEN g.steps[i]
                           ELSE [g.steps[i] EXCEPT !.status = "pending",
                                                   !.lease = "none", !.relay = None]]]
=============================================================================

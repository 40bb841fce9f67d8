------------------------------- MODULE StoreProofs -------------------------------
(*****************************************************************************)
(* More proofs about GenerationStore, for any number of generations, steps,  *)
(* sessions and attempts: what holds of one generation by itself, of its     *)
(* attempts and the user's consent, of the relay it is bound to, of the keys *)
(* and limits of the user, and at last that the store implements             *)
(* GenerationContract: each transaction, seen through PhaseOf, the hashes    *)
(* and the running steps, is one step of the contract.                       *)
(*****************************************************************************)
EXTENDS GenerationProofs

-----------------------------------------------------------------------------
\* What a step of the store does to one generation: every transaction, seen from
\* the generation r, is one of these moves, or creates it.

Stays(r) == /\ gen'[r] \in {gen[r], RefreshRun(gen[r])}
            /\ grants'[r] = grants[r] \/ ~Exists(gen'[r])

Revoked(r) == /\ IsActive(gen[r])
              /\ gen'[r] = MarkUncertain(gen[r], RunningSteps(gen[r]))
              /\ grants'[r] = grants[r]

Cancelled(r) == /\ IsActive(gen[r])
                /\ gen'[r] = Abandon(gen[r], "cancelled")
                /\ grants'[r] = grants[r]

GivenUp(r) == /\ Exhausted(RefreshRun(gen[r]))
              /\ gen'[r] = Fail(RefreshRun(gen[r]))
              /\ grants'[r] = grants[r]

Resumed(r) ==
    \E x \in Sessions :
        /\ IsActive(RefreshRun(gen[r]))
        /\ Serves(x, RefreshRun(gen[r]).model)
        /\ gen'[r] = Resume(RefreshRun(gen[r]), x)
        /\ grants'[r] \in {grants[r], grants[r] + 1}
        /\ InDoubt(RefreshRun(gen[r])) \/ RefreshRun(gen[r]).status = "paused" =>
              grants'[r] = grants[r] + 1

HandedOut(r) ==
    \E i \in DOMAIN gen[r].steps :
        /\ Claimable(RefreshRun(gen[r]), i)
        /\ gen'[r] = ClaimStep(RefreshRun(gen[r]), i, gen[r].relay)
        /\ grants'[r] = grants[r]

Beats(r) ==
    \E i \in RunningSteps(RefreshRun(gen[r])) :
        /\ gen'[r] = [RefreshRun(gen[r]) EXCEPT !.steps[i].lease = "live"]
        /\ grants'[r] = grants[r]

IsAnswered(r) ==
    \E i \in RunningSteps(RefreshRun(gen[r])), answer \in Results, fits \in BOOLEAN :
        /\ gen[r].steps[i].relay = gen[r].relay
        /\ gen[r].relay \in Sessions /\ LiveSession(gen[r].relay)
        /\ gen'[r] = AcceptResult(RefreshRun(gen[r]), i, answer, fits)
        /\ grants'[r] = 0

IsRefused(r) ==
    \E i \in RunningSteps(RefreshRun(gen[r])), refused \in BOOLEAN :
        /\ gen'[r] = AcceptError(RefreshRun(gen[r]), i, refused)
        /\ grants'[r] = grants[r]

Purged(r) == /\ RefreshRun(gen[r]).status \in Terminal /\ RefreshRun(gen[r]).aged
             /\ gen'[r] = NoRun("purged")

Lapses(r) ==
    \E i \in DOMAIN gen[r].steps :
        /\ gen[r].steps[i].lease = "live"
        /\ gen'[r] = [gen[r] EXCEPT !.steps[i].lease = "lapsed"]
        /\ grants'[r] = grants[r]

Ticks(r) ==
    /\ gen'[r].status = gen[r].status /\ gen'[r].key = gen[r].key
    /\ gen'[r].model = gen[r].model /\ gen'[r].relay = gen[r].relay
    /\ gen'[r].plan = gen[r].plan /\ gen'[r].result = gen[r].result
    /\ gen'[r].steps = gen[r].steps
    /\ gen'[r].aged = gen[r].aged \/ gen[r].status \in Terminal
    /\ grants'[r] = grants[r]

\* The moves that neither start a call nor end one with an answer.
Quiet(r) ==
    \/ Stays(r) \/ Revoked(r) \/ Cancelled(r) \/ GivenUp(r) \/ Resumed(r)
    \/ Beats(r) \/ IsRefused(r) \/ Purged(r) \/ Lapses(r) \/ Ticks(r)

Moves(r) == Quiet(r) \/ HandedOut(r) \/ IsAnswered(r)

Submits ==
    \E r \in Runs, k \in Keys, x \in Sessions, m \in Models, p \in Plans :
        SubmitGeneration(r, k, x, m, p)

\* Every transaction but the one that submits a generation.
NotSubmitting ==
    \/ SessionRequest
    \/ ListGenerations
    \/ \E r \in Runs : \/ GenerationStatus(r)
                       \/ CancelGeneration(r)
                       \/ \E x \in Sessions, retry \in BOOLEAN : ResumeGeneration(r, x, retry)
    \/ ClaimRequest \/ StepRequest \/ Maintain \/ Clock

\* Submissions apart, a step of the store moves every generation quietly, but
\* for one that may start a call, when no other call is running, or be answered.
LEMMA OneCallAtATime ==
    ASSUME TypeOK, [NotSubmitting]_vars
    PROVE  \/ \A s \in Runs : Quiet(s)
           \/ \E r \in Runs : /\ HandedOut(r)
                             /\ \A s \in Runs \ {r} : Quiet(s) /\ RunningSteps(gen'[s]) = {}
           \/ \E r \in Runs : /\ IsAnswered(r)
                             /\ \A s \in Runs \ {r} : Quiet(s)
<1> USE DEF TypeOK
<1>0. /\ \A s \in Runs : gen[s] \in Run /\ ReconcileUser[s] = RefreshRun(gen[s])
      /\ \A s \in Runs : DOMAIN RefreshRun(gen[s]).steps = DOMAIN gen[s].steps
      /\ DOMAIN gen = Runs /\ DOMAIN grants = Runs
  BY SameSteps DEF ReconcileUser
<1>1. ASSUME UNCHANGED <<gen, grants>>
      PROVE  \A s \in Runs : Quiet(s)
  BY <1>1 DEF Quiet, Stays
<1>2. ASSUME NEW x \in Sessions, RevokeRelay(x)
      PROVE  \A s \in Runs : Quiet(s)
  <2>1. \A s \in Runs : Revoked(s) \/ Stays(s)
    BY <1>2 DEF RevokeRelay, Revoked, Stays
  <2>2. QED
    BY <2>1 DEF Quiet
<1>3. CASE ListGenerations
  BY <1>0, <1>3 DEF ListGenerations, Quiet, Stays
<1>4. ASSUME NEW r \in Runs, GenerationStatus(r)
      PROVE  \A s \in Runs : Quiet(s)
  BY <1>0, <1>4 DEF GenerationStatus, Quiet, Stays
<1>5. ASSUME NEW r \in Runs, CancelGeneration(r)
      PROVE  \A s \in Runs : Quiet(s)
  <2>1. \A s \in Runs : Cancelled(s) \/ Stays(s)
    BY <1>0, <1>5 DEF CancelGeneration, Cancelled, Stays
  <2>2. QED
    BY <2>1 DEF Quiet
<1>6. ASSUME NEW r \in Runs, NEW x \in Sessions, NEW retry \in BOOLEAN,
             ResumeGeneration(r, x, retry)
      PROVE  \A s \in Runs : Quiet(s)
  <2>1. Resumed(r)
    <3>1. grants'[r] = IF RefreshRun(gen[r]).status = "paused" \/ (InDoubt(RefreshRun(gen[r])) /\ retry)
                       THEN grants[r] + 1 ELSE grants[r]
      BY <1>0, <1>6 DEF ResumeGeneration
    <3>2. InDoubt(RefreshRun(gen[r])) => retry
      BY <1>6 DEF ResumeGeneration
    <3>3. /\ IsActive(RefreshRun(gen[r])) /\ Serves(x, RefreshRun(gen[r]).model)
          /\ gen'[r] = Resume(RefreshRun(gen[r]), x)
      BY <1>0, <1>6 DEF ResumeGeneration
    <3>4. QED
      BY <3>1, <3>2, <3>3 DEF Resumed
  <2>2. \A s \in Runs \ {r} : Stays(s)
    BY <1>0, <1>6 DEF ResumeGeneration, Stays
  <2>3. QED
    BY <2>1, <2>2 DEF Quiet
<1>7. ASSUME NEW x \in Sessions, NEW ids \in SUBSET Runs, ClaimNothing(x, ids)
      PROVE  \A s \in Runs : Quiet(s)
  <2>1. \A s \in Runs : Stays(s) \/ GivenUp(s)
    BY <1>0, <1>7 DEF ClaimNothing, Stays, GivenUp
  <2>2. QED
    BY <2>1 DEF Quiet
<1>8. ASSUME NEW x \in Sessions, NEW ids \in SUBSET Runs, NEW r \in ids,
             NEW i \in DOMAIN gen[r].steps, NEW earlier \in SUBSET (ids \ {r}),
             ClaimOne(x, ids, r, i, earlier)
      PROVE  /\ HandedOut(r)
             /\ \A s \in Runs \ {r} : Quiet(s) /\ RunningSteps(gen'[s]) = {}
  <2>1. HandedOut(r)
    <3>1. gen[r].relay = x
      BY <1>8 DEF ClaimOne, ClaimPreamble
    <3>2. Claimable(RefreshRun(gen[r]), i)
      BY <1>0, <1>8 DEF ClaimOne
    <3>3. gen'[r] = ClaimStep(RefreshRun(gen[r]), i, x) /\ grants'[r] = grants[r]
      BY <1>0, <1>8 DEF ClaimOne
    <3>4. QED
      BY <3>1, <3>2, <3>3 DEF HandedOut
  <2>2. \A s \in Runs \ {r} : Stays(s) \/ GivenUp(s)
    BY <1>0, <1>8 DEF ClaimOne, Stays, GivenUp
  <2>3. \A s \in Runs \ {r} : gen'[s] \in {RefreshRun(gen[s]), Fail(RefreshRun(gen[s]))}
    BY <1>0, <1>8 DEF ClaimOne
  <2>4. \A s \in Runs : RunningSteps(RefreshRun(gen[s])) = {}
    BY <1>0, <1>8 DEF ClaimOne, NoRunningStep
  <2>5. \A s \in Runs \ {r} : RunningSteps(gen'[s]) = {}
    BY <1>0, <2>3, <2>4, RefreshType, FailRunning
  <2>6. QED
    BY <2>1, <2>2, <2>5 DEF Quiet
<1>9. ASSUME NEW r \in Runs, NEW x \in Sessions, NEW i \in DOMAIN gen[r].steps,
             NEW a \in 1..MaxStepAttempts, StepHeartbeat(r, i, x, a)
      PROVE  \A s \in Runs : Quiet(s)
  <2>1. CASE RefreshRun(gen[r]).steps[i].status = "running"
    <3>1. Beats(r)
      <4>1. i \in RunningSteps(RefreshRun(gen[r]))
        BY <1>0, <2>1 DEF RunningSteps
      <4>2. gen'[r] = [RefreshRun(gen[r]) EXCEPT !.steps[i].lease = "live"] /\ grants'[r] = grants[r]
        BY <1>0, <1>9, <2>1 DEF StepHeartbeat
      <4>3. QED
        BY <4>1, <4>2 DEF Beats
    <3>2. \A s \in Runs \ {r} : Stays(s)
      BY <1>0, <1>9 DEF StepHeartbeat, Stays
    <3>3. QED
      BY <3>1, <3>2 DEF Quiet
  <2>2. CASE RefreshRun(gen[r]).steps[i].status # "running"
    BY <1>0, <1>9, <2>2 DEF StepHeartbeat, Stays, Quiet
  <2>3. QED
    BY <2>1, <2>2
<1>10. ASSUME NEW r \in Runs, NEW x \in Sessions, NEW i \in DOMAIN gen[r].steps,
              NEW a \in 1..MaxStepAttempts, NEW answer \in Results, NEW fits \in BOOLEAN,
              SubmitResult(r, i, x, a, answer, fits)
       PROVE  \/ \A s \in Runs : Quiet(s)
              \/ IsAnswered(r) /\ \A s \in Runs \ {r} : Quiet(s)
  <2>1. CASE RefreshRun(gen[r]).steps[i].status # "completed"
    <3>1. IsAnswered(r)
      <4>1. i \in RunningSteps(RefreshRun(gen[r]))
        BY <1>0, <1>10, <2>1 DEF RunningSteps, SubmitResult, RequireStep
      <4>2. /\ gen'[r] = AcceptResult(RefreshRun(gen[r]), i, answer, fits)
            /\ grants'[r] = 0
        BY <1>0, <1>10, <2>1 DEF SubmitResult
      <4>3. gen[r].steps[i].relay = x /\ gen[r].relay = x /\ LiveSession(x)
        BY <1>10 DEF SubmitResult, RequireStep, Serves
      <4>4. QED
        BY <4>1, <4>2, <4>3 DEF IsAnswered
    <3>2. \A s \in Runs \ {r} : Stays(s)
      BY <1>0, <1>10 DEF SubmitResult, Stays
    <3>3. QED
      BY <3>1, <3>2 DEF Quiet
  <2>2. CASE RefreshRun(gen[r]).steps[i].status = "completed"
    BY <1>0, <1>10, <2>2 DEF SubmitResult, Stays, Quiet
  <2>3. QED
    BY <2>1, <2>2
<1>11. ASSUME NEW r \in Runs, NEW x \in Sessions, NEW i \in DOMAIN gen[r].steps,
              NEW a \in 1..MaxStepAttempts, NEW refused \in BOOLEAN,
              SubmitError(r, i, x, a, refused)
       PROVE  \A s \in Runs : Quiet(s)
  <2>1. IsRefused(r)
    <3>1. i \in RunningSteps(RefreshRun(gen[r]))
      BY <1>0, <1>11 DEF RunningSteps, SubmitError, RequireStep
    <3>2. /\ gen'[r] = AcceptError(RefreshRun(gen[r]), i, refused)
          /\ grants'[r] = grants[r]
      BY <1>0, <1>11 DEF SubmitError
    <3>3. QED
      BY <3>1, <3>2 DEF IsRefused
  <2>2. \A s \in Runs \ {r} : Stays(s)
    BY <1>0, <1>11 DEF SubmitError, Stays
  <2>3. QED
    BY <2>1, <2>2 DEF Quiet
<1>12. CASE Maintain
  <2>1. \A s \in Runs : gen'[s] = Purge(RefreshRun(gen[s]))
    BY <1>0, <1>12 DEF Maintain
  <2>2. \A s \in Runs : gen'[s].status # "purged" => grants'[s] = grants[s]
    BY <1>0, <1>12 DEF Maintain
  <2>3. \A s \in Runs : Stays(s) \/ Purged(s)
    BY <2>1, <2>2 DEF Purge, Stays, Purged, Exists
  <2>4. QED
    BY <2>3 DEF Quiet
<1>13. ASSUME NEW r \in Runs, RunDue(r) \/ RunAges(r)
       PROVE  \A s \in Runs : Quiet(s)
  <2>1. \A s \in Runs \ {r} : Stays(s)
    BY <1>0, <1>13 DEF RunDue, RunAges, Stays
  <2>2. Ticks(r)
    BY <1>0, <1>13 DEF RunDue, RunAges, Ticks, Run
  <2>3. QED
    BY <2>1, <2>2 DEF Quiet
<1>14. ASSUME NEW r \in Runs, NEW i \in DOMAIN gen[r].steps, LeaseLapses(r, i)
       PROVE  \A s \in Runs : Quiet(s)
  <2>1. \A s \in Runs \ {r} : Stays(s)
    BY <1>0, <1>14 DEF LeaseLapses, Stays
  <2>2. Lapses(r)
    BY <1>0, <1>14 DEF LeaseLapses, Lapses
  <2>3. QED
    BY <2>1, <2>2 DEF Quiet
<1>15. CASE DayTurns
  <2>1. \A s \in Runs : gen'[s] = [gen[s] EXCEPT !.today = FALSE] /\ grants'[s] = grants[s]
    BY <1>15 DEF DayTurns
  <2>2. ASSUME NEW s \in Runs
        PROVE  Ticks(s)
    <3>1. /\ gen'[s].status = gen[s].status /\ gen'[s].key = gen[s].key
          /\ gen'[s].model = gen[s].model /\ gen'[s].relay = gen[s].relay
          /\ gen'[s].plan = gen[s].plan /\ gen'[s].result = gen[s].result
          /\ gen'[s].steps = gen[s].steps
      BY <1>0, <2>1 DEF Run
    <3>2. gen'[s].aged = gen[s].aged
      BY <1>0, <2>1 DEF Run
    <3>3. QED
      BY <2>1, <3>1, <3>2 DEF Ticks
  <2>3. QED
    BY <2>2 DEF Quiet
<1>16. CASE SessionRequest
  BY <1>1, <1>2, <1>16 DEF SessionRequest, CreateRelaySession
<1>18. CASE ClaimRequest
  BY <1>7, <1>8, <1>18 DEF ClaimRequest
<1>19. CASE StepRequest
  BY <1>9, <1>10, <1>11, <1>19 DEF StepRequest
<1>20. CASE Clock
  BY <1>1, <1>13, <1>14, <1>15, <1>20 DEF Clock, SessionExpires
<1>21. CASE UNCHANGED vars
  BY <1>1, <1>21 DEF vars
<1>22. QED
  BY <1>3, <1>4, <1>5, <1>6, <1>12, <1>16, <1>18, <1>19, <1>20, <1>21 DEF NotSubmitting

\* A step of the store submits a generation, or is another transaction.
LEMMA SubmitsOrNot ==
    ASSUME [Next]_vars, ~Submits
    PROVE  [NotSubmitting]_vars
  BY DEF Next, UserRequest, Submits, NotSubmitting

\* Submissions apart, every step of the store makes each generation move.
LEMMA EveryStepMoves ==
    ASSUME TypeOK, [Next]_vars, ~Submits
    PROVE  \A s \in Runs : Moves(s)
  BY SubmitsOrNot, OneCallAtATime DEF Moves

\* A submission creates its generation and refreshes the others.
LEMMA SubmissionCreates ==
    ASSUME TypeOK, NEW r \in Runs, NEW k \in Keys, NEW x \in Sessions, NEW m \in Models,
           NEW p \in Plans, SubmitGeneration(r, k, x, m, p)
    PROVE  /\ gen'[r] = CreateRun(k, m, x, p) /\ ~Exists(gen[r]) /\ Serves(x, m)
           /\ relays' = relays /\ grants' = grants
           /\ \A s \in Runs \ {r} : Stays(s) /\ gen'[s] = RefreshRun(gen[s])
  BY DEF SubmitGeneration, ReconcileUser, TypeOK, Exists, Stays

\* What refresh_run leaves of a generation: its calls may be given up, none is
\* added, and a call that is still running is under its lease, before the expiry.
Refreshed(g, h) ==
    /\ SameHead(g, h) /\ h.relay = g.relay /\ h.result = g.result
    /\ IsActive(h) => IsActive(g)
    /\ Exists(h) <=> Exists(g)
    /\ IsActive(h) \/ h.status = g.status \/ (IsActive(g) /\ h.status = "expired")
    /\ h.status = "waiting_relay" => h = g
    /\ DOMAIN h.steps = DOMAIN g.steps
    /\ \A i \in DOMAIN g.steps :
          /\ IsActive(h) => h.steps[i].content = g.steps[i].content
          /\ h.steps[i].attempt = g.steps[i].attempt
          /\ h.steps[i].relay = g.steps[i].relay
          /\ h.steps[i].hash = g.steps[i].hash
          /\ h.steps[i].status = "completed" <=> g.steps[i].status = "completed"
          /\ h.steps[i].status = "pending" => g.steps[i].status = "pending"
          /\ h.steps[i].status \in {"running", "uncertain", "paused"} =>
                g.steps[i].status \in {"running", "uncertain", "paused"}
          /\ h.steps[i].status = "running" =>
                g.steps[i].status = "running" /\ g.steps[i].lease # "lapsed" /\ ~g.due

\* refresh_run, field by field.
LEMMA RefreshFields ==
    ASSUME NEW g \in Run, RunOK(g)
    PROVE  Refreshed(g, RefreshRun(g))
<1> DEFINE h == RefreshRun(g)
<1>1. CASE ~IsActive(g)
  <2>1. h = g
    BY <1>1 DEF RefreshRun
  <2>2. \A i \in DOMAIN g.steps : g.steps[i].status # "running"
    BY <1>1 DEF RunOK, Told, Has, IsActive, Active
  <2> HIDE DEF h
  <2>3. Refreshed(g, h)
    BY <2>1, <2>2 DEF Refreshed, SameHead
  <2>4. QED
    BY <2>3 DEF h
<1>2. CASE IsActive(g) /\ g.due
  <2>1. h = Abandon(g, "expired")
    BY <1>2 DEF RefreshRun
  <2>2. "expired" \in Terminal
    BY DEF Terminal
  <2>3. /\ SameHead(g, h) /\ CoursesEnded(g, h) /\ h.status = "expired"
        /\ h.relay = g.relay /\ h.result = g.result
    BY <2>1, <2>2, AbandonFields
  <2> HIDE DEF h
  <2>4. Refreshed(g, h)
    BY <1>2, <2>3 DEF Refreshed, CoursesEnded, Exists, IsActive, Active
  <2>5. QED
    BY <2>4 DEF h
<1>3. CASE IsActive(g) /\ ~g.due /\ OverdueSteps(g) = {}
  <2>1. h = g
    BY <1>3 DEF RefreshRun, MarkUncertain
  <2>2. \A i \in DOMAIN g.steps : g.steps[i].status = "running" => g.steps[i].lease # "lapsed"
    BY <1>3 DEF OverdueSteps, RunningSteps
  <2> HIDE DEF h
  <2>3. Refreshed(g, h)
    BY <1>3, <2>1, <2>2 DEF Refreshed, SameHead
  <2>4. QED
    BY <2>3 DEF h
<1>4. CASE IsActive(g) /\ ~g.due /\ OverdueSteps(g) # {}
  <2>1. h = MarkUncertain(g, OverdueSteps(g))
    BY <1>4 DEF RefreshRun
  <2>2. /\ SameHead(g, h) /\ CallsLost(g, OverdueSteps(g), h) /\ h.status = "uncertain"
        /\ h.relay = g.relay /\ h.result = g.result
    BY <1>4, <2>1, MarkUncertainFields
  <2>3. /\ \A i \in OverdueSteps(g) : i \in DOMAIN g.steps /\ g.steps[i].status = "running"
        /\ \A i \in DOMAIN g.steps : g.steps[i].status = "running" /\ i \notin OverdueSteps(g)
                                       => g.steps[i].lease # "lapsed"
    BY DEF OverdueSteps, RunningSteps
  <2> HIDE DEF h
  <2>4. Refreshed(g, h)
    BY <1>4, <2>2, <2>3 DEF Refreshed, CallsLost, Exists, IsActive, Active
  <2>5. QED
    BY <2>4 DEF h
<1>5. QED
  BY <1>1, <1>2, <1>3, <1>4

\* Every move keeps what holds of a generation by itself.
LEMMA MoveOK ==
    ASSUME TypeOK, NEW r \in Runs, RunOK(gen[r]), Moves(r)
    PROVE  RunOK(gen'[r])
<1> DEFINE c == RefreshRun(gen[r])
<1>0. gen[r] \in Run /\ c \in Run /\ RunOK(c) /\ Refreshed(gen[r], c)
  BY RefreshType, RefreshOK, RefreshFields DEF TypeOK
<1> HIDE DEF c
<1>1. CASE Stays(r)
  BY <1>0, <1>1 DEF Stays, c
<1>2. CASE Revoked(r)
  <2>1. RunningSteps(gen[r]) \in SUBSET RunningSteps(gen[r])
    OBVIOUS
  <2>2. QED
    BY <1>0, <1>2, <2>1, MarkUncertainOK DEF Revoked
<1>3. CASE Cancelled(r)
  BY <1>0, <1>3, AbandonOK DEF Cancelled
<1>4. CASE GivenUp(r)
  <2>1. c.status = "waiting_relay" /\ gen'[r] = Fail(c)
    BY <1>4 DEF GivenUp, Exhausted, Claimable, c
  <2>2. QED
    BY <1>0, <2>1, WaitingIsIdle, FailOK
<1>5. CASE Resumed(r)
  BY <1>0, <1>5, ResumeOK DEF Resumed, c
<1>6. CASE HandedOut(r)
  <2>1. PICK i \in DOMAIN gen[r].steps : Claimable(c, i) /\ gen'[r] = ClaimStep(c, i, c.relay)
    BY <1>0, <1>6 DEF HandedOut, c, Refreshed
  <2>2. QED
    BY <1>0, <2>1, ClaimOK
<1>7. CASE Beats(r)
  <2>1. PICK i \in RunningSteps(c) : gen'[r] = [c EXCEPT !.steps[i].lease = "live"]
    BY <1>7 DEF Beats, c
  <2>2. i \in DOMAIN c.steps /\ c.steps[i].lease # "none"
    BY <1>0 DEF RunningSteps, RunOK, Held
  <2>3. RunOK([c EXCEPT !.steps[i].lease = "live"])
    BY <1>0, <2>2, LeaseOK
  <2>4. QED
    BY <2>1, <2>3
<1>8. CASE IsAnswered(r)
  <2>1. PICK i \in RunningSteps(c), answer \in Results, fits \in BOOLEAN :
           gen'[r] = AcceptResult(c, i, answer, fits)
    BY <1>8 DEF IsAnswered, c
  <2>2. QED
    BY <1>0, <2>1, AcceptResultOK
<1>9. CASE IsRefused(r)
  <2>1. PICK i \in RunningSteps(c), refused \in BOOLEAN : gen'[r] = AcceptError(c, i, refused)
    BY <1>9 DEF IsRefused, c
  <2>2. QED
    BY <1>0, <2>1, AcceptErrorOK
<1>10. CASE Purged(r)
  BY <1>10, NoRunOK DEF Purged
<1>11. CASE Lapses(r)
  <2>1. PICK i \in DOMAIN gen[r].steps : /\ gen[r].steps[i].lease = "live"
                                         /\ gen'[r] = [gen[r] EXCEPT !.steps[i].lease = "lapsed"]
    BY <1>11 DEF Lapses
  <2>2. RunOK([gen[r] EXCEPT !.steps[i].lease = "lapsed"])
    BY <1>0, <2>1, LeaseOK
  <2>3. QED
    BY <2>1, <2>2
<1>12. CASE Ticks(r)
  BY <1>12, SameStepsOK DEF Ticks
<1>13. QED
  BY <1>1, <1>2, <1>3, <1>4, <1>5, <1>6, <1>7, <1>8, <1>9, <1>10, <1>11, <1>12 DEF Moves, Quiet

AllOK == \A r \in Runs : RunOK(gen[r])

\* Every step of the store keeps what holds of each generation by itself.
LEMMA AllOKStep ==
    ASSUME TypeOK, AllOK, [Next]_vars
    PROVE  AllOK'
<1>1. CASE ~Submits
  BY <1>1, EveryStepMoves, MoveOK DEF AllOK
<1>2. ASSUME NEW r \in Runs, NEW k \in Keys, NEW x \in Sessions, NEW m \in Models,
             NEW p \in Plans, SubmitGeneration(r, k, x, m, p)
      PROVE  AllOK'
  <2>1. RunOK(gen'[r])
    BY <1>2, SubmissionCreates, CreateRunOK
  <2>2. \A s \in Runs \ {r} : Moves(s)
    BY <1>2, SubmissionCreates DEF Moves, Quiet
  <2>3. QED
    BY <2>1, <2>2, MoveOK DEF AllOK
<1>3. QED
  BY <1>1, <1>2 DEF Submits

\* What holds of each generation by itself is an invariant of the store.
THEOREM EachRunOK == Spec => []AllOK
<1>1. Init => AllOK
  BY NoRunOK DEF Init, AllOK
<1>2. QED
  BY <1>1, AllOKStep, TypeCorrect, PTL DEF Spec

\* A resumed generation continues at the first missing part, and no part behind
\* it was ever handed out (claim, advance), for any number of parts and attempts.
THEOREM PartsInOrder == Spec => []StepsInOrder
<1>1. AllOK => StepsInOrder
  BY DEF AllOK, StepsInOrder, RunOK, InOrder
<1>2. QED
  BY <1>1, EachRunOK, PTL

\* The status the user reads is what the steps are doing.
THEOREM StatusIsTrue == Spec => []StatusTellsSteps
<1>1. AllOK => StatusTellsSteps
  BY DEF AllOK, StatusTellsSteps, RunOK, Told, Has
<1>2. QED
  BY <1>1, EachRunOK, PTL

\* Prompts and intermediate answers are there while the generation is in
\* progress, and erased when it ends (erase_intermediate).
THEOREM TextsErased == Spec => []TextKeptWhileNeeded
<1>1. AllOK => TextKeptWhileNeeded
  BY DEF AllOK, TextKeptWhileNeeded, RunOK, Kept
<1>2. QED
  BY <1>1, EachRunOK, PTL

-----------------------------------------------------------------------------
\* Answers.

\* advance keeps the course of the steps, whatever its outcome.
LEMMA AdvanceFields ==
    ASSUME NEW g \in Run, NEW fits
    PROVE  LET h == Advance(g, fits) IN
           /\ SameHead(g, h) /\ SameCourse(g, h) /\ h.relay = g.relay
           /\ h.status \in {"completed", "failed", "waiting_relay"}
<1>1. CASE AllCompleted(g)
  BY <1>1, DoneFields
<1>2. CASE /\ ~AllCompleted(g)
           /\ ~fits /\ \E i \in DOMAIN g.steps : IsCurrent(g, i) /\ ~g.steps[i].prompt
  <2>1. Advance(g, fits) = Fail(g)
    BY <1>2 DEF Advance
  <2>2. QED
    BY <2>1, FailFields
<1>3. CASE /\ ~AllCompleted(g)
           /\ fits \/ ~\E i \in DOMAIN g.steps : IsCurrent(g, i) /\ ~g.steps[i].prompt
  BY <1>3, NextFields
<1>4. QED
  BY <1>1, <1>2, <1>3

\* Steps whose call goes on as before, but for the one at i.
SameCourseBut(g, i, h) ==
    /\ DOMAIN h.steps = DOMAIN g.steps
    /\ \A j \in DOMAIN g.steps : j # i =>
          /\ h.steps[j].status = g.steps[j].status
          /\ h.steps[j].attempt = g.steps[j].attempt
          /\ h.steps[j].hash = g.steps[j].hash

\* An accepted answer completes its step, in its attempt, and touches no other.
LEMMA AcceptResultFields ==
    ASSUME NEW g \in Run, NEW i \in DOMAIN g.steps, NEW answer \in Results, NEW fits
    PROVE  LET h == AcceptResult(g, i, answer, fits) IN
           /\ SameHead(g, h) /\ h.relay = g.relay
           /\ h.status \in {"completed", "failed", "waiting_relay"}
           /\ SameCourseBut(g, i, h)
           /\ h.steps[i].status = "completed" /\ h.steps[i].hash = answer
           /\ h.steps[i].attempt = g.steps[i].attempt
<1> DEFINE k == WithAnswer(g, i, answer)
           h == Advance(k, fits)
<1>1. h = AcceptResult(g, i, answer, fits)
  BY DEF AcceptResult, WithAnswer
<1>2. /\ k \in Run /\ SameHead(g, k) /\ k.relay = g.relay
      /\ DOMAIN k.steps = DOMAIN g.steps
      /\ k.steps[i].status = "completed" /\ k.steps[i].attempt = g.steps[i].attempt
      /\ k.steps[i].hash = answer
      /\ \A j \in DOMAIN g.steps : j # i => k.steps[j] = g.steps[j]
  BY AnsweredFields
<1> HIDE DEF k
<1>3. /\ SameHead(k, h) /\ SameCourse(k, h) /\ h.relay = k.relay
      /\ h.status \in {"completed", "failed", "waiting_relay"}
  BY <1>2, AdvanceFields
<1> HIDE DEF h
<1>4. SameHead(g, h)
  BY <1>2, <1>3 DEF SameHead
<1>5. /\ SameCourseBut(g, i, h)
      /\ h.steps[i].status = "completed" /\ h.steps[i].attempt = g.steps[i].attempt
      /\ h.steps[i].hash = answer
  BY <1>2, <1>3 DEF SameCourse, SameCourseBut
<1>6. QED
  BY <1>1, <1>2, <1>3, <1>4, <1>5

\* An answer stays, and a new one comes from the attempt in flight.
FencedStep(r, i) ==
    /\ gen[r].steps[i].status = "completed" =>
          gen'[r].steps[i].status = "completed" /\ gen'[r].steps[i].hash = gen[r].steps[i].hash
    /\ gen[r].steps[i].status # "completed" /\ gen'[r].steps[i].status = "completed" =>
          /\ gen[r].steps[i].status = "running" /\ gen[r].steps[i].lease = "live" /\ ~gen[r].due
          /\ gen[r].steps[i].relay = gen[r].relay /\ LiveSession(gen[r].relay)
          /\ gen'[r].steps[i].attempt = gen[r].steps[i].attempt

\* Every move keeps the answers of a generation that it does not delete.
LEMMA MoveFenced ==
    ASSUME TypeOK, NEW r \in Runs, RunOK(gen[r]), Moves(r), Exists(gen'[r])
    PROVE  \A i \in DOMAIN gen[r].steps : FencedStep(r, i)
<1> DEFINE g == gen[r]
           c == RefreshRun(g)
           h == gen'[r]
           Rests(i) == /\ h.steps[i].status = "completed" <=> g.steps[i].status = "completed"
                       /\ h.steps[i].hash = g.steps[i].hash
<1>0. g \in Run /\ c \in Run /\ RunOK(c) /\ Refreshed(g, c)
  BY RefreshType, RefreshOK, RefreshFields DEF TypeOK
<1>00. /\ DOMAIN c.steps = DOMAIN g.steps /\ c.relay = g.relay
       /\ \A i \in DOMAIN g.steps :
             /\ c.steps[i].attempt = g.steps[i].attempt
             /\ c.steps[i].hash = g.steps[i].hash
             /\ c.steps[i].status = "completed" <=> g.steps[i].status = "completed"
             /\ c.steps[i].status = "running" =>
                   g.steps[i].status = "running" /\ g.steps[i].lease # "lapsed" /\ ~g.due
  BY <1>0 DEF Refreshed
<1> HIDE DEF c, g, h
<1>a. ASSUME \A i \in DOMAIN g.steps : Rests(i)
      PROVE  \A i \in DOMAIN g.steps : FencedStep(r, i)
  BY <1>a DEF FencedStep, g, h
<1>1. CASE Stays(r)
  <2>1. h \in {g, c}
    BY <1>1 DEF Stays, g, h, c
  <2>2. \A i \in DOMAIN g.steps : Rests(i)
    BY <1>00, <2>1
  <2>3. QED
    BY <1>a, <2>2 DEF g
<1>2. CASE Revoked(r)
  <2>1. h = MarkUncertain(g, RunningSteps(g))
    BY <1>2 DEF Revoked, g, h
  <2>2. CASE RunningSteps(g) = {}
    <3>1. h = g
      BY <2>1, <2>2 DEF MarkUncertain
    <3>2. QED
      BY <1>a, <3>1 DEF g
  <2>3. CASE RunningSteps(g) # {}
    <3>1. CallsLost(g, RunningSteps(g), h)
      BY <1>0, <2>1, <2>3, MarkUncertainFields
    <3>2. \A i \in DOMAIN g.steps : Rests(i)
      BY <3>1 DEF CallsLost, RunningSteps
    <3>3. QED
      BY <1>a, <3>2 DEF g
  <2>4. QED
    BY <2>2, <2>3
<1>3. CASE Cancelled(r)
  <2>1. h = Abandon(g, "cancelled") /\ "cancelled" \in Terminal
    BY <1>3 DEF Cancelled, g, h, Terminal
  <2>2. CoursesEnded(g, h)
    BY <1>0, <2>1, AbandonFields
  <2>3. \A i \in DOMAIN g.steps : Rests(i)
    BY <2>2 DEF CoursesEnded
  <2>4. QED
    BY <1>a, <2>3 DEF g
<1>4. CASE GivenUp(r)
  <2>1. h = Fail(c)
    BY <1>4 DEF GivenUp, g, h, c
  <2>2. SameCourse(c, h)
    BY <1>0, <2>1, FailFields
  <2>3. \A i \in DOMAIN g.steps : Rests(i)
    BY <1>00, <2>2 DEF SameCourse
  <2>4. QED
    BY <1>a, <2>3 DEF g
<1>5. CASE Resumed(r)
  <2>1. PICK x \in Sessions : h = Resume(c, x)
    BY <1>5 DEF Resumed, g, h, c
  <2>2. \A i \in DOMAIN c.steps :
           IF c.steps[i].status = "completed" THEN h.steps[i] = c.steps[i]
           ELSE h.steps[i].status = "pending" /\ h.steps[i].hash = c.steps[i].hash
    BY <1>0, <2>1, ResumeFields
  <2>3. \A i \in DOMAIN g.steps : Rests(i)
    BY <1>00, <2>2
  <2>4. QED
    BY <1>a, <2>3 DEF g
<1>6. CASE HandedOut(r)
  <2>1. PICK i \in DOMAIN c.steps : Claimable(c, i) /\ h = ClaimStep(c, i, c.relay)
    BY <1>00, <1>6 DEF HandedOut, c, g, h
  <2>2. /\ h.steps[i].status = "running" /\ h.steps[i].hash = c.steps[i].hash
        /\ \A j \in DOMAIN c.steps : j # i => h.steps[j] = c.steps[j]
    BY <1>0, <2>1, ClaimFields
  <2>3. c.steps[i].status = "pending"
    BY <2>1 DEF Claimable
  <2>4. \A j \in DOMAIN g.steps : Rests(j)
    BY <1>00, <2>2, <2>3
  <2>5. QED
    BY <1>a, <2>4 DEF g
<1>7. CASE Beats(r)
  <2>1. PICK i \in RunningSteps(c) : h = [c EXCEPT !.steps[i].lease = "live"]
    BY <1>7 DEF Beats, c, g, h
  <2>2. i \in DOMAIN c.steps
    BY DEF RunningSteps
  <2>3. \A j \in DOMAIN c.steps : /\ h.steps[j].status = c.steps[j].status
                                  /\ h.steps[j].hash = c.steps[j].hash
    BY <1>0, <2>1, <2>2, LeaseFields
  <2>4. \A j \in DOMAIN g.steps : Rests(j)
    BY <1>00, <2>3
  <2>5. QED
    BY <1>a, <2>4 DEF g
<1>8. CASE IsAnswered(r)
  <2>1. PICK i \in RunningSteps(c), answer \in Results, fits \in BOOLEAN :
           /\ g.steps[i].relay = g.relay /\ LiveSession(g.relay)
           /\ h = AcceptResult(c, i, answer, fits)
    BY <1>8 DEF IsAnswered, c, g, h
  <2>2. i \in DOMAIN c.steps /\ c.steps[i].status = "running"
    BY DEF RunningSteps
  <2>3. /\ SameCourseBut(c, i, h) /\ h.steps[i].status = "completed"
        /\ h.steps[i].attempt = c.steps[i].attempt
    BY <1>0, <2>1, <2>2, AcceptResultFields
  <2>4. ASSUME NEW j \in DOMAIN g.steps, j # i
        PROVE  FencedStep(r, j)
    <3>1. Rests(j)
      BY <1>00, <2>3, <2>4 DEF SameCourseBut
    <3>2. QED
      BY <3>1 DEF FencedStep, g, h
  <2>5. g.steps[i].lease = "live"
    <3>1. g.steps[i] \in Step
      BY <1>0, <1>00, <2>2, StepsDomain
    <3>2. g.steps[i].lease # "none"
      BY <1>00, <2>2 DEF RunOK, Held, g
    <3>3. QED
      BY <1>00, <2>2, <3>1, <3>2 DEF Step
  <2>6. FencedStep(r, i)
    BY <1>00, <2>1, <2>2, <2>3, <2>5 DEF FencedStep, g, h
  <2>7. QED
    BY <2>4, <2>6 DEF g
<1>9. CASE IsRefused(r)
  <2>1. PICK i \in RunningSteps(c), refused \in BOOLEAN : h = AcceptError(c, i, refused)
    BY <1>9 DEF IsRefused, c, g, h
  <2>2. i \in DOMAIN c.steps /\ c.steps[i].status = "running"
    BY DEF RunningSteps
  <2>3. /\ h.steps[i].status = (IF refused THEN "paused" ELSE "uncertain")
        /\ h.steps[i].hash = c.steps[i].hash
        /\ \A j \in DOMAIN c.steps : j # i => h.steps[j] = c.steps[j]
    BY <1>0, <2>1, <2>2, ErrorFields
  <2>4. \A j \in DOMAIN g.steps : Rests(j)
    BY <1>00, <2>2, <2>3
  <2>5. QED
    BY <1>a, <2>4 DEF g
<1>10. CASE Purged(r)
  BY <1>10 DEF Purged, NoRun, Exists
<1>11. CASE Lapses(r)
  <2>1. PICK i \in DOMAIN g.steps : h = [g EXCEPT !.steps[i].lease = "lapsed"]
    BY <1>11 DEF Lapses, g, h
  <2>2. \A j \in DOMAIN g.steps : /\ h.steps[j].status = g.steps[j].status
                                  /\ h.steps[j].hash = g.steps[j].hash
    BY <1>0, <2>1, LeaseFields
  <2>3. QED
    BY <1>a, <2>2 DEF g
<1>12. CASE Ticks(r)
  <2>1. h.steps = g.steps
    BY <1>12 DEF Ticks, g, h
  <2>2. QED
    BY <1>a, <2>1 DEF g
<1>13. QED
  BY <1>1, <1>2, <1>3, <1>4, <1>5, <1>6, <1>7, <1>8, <1>9, <1>10, <1>11, <1>12 DEF Moves, Quiet

\* The fencing of require_step: an accepted answer is never replaced or lost, and
\* is only accepted from the live session that holds the step, in the attempt in
\* flight, under its lease and before the expiry.
THEOREM AnswersFenced == Spec => AnswersAreFenced
<1> DEFINE Fenced == \A r \in Runs : \A i \in DOMAIN gen[r].steps :
                        LET s == gen[r].steps[i] IN
                        Exists(gen'[r]) =>
                          LET t == gen'[r].steps[i] IN
                          /\ s.status = "completed" => t.status = "completed" /\ t.hash = s.hash
                          /\ s.status # "completed" /\ t.status = "completed" =>
                                /\ s.status = "running" /\ s.lease = "live" /\ ~gen[r].due
                                /\ s.relay = gen[r].relay /\ LiveSession(s.relay)
                                /\ t.attempt = s.attempt
<1>1. TypeOK /\ AllOK /\ [Next]_vars => Fenced
  <2> SUFFICES ASSUME TypeOK, AllOK, [Next]_vars PROVE Fenced
    OBVIOUS
  <2>1. ASSUME NEW r \in Runs, Moves(r), NEW i \in DOMAIN gen[r].steps, Exists(gen'[r])
        PROVE  FencedStep(r, i)
    BY <2>1, MoveFenced DEF AllOK
  <2>2. ASSUME NEW r \in Runs, Moves(r) \/ gen[r].steps = <<>>,
               NEW i \in DOMAIN gen[r].steps, Exists(gen'[r])
        PROVE  FencedStep(r, i)
    BY <2>1, <2>2
  <2>3. ASSUME NEW r \in Runs
        PROVE  Moves(r) \/ gen[r].steps = <<>>
    <3>1. CASE ~Submits
      BY <3>1, EveryStepMoves
    <3>2. ASSUME NEW s \in Runs, NEW k \in Keys, NEW x \in Sessions, NEW m \in Models,
                 NEW p \in Plans, SubmitGeneration(s, k, x, m, p)
          PROVE  Moves(r) \/ gen[r].steps = <<>>
      <4>1. CASE r = s
        BY <3>2, <4>1, SubmissionCreates DEF AllOK, RunOK
      <4>2. CASE r # s
        BY <3>2, <4>2, SubmissionCreates DEF Moves, Quiet
      <4>3. QED
        BY <4>1, <4>2
    <3>3. QED
      BY <3>1, <3>2 DEF Submits
  <2>4. QED
    BY <2>2, <2>3 DEF FencedStep
<1>2. AnswersAreFenced <=> [][Fenced]_vars
  BY DEF AnswersAreFenced
<1> HIDE DEF Fenced
<1>3. QED
  BY <1>1, <1>2, TypeCorrect, EachRunOK, PTL DEF Spec

-----------------------------------------------------------------------------
\* Attempts and consent.

\* The step in progress was called at most once more than there are grants, and
\* one that waits not even that often.
Counted(g, n) ==
    \A i \in DOMAIN g.steps :
        /\ g.steps[i].status = "pending" => g.steps[i].attempt <= n
        /\ g.steps[i].status \in {"running", "uncertain", "paused"} => g.steps[i].attempt <= 1 + n

\* Every move counts: a call that is made again was granted.
LEMMA MoveCounted ==
    ASSUME TypeOK, NEW r \in Runs, RunOK(gen[r]), Counted(gen[r], grants[r]), Moves(r)
    PROVE  Counted(gen'[r], grants'[r])
<1> DEFINE g == gen[r]
           c == RefreshRun(g)
           h == gen'[r]
           n == grants[r]
<1>0. /\ g \in Run /\ c \in Run /\ RunOK(g) /\ RunOK(c) /\ Refreshed(g, c)
      /\ Counted(g, n) /\ n \in Nat
  BY RefreshType, RefreshOK, RefreshFields DEF TypeOK
<1> HIDE DEF c, g, h, n
<1>00. /\ \A i \in DOMAIN g.steps : g.steps[i] \in Step
       /\ \A i \in DOMAIN c.steps : c.steps[i] \in Step
       /\ DOMAIN c.steps = DOMAIN g.steps
       /\ DOMAIN c.steps = 1..Len(c.steps)
  BY <1>0, StepsDomain DEF Refreshed
<1>01. Counted(c, n)
  BY <1>0 DEF Refreshed, Counted
<1>a. ASSUME Counted(h, n), grants'[r] = n
      PROVE  Counted(gen'[r], grants'[r])
  BY <1>a DEF h
<1>1. CASE Stays(r)
  <2>1. h \in {g, c} /\ (grants'[r] = n \/ ~Exists(h))
    BY <1>1 DEF Stays, g, h, c, n
  <2>2. CASE grants'[r] = n
    BY <1>0, <1>01, <1>a, <2>1, <2>2
  <2>3. CASE ~Exists(h)
    <3>1. h.steps = <<>> /\ h \in Run
      BY <1>0, <2>1, <2>3 DEF RunOK
    <3>2. DOMAIN h.steps = {}
      BY <3>1
    <3>3. QED
      BY <3>2 DEF Counted, h
  <2>4. QED
    BY <2>1, <2>2, <2>3
<1>2. CASE Revoked(r)
  <2>1. h = MarkUncertain(g, RunningSteps(g)) /\ grants'[r] = n
    BY <1>2 DEF Revoked, g, h, n
  <2>2. CASE RunningSteps(g) = {}
    BY <1>0, <1>a, <2>1, <2>2 DEF MarkUncertain
  <2>3. CASE RunningSteps(g) # {}
    <3>1. CallsLost(g, RunningSteps(g), h)
      BY <1>0, <2>1, <2>3, MarkUncertainFields
    <3>2. Counted(h, n)
      BY <1>0, <3>1 DEF CallsLost, RunningSteps, Counted
    <3>3. QED
      BY <1>a, <2>1, <3>2
  <2>4. QED
    BY <2>2, <2>3
<1>3. CASE Cancelled(r)
  <2>1. h = Abandon(g, "cancelled") /\ "cancelled" \in Terminal /\ grants'[r] = n
    BY <1>3 DEF Cancelled, g, h, n, Terminal
  <2>2. CoursesEnded(g, h)
    BY <1>0, <2>1, AbandonFields
  <2>3. Counted(h, n)
    BY <2>2 DEF CoursesEnded, Counted
  <2>4. QED
    BY <1>a, <2>1, <2>3
<1>4. CASE GivenUp(r)
  <2>1. h = Fail(c) /\ grants'[r] = n
    BY <1>4 DEF GivenUp, g, h, c, n
  <2>2. SameCourse(c, h)
    BY <1>0, <2>1, FailFields
  <2>3. Counted(h, n)
    BY <1>01, <2>2 DEF SameCourse, Counted
  <2>4. QED
    BY <1>a, <2>1, <2>3
<1>5. CASE Resumed(r)
  <2>1. PICK x \in Sessions :
           /\ IsActive(c) /\ h = Resume(c, x)
           /\ grants'[r] \in {n, n + 1}
           /\ InDoubt(c) \/ c.status = "paused" => grants'[r] = n + 1
    BY <1>5 DEF Resumed, g, h, c, n
  <2>2. /\ DOMAIN h.steps = DOMAIN c.steps
        /\ \A i \in DOMAIN c.steps :
              IF c.steps[i].status = "completed" THEN h.steps[i] = c.steps[i]
              ELSE h.steps[i].status = "pending" /\ h.steps[i].attempt = c.steps[i].attempt
    BY <1>0, <2>1, ResumeFields
  <2>3. ASSUME NEW i \in DOMAIN c.steps, c.steps[i].status # "completed"
        PROVE  c.steps[i].attempt <= grants'[r]
    <3>1. c.steps[i].status \in {"pending", "running", "uncertain", "paused"}
      BY <1>0, <1>00, <2>1, <2>3 DEF RunOK, Told, Has, Step
    <3>2. c.steps[i].attempt \in Nat
      BY <1>00, AttemptsAssumption DEF Step
    <3>3. CASE c.steps[i].status = "pending"
      <4>1. c.steps[i].attempt <= n
        BY <1>01, <3>3 DEF Counted
      <4>2. QED
        BY <1>0, <2>1, <3>2, <4>1
    <3>4. CASE c.steps[i].status \in {"running", "uncertain", "paused"}
      <4>1. InDoubt(c) \/ c.status = "paused"
        BY <1>0, <3>4 DEF InDoubt, RunOK, Told, Has
      <4>2. c.steps[i].attempt <= 1 + n
        BY <1>01, <3>4 DEF Counted
      <4>3. QED
        BY <1>0, <2>1, <3>2, <4>1, <4>2
    <3>5. QED
      BY <3>1, <3>3, <3>4
  <2>4. Counted(h, grants'[r])
    BY <2>2, <2>3 DEF Counted
  <2>5. QED
    BY <2>4 DEF h
<1>6. CASE HandedOut(r)
  <2>1. PICK i \in DOMAIN c.steps : Claimable(c, i) /\ h = ClaimStep(c, i, c.relay)
    BY <1>0, <1>00, <1>6 DEF HandedOut, c, g, h, Refreshed
  <2>2. /\ DOMAIN h.steps = DOMAIN c.steps
        /\ h.steps[i].status = "running" /\ h.steps[i].attempt = c.steps[i].attempt + 1
        /\ \A j \in DOMAIN c.steps : j # i => h.steps[j] = c.steps[j]
    BY <1>0, <2>1, ClaimFields
  <2>3. c.steps[i].status = "pending" /\ c.steps[i].attempt \in Nat
    BY <1>00, <2>1, AttemptsAssumption DEF Claimable, Step
  <2>4. h.steps[i].attempt <= 1 + n
    <3>1. c.steps[i].attempt <= n
      BY <1>01, <2>3 DEF Counted
    <3>2. QED
      BY <1>0, <2>2, <2>3, <3>1
  <2>5. Counted(h, n)
    BY <1>01, <2>2, <2>4 DEF Counted
  <2>6. grants'[r] = n
    BY <1>6 DEF HandedOut, n
  <2>7. QED
    BY <1>a, <2>5, <2>6
<1>7. CASE Beats(r)
  <2>1. PICK i \in RunningSteps(c) : /\ h = [c EXCEPT !.steps[i].lease = "live"]
                                     /\ grants'[r] = n
    BY <1>7 DEF Beats, c, g, h, n
  <2>2. i \in DOMAIN c.steps
    BY DEF RunningSteps
  <2>3. /\ DOMAIN h.steps = DOMAIN c.steps
        /\ \A j \in DOMAIN c.steps : /\ h.steps[j].status = c.steps[j].status
                                     /\ h.steps[j].attempt = c.steps[j].attempt
    BY <1>0, <2>1, <2>2, LeaseFields
  <2>4. Counted(h, n)
    BY <1>01, <2>3 DEF Counted
  <2>5. QED
    BY <1>a, <2>1, <2>4
<1>8. CASE IsAnswered(r)
  <2>1. PICK i \in RunningSteps(c), answer \in Results, fits \in BOOLEAN :
           h = AcceptResult(c, i, answer, fits) /\ grants'[r] = 0
    BY <1>8 DEF IsAnswered, c, g, h
  <2>2. i \in DOMAIN c.steps /\ c.steps[i].status = "running"
    BY DEF RunningSteps
  <2>3. SameCourseBut(c, i, h) /\ h.steps[i].status = "completed"
    BY <1>0, <2>1, <2>2, AcceptResultFields
  <2>4. /\ \A j \in DOMAIN c.steps : j < i => c.steps[j].status = "completed"
        /\ \A j \in DOMAIN c.steps : j > i => /\ c.steps[j].attempt = 0
                                              /\ c.steps[j].status \in {"pending", "cancelled"}
    BY <1>0, <2>2, InFlightIsCurrent DEF RunOK
  <2>5. ASSUME NEW j \in DOMAIN c.steps, j # i
        PROVE  /\ h.steps[j].status = "pending" => h.steps[j].attempt <= 0
               /\ h.steps[j].status \notin {"running", "uncertain", "paused"}
    <3>1. /\ h.steps[j].status = c.steps[j].status
          /\ h.steps[j].attempt = c.steps[j].attempt
      BY <2>3, <2>5 DEF SameCourseBut
    <3>2. j < i \/ j > i
      BY <1>00, <2>2, <2>5
    <3>3. QED
      BY <2>4, <3>1, <3>2
  <2>6. Counted(h, 0)
    BY <2>3, <2>5 DEF Counted, SameCourseBut
  <2>7. QED
    BY <2>1, <2>6 DEF h
<1>9. CASE IsRefused(r)
  <2>1. PICK i \in RunningSteps(c), refused \in BOOLEAN :
           h = AcceptError(c, i, refused) /\ grants'[r] = n
    BY <1>9 DEF IsRefused, c, g, h, n
  <2>2. i \in DOMAIN c.steps /\ c.steps[i].status = "running"
    BY DEF RunningSteps
  <2>3. /\ DOMAIN h.steps = DOMAIN c.steps
        /\ h.steps[i].status = (IF refused THEN "paused" ELSE "uncertain")
        /\ h.steps[i].attempt = c.steps[i].attempt
        /\ \A j \in DOMAIN c.steps : j # i => h.steps[j] = c.steps[j]
    BY <1>0, <2>1, <2>2, ErrorFields
  <2>4. h.steps[i].attempt <= 1 + n /\ h.steps[i].status # "pending"
    BY <1>01, <2>2, <2>3 DEF Counted
  <2>5. Counted(h, n)
    BY <1>01, <2>3, <2>4 DEF Counted
  <2>6. QED
    BY <1>a, <2>1, <2>5
<1>10. CASE Purged(r)
  BY <1>10 DEF Purged, NoRun, Counted
<1>11. CASE Lapses(r)
  <2>1. PICK i \in DOMAIN g.steps : h = [g EXCEPT !.steps[i].lease = "lapsed"] /\ grants'[r] = n
    BY <1>11 DEF Lapses, g, h, n
  <2>2. /\ DOMAIN h.steps = DOMAIN g.steps
        /\ \A j \in DOMAIN g.steps : /\ h.steps[j].status = g.steps[j].status
                                     /\ h.steps[j].attempt = g.steps[j].attempt
    BY <1>0, <2>1, LeaseFields
  <2>3. Counted(h, n)
    BY <1>0, <2>2 DEF Counted
  <2>4. QED
    BY <1>a, <2>1, <2>3
<1>12. CASE Ticks(r)
  <2>1. h.steps = g.steps /\ grants'[r] = n
    BY <1>12 DEF Ticks, g, h, n
  <2>2. Counted(h, n)
    BY <1>0, <2>1 DEF Counted
  <2>3. QED
    BY <1>a, <2>1, <2>2
<1>13. QED
  BY <1>1, <1>2, <1>3, <1>4, <1>5, <1>6, <1>7, <1>8, <1>9, <1>10, <1>11, <1>12 DEF Moves, Quiet

\* An ambiguous call is never repeated without consent: the calls of a step are
\* bounded by the user's explicit decisions and the provider's refusals.
THEOREM NothingRetriedSilently == Spec => []NoSilentRetry
<1> DEFINE CountInv == \A r \in Runs : Counted(gen[r], grants[r])
<1>1. Init => CountInv
  BY DEF Init, NoRun, Counted
<1>2. TypeOK /\ AllOK /\ CountInv /\ [Next]_vars => CountInv'
  <2> SUFFICES ASSUME TypeOK, AllOK, CountInv, [Next]_vars
               PROVE  \A r \in Runs : Counted(gen'[r], grants'[r])
    BY DEF Counted
  <2>1. CASE ~Submits
    BY <2>1, EveryStepMoves, MoveCounted DEF AllOK
  <2>2. ASSUME NEW r \in Runs, NEW k \in Keys, NEW x \in Sessions, NEW m \in Models,
               NEW p \in Plans, SubmitGeneration(r, k, x, m, p), NEW s \in Runs
        PROVE  Counted(gen'[s], grants'[s])
    <3>1. CASE s = r
      <4>1. /\ gen'[r] = CreateRun(k, m, x, p) /\ grants'[r] \in Nat
        BY <2>2, SubmissionCreates DEF TypeOK
      <4>2. \A i \in DOMAIN gen'[r].steps : gen'[r].steps[i].attempt = 0
        BY <4>1, CreateRunOK
      <4>3. QED
        BY <3>1, <4>1, <4>2 DEF Counted
    <3>2. CASE s # r
      <4>1. Moves(s)
        BY <2>2, <3>2, SubmissionCreates DEF Moves, Quiet
      <4>2. QED
        BY <4>1, MoveCounted DEF AllOK
    <3>3. QED
      BY <3>1, <3>2
  <2>3. QED
    BY <2>1, <2>2 DEF Submits
<1>3. TypeOK /\ CountInv => NoSilentRetry
  <2> SUFFICES ASSUME TypeOK, CountInv, NEW r \in Runs, NEW i \in DOMAIN gen[r].steps,
                      gen[r].steps[i].status \in {"pending", "running", "uncertain", "paused"}
               PROVE  gen[r].steps[i].attempt <= 1 + grants[r]
    BY DEF NoSilentRetry
  <2>1. gen[r].steps[i] \in Step /\ grants[r] \in Nat
    BY StepsDomain DEF TypeOK
  <2>2. gen[r].steps[i].attempt \in Nat
    BY <2>1, AttemptsAssumption DEF Step
  <2>3. gen[r].steps[i].attempt <= grants[r] \/ gen[r].steps[i].attempt <= 1 + grants[r]
    BY DEF Counted
  <2>4. QED
    BY <2>1, <2>2, <2>3
<1> HIDE DEF CountInv
<1>4. QED
  BY <1>1, <1>2, <1>3, TypeCorrect, EachRunOK, PTL DEF Spec

-----------------------------------------------------------------------------
\* Relays, keys and limits.

\* A move creates no generation, wakes none up, and binds it to another relay
\* only when that one serves its model.
LEMMA MoveHead ==
    ASSUME TypeOK, NEW r \in Runs, RunOK(gen[r]), Moves(r)
    PROVE  /\ Exists(gen'[r]) => /\ Exists(gen[r])
                                 /\ gen'[r].key = gen[r].key /\ gen'[r].model = gen[r].model
           /\ IsActive(gen'[r]) => IsActive(gen[r])
           /\ IsActive(gen'[r]) => \/ gen'[r].relay = gen[r].relay
                                   \/ /\ gen'[r].relay \in Sessions
                                      /\ Serves(gen'[r].relay, gen[r].model)
<1> DEFINE g == gen[r]
           c == RefreshRun(g)
           h == gen'[r]
           Same(k) == h.key = k.key /\ h.model = k.model /\ h.relay = k.relay
<1>0. /\ g \in Run /\ c \in Run /\ RunOK(g) /\ RunOK(c) /\ Refreshed(g, c)
  BY RefreshType, RefreshOK, RefreshFields DEF TypeOK
<1> HIDE DEF c, g, h
<1>01. /\ c.key = g.key /\ c.model = g.model /\ c.relay = g.relay
       /\ IsActive(c) => IsActive(g)
       /\ Exists(c) <=> Exists(g)
  BY <1>0 DEF Refreshed, SameHead
<1>02. \A k : IsActive(k) => Exists(k)
  BY DEF IsActive, Exists, Active
<1> SUFFICES /\ Exists(h) => Exists(g) /\ h.key = g.key /\ h.model = g.model
             /\ IsActive(h) => IsActive(g)
             /\ IsActive(h) => \/ h.relay = g.relay
                               \/ h.relay \in Sessions /\ Serves(h.relay, g.model)
  BY DEF g, h
<1>a. ASSUME IsActive(g), Same(g) \/ Same(c)
      PROVE  /\ Exists(h) => Exists(g) /\ h.key = g.key /\ h.model = g.model
             /\ IsActive(h) => IsActive(g)
             /\ IsActive(h) => \/ h.relay = g.relay
                               \/ h.relay \in Sessions /\ Serves(h.relay, g.model)
  BY <1>01, <1>02, <1>a
<1>b. ASSUME NEW i \in RunningSteps(c)
      PROVE  IsActive(g) /\ i \in DOMAIN c.steps
  <2>1. c.status = "running"
    BY <1>0 DEF RunningSteps, RunOK, Told, Has
  <2>2. QED
    BY <1>01, <2>1 DEF RunningSteps, IsActive, Active
<1>c. c.status = "waiting_relay" => IsActive(g)
  BY <1>01 DEF IsActive, Active
<1>1. CASE Stays(r)
  <2>1. h \in {g, c}
    BY <1>1 DEF Stays, g, h, c
  <2>2. QED
    BY <1>01, <2>1
<1>2. CASE Revoked(r)
  <2>1. h = MarkUncertain(g, RunningSteps(g)) /\ IsActive(g)
    BY <1>2 DEF Revoked, g, h
  <2>2. CASE RunningSteps(g) = {}
    BY <1>a, <2>1, <2>2 DEF MarkUncertain
  <2>3. CASE RunningSteps(g) # {}
    <3>1. Same(g)
      BY <1>0, <2>1, <2>3, MarkUncertainFields DEF SameHead
    <3>2. QED
      BY <1>a, <2>1, <3>1
  <2>4. QED
    BY <2>2, <2>3
<1>3. CASE Cancelled(r)
  <2>1. h = Abandon(g, "cancelled") /\ "cancelled" \in Terminal /\ IsActive(g)
    BY <1>3 DEF Cancelled, g, h, Terminal
  <2>2. Same(g)
    BY <1>0, <2>1, AbandonFields DEF SameHead
  <2>3. QED
    BY <1>a, <2>1, <2>2
<1>4. CASE GivenUp(r)
  <2>1. h = Fail(c) /\ c.status = "waiting_relay"
    BY <1>4 DEF GivenUp, Exhausted, Claimable, g, h, c
  <2>2. Same(c)
    BY <1>0, <2>1, FailFields DEF SameHead
  <2>3. QED
    BY <1>a, <1>c, <2>1, <2>2
<1>5. CASE Resumed(r)
  <2>1. PICK x \in Sessions : IsActive(c) /\ Serves(x, c.model) /\ h = Resume(c, x)
    BY <1>5 DEF Resumed, g, h, c
  <2>2. h.key = c.key /\ h.model = c.model /\ h.relay = x
    BY <1>0, <2>1, ResumeFields DEF SameHead
  <2>3. QED
    BY <1>01, <1>02, <2>1, <2>2
<1>6. CASE HandedOut(r)
  <2>1. PICK i \in DOMAIN g.steps : Claimable(c, i) /\ h = ClaimStep(c, i, g.relay)
    BY <1>6 DEF HandedOut, c, g, h
  <2>2. i \in DOMAIN c.steps /\ c.status = "waiting_relay"
    BY <2>1 DEF Claimable, IsCurrent
  <2>3. Same(c)
    BY <1>0, <2>1, <2>2, ClaimFields DEF SameHead
  <2>4. QED
    BY <1>a, <1>c, <2>2, <2>3
<1>7. CASE Beats(r)
  <2>1. PICK i \in RunningSteps(c) : h = [c EXCEPT !.steps[i].lease = "live"]
    BY <1>7 DEF Beats, c, g, h
  <2>2. Same(c)
    BY <1>0, <1>b, <2>1, LeaseFields DEF SameHead
  <2>3. QED
    BY <1>a, <1>b, <2>1, <2>2
<1>8. CASE IsAnswered(r)
  <2>1. PICK i \in RunningSteps(c), answer \in Results, fits \in BOOLEAN :
           h = AcceptResult(c, i, answer, fits)
    BY <1>8 DEF IsAnswered, c, g, h
  <2>2. Same(c)
    BY <1>0, <1>b, <2>1, AcceptResultFields DEF SameHead
  <2>3. QED
    BY <1>a, <1>b, <2>1, <2>2
<1>9. CASE IsRefused(r)
  <2>1. PICK i \in RunningSteps(c), refused \in BOOLEAN : h = AcceptError(c, i, refused)
    BY <1>9 DEF IsRefused, c, g, h
  <2>2. Same(c)
    BY <1>0, <1>b, <2>1, ErrorFields DEF SameHead
  <2>3. QED
    BY <1>a, <1>b, <2>1, <2>2
<1>10. CASE Purged(r)
  BY <1>10 DEF Purged, NoRun, Exists, IsActive, Active, h
<1>11. CASE Lapses(r)
  <2>1. PICK i \in DOMAIN g.steps : h = [g EXCEPT !.steps[i].lease = "lapsed"]
    BY <1>11 DEF Lapses, g, h
  <2>2. Same(g) /\ h.status = g.status
    BY <1>0, <2>1, LeaseFields DEF SameHead
  <2>3. QED
    BY <2>2 DEF Exists, IsActive
<1>12. CASE Ticks(r)
  BY <1>12 DEF Ticks, Exists, IsActive, g, h
<1>13. QED
  BY <1>1, <1>2, <1>3, <1>4, <1>5, <1>6, <1>7, <1>8, <1>9, <1>10, <1>11, <1>12 DEF Moves, Quiet

\* A generation never goes back to having been handed out less often: the attempts
\* of its steps only grow, until its rows are purged.
MoreAttempts(g, h) ==
    /\ h.status = "absent" <=> g.status = "absent"
    /\ DOMAIN h.steps \subseteq DOMAIN g.steps
    /\ \A i \in DOMAIN h.steps : h.steps[i].attempt >= g.steps[i].attempt

\* No move takes an attempt back, or makes a row disappear without its tombstone.
LEMMA MoveAttempts ==
    ASSUME TypeOK, NEW r \in Runs, RunOK(gen[r]), Moves(r)
    PROVE  MoreAttempts(gen[r], gen'[r])
<1> DEFINE g == gen[r]
           c == RefreshRun(g)
           h == gen'[r]
<1>0. /\ g \in Run /\ c \in Run /\ RunOK(g) /\ RunOK(c) /\ Refreshed(g, c)
  BY RefreshType, RefreshOK, RefreshFields DEF TypeOK
<1> HIDE DEF c, g, h
<1>01. /\ \A i \in DOMAIN g.steps : g.steps[i] \in Step
       /\ \A i \in DOMAIN c.steps : c.steps[i] \in Step
       /\ DOMAIN c.steps = DOMAIN g.steps
  BY <1>0, StepsDomain DEF Refreshed
<1>02. \A i \in DOMAIN g.steps : /\ g.steps[i].attempt \in Nat
                                 /\ c.steps[i].attempt = g.steps[i].attempt
  <2>1. \A s \in Step : s.attempt \in Nat
    BY AttemptsAssumption DEF Step
  <2>2. QED
    BY <1>0, <1>01, <2>1 DEF Refreshed
<1>03. c.status = "absent" <=> g.status = "absent"
  BY <1>0 DEF Refreshed, Exists, IsActive, Active
<1>a. ASSUME DOMAIN h.steps = DOMAIN g.steps,
             h.status # "absent", g.status # "absent",
             \A i \in DOMAIN g.steps : \/ h.steps[i].attempt = g.steps[i].attempt
                                       \/ h.steps[i].attempt = g.steps[i].attempt + 1
      PROVE  MoreAttempts(gen[r], gen'[r])
  <2>1. MoreAttempts(g, h)
    BY <1>02, <1>a DEF MoreAttempts
  <2>2. QED
    BY <2>1 DEF g, h
<1>b. ASSUME NEW i \in RunningSteps(c)
      PROVE  g.status # "absent" /\ i \in DOMAIN c.steps /\ i \in DOMAIN g.steps
  <2>1. c.status = "running"
    BY <1>0 DEF RunningSteps, RunOK, Told, Has
  <2>2. QED
    BY <1>01, <1>03, <2>1 DEF RunningSteps
<1>1. CASE Stays(r)
  <2>1. h \in {g, c}
    BY <1>1 DEF Stays, g, h, c
  <2>2. MoreAttempts(g, h)
    BY <1>01, <1>02, <1>03, <2>1 DEF MoreAttempts
  <2>3. QED
    BY <2>2 DEF g, h
<1>2. CASE Revoked(r)
  <2>1. h = MarkUncertain(g, RunningSteps(g)) /\ g.status # "absent"
    BY <1>2 DEF Revoked, IsActive, Active, g, h
  <2>2. CASE RunningSteps(g) = {}
    BY <1>a, <2>1, <2>2 DEF MarkUncertain
  <2>3. CASE RunningSteps(g) # {}
    <3>1. CallsLost(g, RunningSteps(g), h) /\ h.status = "uncertain"
      BY <1>0, <2>1, <2>3, MarkUncertainFields
    <3>2. QED
      BY <1>a, <2>1, <3>1 DEF CallsLost
  <2>4. QED
    BY <2>2, <2>3
<1>3. CASE Cancelled(r)
  <2>1. h = Abandon(g, "cancelled") /\ "cancelled" \in Terminal /\ g.status # "absent"
    BY <1>3 DEF Cancelled, IsActive, Active, g, h, Terminal
  <2>2. CoursesEnded(g, h) /\ h.status = "cancelled"
    BY <1>0, <2>1, AbandonFields
  <2>3. QED
    BY <1>a, <2>1, <2>2 DEF CoursesEnded
<1>4. CASE GivenUp(r)
  <2>1. h = Fail(c) /\ c.status = "waiting_relay"
    BY <1>4 DEF GivenUp, Exhausted, Claimable, g, h, c
  <2>2. SameCourse(c, h) /\ h.status = "failed"
    BY <1>0, <2>1, FailFields
  <2>3. QED
    BY <1>01, <1>02, <1>03, <1>a, <2>1, <2>2 DEF SameCourse
<1>5. CASE Resumed(r)
  <2>1. PICK x \in Sessions : IsActive(c) /\ h = Resume(c, x)
    BY <1>5 DEF Resumed, g, h, c
  <2>2. /\ DOMAIN h.steps = DOMAIN c.steps /\ h.status = "waiting_relay"
        /\ \A i \in DOMAIN c.steps : h.steps[i].attempt = c.steps[i].attempt
    BY <1>0, <2>1, ResumeFields
  <2>3. QED
    BY <1>01, <1>02, <1>03, <1>a, <2>1, <2>2 DEF IsActive, Active
<1>6. CASE HandedOut(r)
  <2>1. PICK i \in DOMAIN g.steps : Claimable(c, i) /\ h = ClaimStep(c, i, g.relay)
    BY <1>6 DEF HandedOut, c, g, h
  <2>2. i \in DOMAIN c.steps /\ c.status = "waiting_relay"
    BY <2>1 DEF Claimable, IsCurrent
  <2>3. /\ DOMAIN h.steps = DOMAIN c.steps /\ h.status = "running"
        /\ h.steps[i].attempt = c.steps[i].attempt + 1
        /\ \A j \in DOMAIN c.steps : j # i => h.steps[j] = c.steps[j]
    BY <1>0, <2>1, <2>2, ClaimFields
  <2>4. QED
    BY <1>01, <1>02, <1>03, <1>a, <2>2, <2>3
<1>7. CASE Beats(r)
  <2>1. PICK i \in RunningSteps(c) : h = [c EXCEPT !.steps[i].lease = "live"]
    BY <1>7 DEF Beats, c, g, h
  <2>2. /\ DOMAIN h.steps = DOMAIN c.steps /\ h.status = c.status
        /\ \A j \in DOMAIN c.steps : h.steps[j].attempt = c.steps[j].attempt
    BY <1>0, <1>b, <2>1, LeaseFields
  <2>3. QED
    BY <1>01, <1>02, <1>03, <1>a, <1>b, <2>1, <2>2
<1>8. CASE IsAnswered(r)
  <2>1. PICK i \in RunningSteps(c), answer \in Results, fits \in BOOLEAN :
           h = AcceptResult(c, i, answer, fits)
    BY <1>8 DEF IsAnswered, c, g, h
  <2>2. /\ SameCourseBut(c, i, h) /\ h.steps[i].attempt = c.steps[i].attempt
        /\ h.status # "absent"
    BY <1>0, <1>b, <2>1, AcceptResultFields
  <2>3. QED
    BY <1>01, <1>02, <1>a, <1>b, <2>1, <2>2 DEF SameCourseBut
<1>9. CASE IsRefused(r)
  <2>1. PICK i \in RunningSteps(c), refused \in BOOLEAN : h = AcceptError(c, i, refused)
    BY <1>9 DEF IsRefused, c, g, h
  <2>2. /\ DOMAIN h.steps = DOMAIN c.steps /\ h.status # "absent"
        /\ h.steps[i].attempt = c.steps[i].attempt
        /\ \A j \in DOMAIN c.steps : j # i => h.steps[j] = c.steps[j]
    BY <1>0, <1>b, <2>1, ErrorFields
  <2>3. QED
    BY <1>01, <1>02, <1>a, <1>b, <2>1, <2>2
<1>10. CASE Purged(r)
  <2>1. h = NoRun("purged") /\ c.status \in Terminal
    BY <1>10 DEF Purged, g, c, h
  <2>2. h.steps = <<>> /\ h.status = "purged" /\ g.status # "absent"
    BY <1>03, <2>1 DEF NoRun, Terminal
  <2>3. MoreAttempts(g, h)
    BY <2>2 DEF MoreAttempts
  <2>4. QED
    BY <2>3 DEF g, h
<1>11. CASE Lapses(r)
  <2>1. PICK i \in DOMAIN g.steps : /\ g.steps[i].lease = "live"
                                    /\ h = [g EXCEPT !.steps[i].lease = "lapsed"]
    BY <1>11 DEF Lapses, g, h
  <2>2. /\ DOMAIN h.steps = DOMAIN g.steps /\ h.status = g.status
        /\ \A j \in DOMAIN g.steps : h.steps[j].attempt = g.steps[j].attempt
    BY <1>0, <2>1, LeaseFields
  <2>3. MoreAttempts(g, h)
    BY <1>02, <2>2 DEF MoreAttempts
  <2>4. QED
    BY <2>3 DEF g, h
<1>12. CASE Ticks(r)
  <2>1. h.status = g.status /\ h.steps = g.steps
    BY <1>12 DEF Ticks, g, h
  <2>2. MoreAttempts(g, h)
    BY <1>02, <2>1 DEF MoreAttempts
  <2>3. QED
    BY <2>2 DEF g, h
<1>13. QED
  BY <1>1, <1>2, <1>3, <1>4, <1>5, <1>6, <1>7, <1>8, <1>9, <1>10, <1>11, <1>12 DEF Moves, Quiet

\* What a generation that was there before a step is after it.
Follows(r) == /\ MoreAttempts(gen[r], gen'[r])
              /\ Exists(gen'[r]) => Exists(gen[r]) /\ gen'[r].key = gen[r].key

\* Moves do not make generations.
LEMMA MoveFollows ==
    ASSUME TypeOK, AllOK, NEW r \in Runs, Moves(r)
    PROVE  Follows(r)
  BY MoveHead, MoveAttempts DEF AllOK, Follows

\* A submission makes one generation; the others were there before.
LEMMA SubmissionFollows ==
    ASSUME TypeOK, AllOK, NEW r \in Runs, NEW k \in Keys, NEW x \in Sessions, NEW m \in Models,
           NEW p \in Plans, SubmitGeneration(r, k, x, m, p)
    PROVE  \A s \in Runs \ {r} : Follows(s)
  BY SubmissionCreates, MoveFollows DEF Moves, Quiet

\* A generation is there because it was there before, or because it is created in
\* this step, and never was before.
LEMMA FollowsOrCreated ==
    ASSUME TypeOK, AllOK, [Next]_vars, NEW r \in Runs
    PROVE  \/ Follows(r)
           \/ /\ gen[r].status = "absent"
              /\ \E k \in Keys, x \in Sessions, m \in Models, p \in Plans :
                    gen'[r] = CreateRun(k, m, x, p)
<1>1. CASE ~Submits
  BY <1>1, EveryStepMoves, MoveFollows
<1>2. ASSUME NEW s \in Runs, NEW k \in Keys, NEW x \in Sessions, NEW m \in Models,
             NEW p \in Plans, SubmitGeneration(s, k, x, m, p)
      PROVE  \/ Follows(r)
             \/ gen[r].status = "absent" /\ gen'[r] = CreateRun(k, m, x, p)
  <2>1. gen[s].status = "absent" /\ gen'[s] = CreateRun(k, m, x, p)
    BY <1>2, SubmissionCreates DEF SubmitGeneration
  <2>2. CASE r = s
    BY <2>1, <2>2
  <2>3. CASE r # s
    BY <1>2, <2>3, SubmissionFollows
  <2>4. QED
    BY <2>2, <2>3
<1>3. QED
  BY <1>1, <1>2 DEF Submits

\* A relay session keeps the models it was opened with, and is opened once.
SessionsKeepModels ==
    \A x \in Sessions :
        /\ relays'[x].models = relays[x].models \/ relays[x].status = "unused"
        /\ relays'[x].status = "unused" => relays'[x] = relays[x]

\* Between two states a relay session keeps the models it was created with.
LEMMA StepKeepsModels ==
    ASSUME TypeOK, [Next]_vars
    PROVE  SessionsKeepModels
<1>1. ASSUME relays' = relays
      PROVE  SessionsKeepModels
  BY <1>1 DEF SessionsKeepModels
<1>2. ASSUME NEW x \in Sessions, NEW ms \in SUBSET Models, CreateRelaySession(x, ms)
      PROVE  SessionsKeepModels
  BY <1>2 DEF CreateRelaySession, SessionsKeepModels, TypeOK, Relay
<1>3. ASSUME NEW x \in Sessions, RevokeRelay(x) \/ SessionExpires(x)
      PROVE  SessionsKeepModels
  <2>1. relays' = [relays EXCEPT ![x].status = "expired"]
    BY <1>3 DEF RevokeRelay, SessionExpires
  <2>2. QED
    BY <2>1 DEF SessionsKeepModels, TypeOK, Relay
<1>4. CASE SessionRequest
  BY <1>2, <1>3, <1>4 DEF SessionRequest
<1>5. CASE UserRequest
  BY <1>1, <1>5 DEF UserRequest, SubmitGeneration, ListGenerations, GenerationStatus,
                    CancelGeneration, ResumeGeneration
<1>6. CASE ClaimRequest
  BY <1>1, <1>6 DEF ClaimRequest, ClaimNothing, ClaimOne
<1>7. CASE StepRequest
  BY <1>1, <1>7 DEF StepRequest, StepHeartbeat, SubmitResult, SubmitError
<1>8. CASE Clock
  BY <1>1, <1>3, <1>8 DEF Clock, RunDue, RunAges, LeaseLapses, DayTurns
<1>9. QED
  BY <1>1, <1>4, <1>5, <1>6, <1>7, <1>8 DEF Next, Maintain, vars

\* A generation in progress is bound to a relay that offered its model.
Bound(g) == IsActive(g) => g.relay \in Sessions /\ g.model \in relays[g.relay].models

RelaysOK == \A x \in Sessions : relays[x].status = "unused" => relays[x].models = {}

\* Only the relay that a generation is bound to works on it, under a lease, and
\* it is only ever bound to one that offered its model (claim, resume_generation).
THEOREM RelayIsBound == Spec => []BoundRelay
<1> DEFINE BoundInv == RelaysOK /\ \A r \in Runs : Bound(gen[r])
<1>1. Init => BoundInv
  BY DEF Init, NoRun, RelaysOK, Bound, IsActive, Active
<1>2. TypeOK /\ AllOK /\ BoundInv /\ [Next]_vars => BoundInv'
  <2> SUFFICES ASSUME TypeOK, AllOK, BoundInv, [Next]_vars
               PROVE  /\ RelaysOK'
                      /\ \A r \in Runs : IsActive(gen'[r]) =>
                            /\ gen'[r].relay \in Sessions
                            /\ gen'[r].model \in relays'[gen'[r].relay].models
    BY DEF Bound
  <2>1. SessionsKeepModels
    BY StepKeepsModels
  <2>2. RelaysOK'
    BY <2>1 DEF SessionsKeepModels, RelaysOK
  <2>3. \A x \in Sessions : relays[x].models \subseteq relays'[x].models
    BY <2>1 DEF SessionsKeepModels, RelaysOK
  <2>4. ASSUME NEW r \in Runs, Moves(r), IsActive(gen'[r])
        PROVE  /\ gen'[r].relay \in Sessions
               /\ gen'[r].model \in relays'[gen'[r].relay].models
    <3>1. /\ IsActive(gen[r]) /\ gen'[r].model = gen[r].model
          /\ \/ gen'[r].relay = gen[r].relay
             \/ gen'[r].relay \in Sessions /\ Serves(gen'[r].relay, gen[r].model)
      BY <2>4, MoveHead DEF AllOK, Exists, IsActive, Active
    <3>2. gen'[r].relay \in Sessions /\ gen[r].model \in relays[gen'[r].relay].models
      BY <3>1 DEF Bound, Serves
    <3>3. QED
      BY <2>3, <3>1, <3>2
  <2>5. CASE ~Submits
    BY <2>2, <2>4, <2>5, EveryStepMoves
  <2>6. ASSUME NEW r \in Runs, NEW k \in Keys, NEW x \in Sessions, NEW m \in Models,
               NEW p \in Plans, SubmitGeneration(r, k, x, m, p),
               NEW s \in Runs, IsActive(gen'[s])
        PROVE  /\ gen'[s].relay \in Sessions
               /\ gen'[s].model \in relays'[gen'[s].relay].models
    <3>1. CASE s = r
      <4>1. gen'[r] = CreateRun(k, m, x, p) /\ Serves(x, m) /\ relays' = relays
        BY <2>6, SubmissionCreates
      <4>2. gen'[r].relay = x /\ gen'[r].model = m
        BY <4>1, CreateRunOK
      <4>3. QED
        BY <3>1, <4>1, <4>2 DEF Serves
    <3>2. CASE s # r
      <4>1. Moves(s)
        BY <2>6, <3>2, SubmissionCreates DEF Moves, Quiet
      <4>2. QED
        BY <2>4, <2>6, <4>1
    <3>3. QED
      BY <3>1, <3>2
  <2>7. QED
    BY <2>2, <2>5, <2>6 DEF Submits
<1>3. AllOK /\ BoundInv => BoundRelay
  BY DEF AllOK, RunOK, Held, Bound, BoundRelay
<1> HIDE DEF BoundInv
<1>4. QED
  BY <1>1, <1>2, <1>3, TypeCorrect, EachRunOK, PTL DEF Spec

\* A replayed request never makes a second generation out of one key: the key is
\* looked up again under the lock that persists the new run (submit_generation).
THEOREM KeysAreUsedOnce == Spec => []OneRunPerKey
<1>1. Init => OneRunPerKey
  BY DEF Init, NoRun, Exists, OneRunPerKey
<1>2. TypeOK /\ AllOK /\ OneRunPerKey /\ [Next]_vars => OneRunPerKey'
  <2> SUFFICES ASSUME TypeOK, AllOK, OneRunPerKey, [Next]_vars
               PROVE  OneRunPerKey'
    OBVIOUS
  <2>1. \A r \in Runs : Moves(r) /\ Exists(gen'[r]) =>
                           Exists(gen[r]) /\ gen'[r].key = gen[r].key
    BY MoveHead DEF AllOK
  <2>2. CASE ~Submits
    <3>1. \A r \in Runs : Moves(r)
      BY <2>2, EveryStepMoves
    <3>2. QED
      BY <2>1, <3>1 DEF OneRunPerKey
  <2>3. ASSUME NEW r \in Runs, NEW k \in Keys, NEW x \in Sessions, NEW m \in Models,
               NEW p \in Plans, SubmitGeneration(r, k, x, m, p)
        PROVE  OneRunPerKey'
    <3>1. gen'[r] = CreateRun(k, m, x, p)
      BY <2>3, SubmissionCreates
    <3>2. gen'[r].key = k
      BY <3>1, CreateRunOK
    <3>3. \A s \in Runs \ {r} : Moves(s)
      BY <2>3, SubmissionCreates DEF Moves, Quiet
    <3>4. \A s \in Runs : Exists(gen[s]) => gen[s].key # k
      BY <2>3 DEF SubmitGeneration
    <3>5. QED
      BY <2>1, <3>2, <3>3, <3>4 DEF OneRunPerKey
  <2>4. QED
    BY <2>2, <2>3 DEF Submits
<1>3. QED
  BY <1>1, <1>2, TypeCorrect, EachRunOK, PTL DEF Spec

ActiveRuns == {r \in Runs : IsActive(gen[r])}
LiveSessions == {x \in Sessions : LiveSession(x)}

\* The limits, with the finiteness that lets them be counted.
WithinLimits == /\ IsFiniteSet(ActiveRuns) /\ Cardinality(ActiveRuns) <= MaxActive
                /\ IsFiniteSet(LiveSessions) /\ Cardinality(LiveSessions) <= MaxActiveSessions

\* One more element, below the limit, stays within it.
LEMMA OneMore ==
    ASSUME NEW S, IsFiniteSet(S), NEW n \in Nat, Cardinality(S) < n, NEW e,
           NEW T \in SUBSET (S \cup {e})
    PROVE  IsFiniteSet(T) /\ Cardinality(T) <= n
<1>1. /\ IsFiniteSet(S \cup {e}) /\ Cardinality(S) \in Nat
      /\ Cardinality(S \cup {e}) <= Cardinality(S) + 1
  BY FS_AddElement, FS_CardinalityType
<1>2. Cardinality(S \cup {e}) \in Nat
  BY <1>1, FS_CardinalityType
<1>3. IsFiniteSet(T) /\ Cardinality(T) <= Cardinality(S \cup {e})
  BY <1>1, FS_Subset
<1>4. Cardinality(T) \in Nat
  BY <1>3, FS_CardinalityType
<1>5. QED
  BY <1>1, <1>2, <1>3, <1>4

\* Fewer elements stay within the limit.
LEMMA NoMore ==
    ASSUME NEW S, IsFiniteSet(S), NEW n \in Nat, Cardinality(S) <= n, NEW T \in SUBSET S
    PROVE  IsFiniteSet(T) /\ Cardinality(T) <= n
<1>1. IsFiniteSet(T) /\ Cardinality(T) <= Cardinality(S)
  BY FS_Subset
<1>2. Cardinality(T) \in Nat /\ Cardinality(S) \in Nat
  BY <1>1, FS_CardinalityType
<1>3. QED
  BY <1>1, <1>2

\* The limit on generations in progress (count under lock_user, after the others
\* are refreshed) and the one on relay sessions hold in every state: neither a
\* resume nor anything else wakes a generation up.
THEOREM LimitsAreKept == Spec => []LimitsHold
<1>0. MaxActive \in Nat /\ MaxActiveSessions \in Nat
  BY LimitsAssumption
<1>1. Init => WithinLimits
  <2> SUFFICES ASSUME Init PROVE WithinLimits
    OBVIOUS
  <2>1. ActiveRuns = {} /\ LiveSessions = {}
    BY DEF Init, NoRun, ActiveRuns, LiveSessions, LiveSession, IsActive, Active
  <2>2. QED
    BY <1>0, <2>1, FS_EmptySet DEF WithinLimits
<1>2. TypeOK /\ AllOK /\ WithinLimits /\ [Next]_vars => WithinLimits'
  <2> SUFFICES ASSUME TypeOK, AllOK, WithinLimits, [Next]_vars
               PROVE  WithinLimits'
    OBVIOUS
  <2>1. \A r \in Runs : Moves(r) /\ IsActive(gen'[r]) => IsActive(gen[r])
    BY MoveHead DEF AllOK
  <2>2. IsFiniteSet(ActiveRuns') /\ Cardinality(ActiveRuns') <= MaxActive
    <3>1. CASE ~Submits
      <4>1. ActiveRuns' \in SUBSET ActiveRuns
        BY <2>1, <3>1, EveryStepMoves DEF ActiveRuns
      <4>2. QED
        BY <1>0, <4>1, NoMore DEF WithinLimits
    <3>2. ASSUME NEW r \in Runs, NEW k \in Keys, NEW x \in Sessions, NEW m \in Models,
                 NEW p \in Plans, SubmitGeneration(r, k, x, m, p)
          PROVE  IsFiniteSet(ActiveRuns') /\ Cardinality(ActiveRuns') <= MaxActive
      <4> DEFINE A == {s \in Runs : IsActive(ReconcileUser[s])}
      <4>1. A \in SUBSET ActiveRuns
        <5>1. \A s \in Runs : IsActive(RefreshRun(gen[s])) => IsActive(gen[s])
          BY RefreshFields DEF TypeOK, AllOK, Refreshed
        <5>2. QED
          BY <5>1 DEF ActiveRuns, ReconcileUser
      <4>2. IsFiniteSet(A)
        BY <4>1, FS_Subset DEF WithinLimits
      <4>3. Cardinality(A) < MaxActive
        BY <3>2 DEF SubmitGeneration
      <4>4. ActiveRuns' \in SUBSET (A \cup {r})
        <5>1. \A s \in Runs \ {r} : gen'[s] = ReconcileUser[s]
          BY <3>2, SubmissionCreates DEF ReconcileUser
        <5>2. QED
          BY <5>1 DEF ActiveRuns
      <4> HIDE DEF A
      <4>5. QED
        BY <1>0, <4>2, <4>3, <4>4, OneMore
    <3>3. QED
      BY <3>1, <3>2 DEF Submits
  <2>3. IsFiniteSet(LiveSessions') /\ Cardinality(LiveSessions') <= MaxActiveSessions
    <3>1. ASSUME NEW x \in Sessions, NEW ms \in SUBSET Models, CreateRelaySession(x, ms)
          PROVE  IsFiniteSet(LiveSessions') /\ Cardinality(LiveSessions') <= MaxActiveSessions
      <4>1. Cardinality(LiveSessions) < MaxActiveSessions
        BY <3>1 DEF CreateRelaySession, LiveSessions
      <4>2. LiveSessions' \in SUBSET (LiveSessions \cup {x})
        BY <3>1 DEF CreateRelaySession, LiveSessions, LiveSession, TypeOK
      <4>3. QED
        BY <1>0, <4>1, <4>2, OneMore DEF WithinLimits
    <3>2. ASSUME LiveSessions' \in SUBSET LiveSessions
          PROVE  IsFiniteSet(LiveSessions') /\ Cardinality(LiveSessions') <= MaxActiveSessions
      BY <1>0, <3>2, NoMore DEF WithinLimits
    <3>3. ASSUME NEW x \in Sessions, RevokeRelay(x) \/ SessionExpires(x)
          PROVE  LiveSessions' \in SUBSET LiveSessions
      <4>1. relays' = [relays EXCEPT ![x].status = "expired"]
        BY <3>3 DEF RevokeRelay, SessionExpires
      <4>2. QED
        BY <4>1 DEF LiveSessions, LiveSession, TypeOK, Relay
    <3>4. ASSUME relays' = relays
          PROVE  LiveSessions' \in SUBSET LiveSessions
      BY <3>4 DEF LiveSessions, LiveSession
    <3>5. CASE SessionRequest
      BY <3>1, <3>2, <3>3, <3>5 DEF SessionRequest
    <3>6. CASE Clock
      BY <3>2, <3>3, <3>4, <3>6 DEF Clock, RunDue, RunAges, LeaseLapses, DayTurns
    <3>7. CASE UserRequest
      BY <3>2, <3>4, <3>7 DEF UserRequest, SubmitGeneration, ListGenerations, GenerationStatus,
                              CancelGeneration, ResumeGeneration
    <3>8. CASE ClaimRequest
      BY <3>2, <3>4, <3>8 DEF ClaimRequest, ClaimNothing, ClaimOne
    <3>9. CASE StepRequest
      BY <3>2, <3>4, <3>9 DEF StepRequest, StepHeartbeat, SubmitResult, SubmitError
    <3>10. QED
      BY <3>2, <3>4, <3>5, <3>6, <3>7, <3>8, <3>9 DEF Next, Maintain, vars
  <2>4. QED
    BY <2>2, <2>3 DEF WithinLimits
<1>3. WithinLimits => LimitsHold
  BY DEF WithinLimits, LimitsHold, ActiveRuns, LiveSessions
<1>4. QED
  BY <1>1, <1>2, <1>3, TypeCorrect, EachRunOK, PTL DEF Spec

-----------------------------------------------------------------------------
\* What the contract sees of a generation is written down with its steps: the
\* hash of an answer stands for the answer until the result is assembled.
Recorded(g) ==
    /\ \A i \in DOMAIN g.steps : g.steps[i].hash = None <=> g.steps[i].status # "completed"
    /\ IsActive(g) =>
          /\ g.result = None
          /\ \A i \in DOMAIN g.steps :
                g.steps[i].status = "completed" => g.steps[i].content = g.steps[i].hash
    /\ g.aged => g.status \in Terminal

\* From g to h no call was started and no answer accepted; the generation may
\* have been ended.
Rested(g, h) ==
    /\ h.result = g.result /\ (h.aged => g.aged \/ h.status \in Terminal)
    /\ \/ h.status = g.status
       \/ IsActive(g) /\ (IsActive(h) \/ h.status \in {"cancelled", "expired", "failed"})
    /\ DOMAIN h.steps = DOMAIN g.steps
    /\ \A i \in DOMAIN g.steps :
          /\ h.steps[i].hash = g.steps[i].hash
          /\ h.steps[i].status = "completed" <=> g.steps[i].status = "completed"
          /\ h.steps[i].status = "running" => g.steps[i].status = "running"
          /\ IsActive(h) => h.steps[i].content = g.steps[i].content

\* Two rests are one.
LEMMA RestedTwice ==
    ASSUME NEW g, NEW c, NEW h, Rested(g, c), Rested(c, h)
    PROVE  Rested(g, h)
  BY DEF Rested, IsActive, Active, Terminal

\* A rest keeps what is recorded.
LEMMA RestedRecorded ==
    ASSUME NEW g, NEW h, Recorded(g), Rested(g, h)
    PROVE  Recorded(h)
  BY DEF Rested, Recorded, IsActive, Active, Terminal

\* refresh_run is a rest.
LEMMA RefreshRests ==
    ASSUME NEW g \in Run, RunOK(g)
    PROVE  Rested(g, RefreshRun(g))
<1> DEFINE c == RefreshRun(g)
<1>1. Refreshed(g, c)
  BY RefreshFields
<1> HIDE DEF c
<1>2. Rested(g, c)
  BY <1>1 DEF Refreshed, SameHead, Rested
<1>3. QED
  BY <1>2 DEF c

\* The end of a generation and the loss of a call are rests: Abandon, Fail,
\* MarkUncertain.
LEMMA EndingsRest ==
    ASSUME NEW g \in Run, IsActive(g)
    PROVE  /\ Rested(g, Abandon(g, "cancelled"))
           /\ Rested(g, Fail(g))
           /\ Rested(g, MarkUncertain(g, RunningSteps(g)))
<1>1. Rested(g, Abandon(g, "cancelled"))
  <2> DEFINE h == Abandon(g, "cancelled")
  <2>1. /\ SameHead(g, h) /\ CoursesEnded(g, h) /\ h.status = "cancelled" /\ h.result = g.result
    BY AbandonFields DEF Terminal
  <2> HIDE DEF h
  <2>2. Rested(g, h)
    BY <2>1 DEF SameHead, CoursesEnded, Rested, IsActive, Active
  <2>3. QED
    BY <2>2 DEF h
<1>2. Rested(g, Fail(g))
  <2> DEFINE h == Fail(g)
  <2>1. /\ SameHead(g, h) /\ SameCourse(g, h) /\ h.status = "failed" /\ h.result = g.result
    BY FailFields
  <2> HIDE DEF h
  <2>2. Rested(g, h)
    BY <2>1 DEF SameHead, SameCourse, Rested, IsActive, Active
  <2>3. QED
    BY <2>2 DEF h
<1>3. CASE RunningSteps(g) = {}
  <2>1. Rested(g, g)
    BY DEF Rested
  <2>2. QED
    BY <1>1, <1>2, <1>3, <2>1 DEF MarkUncertain
<1>4. CASE RunningSteps(g) # {}
  <2> DEFINE h == MarkUncertain(g, RunningSteps(g))
  <2>1. /\ SameHead(g, h) /\ CallsLost(g, RunningSteps(g), h) /\ h.status = "uncertain"
        /\ h.result = g.result
    BY <1>4, MarkUncertainFields
  <2> HIDE DEF h
  <2>2. \A i \in RunningSteps(g) : g.steps[i].status = "running"
    BY DEF RunningSteps
  <2>3. Rested(g, h)
    BY <2>1, <2>2 DEF SameHead, CallsLost, Rested, IsActive, Active
  <2>4. QED
    BY <1>1, <1>2, <2>3 DEF h
<1>5. QED
  BY <1>3, <1>4

\* Resume, AcceptError and the leases are rests.
LEMMA OthersRest ==
    ASSUME NEW g \in Run, IsActive(g)
    PROVE  /\ \A x : Rested(g, Resume(g, x))
           /\ \A i \in RunningSteps(g), refused \in BOOLEAN : Rested(g, AcceptError(g, i, refused))
<1>1. ASSUME NEW x PROVE Rested(g, Resume(g, x))
  <2> DEFINE h == Resume(g, x)
  <2>1. /\ SameHead(g, h) /\ h.status = "waiting_relay" /\ h.result = g.result
        /\ DOMAIN h.steps = DOMAIN g.steps
        /\ \A i \in DOMAIN g.steps :
                 IF g.steps[i].status = "completed" THEN h.steps[i] = g.steps[i]
                 ELSE /\ h.steps[i].status = "pending"
                      /\ h.steps[i].content = g.steps[i].content
                      /\ h.steps[i].hash = g.steps[i].hash
    BY ResumeFields
  <2> HIDE DEF h
  <2>2. Rested(g, h)
    BY <2>1 DEF SameHead, Rested, IsActive, Active
  <2>3. QED
    BY <2>2 DEF h
<1>2. ASSUME NEW i \in RunningSteps(g), NEW refused \in BOOLEAN
      PROVE  Rested(g, AcceptError(g, i, refused))
  <2> DEFINE h == AcceptError(g, i, refused)
  <2>1. i \in DOMAIN g.steps /\ g.steps[i].status = "running"
    BY DEF RunningSteps
  <2>2. /\ SameHead(g, h) /\ h.status \in {"paused", "uncertain"} /\ h.result = g.result
        /\ DOMAIN h.steps = DOMAIN g.steps
        /\ h.steps[i].status \in {"paused", "uncertain"}
        /\ h.steps[i].content = g.steps[i].content /\ h.steps[i].hash = g.steps[i].hash
        /\ \A j \in DOMAIN g.steps : j # i => h.steps[j] = g.steps[j]
    BY <2>1, ErrorFields
  <2> HIDE DEF h
  <2>3. Rested(g, h)
    BY <2>1, <2>2 DEF SameHead, Rested, IsActive, Active
  <2>4. QED
    BY <2>3 DEF h
<1>3. QED
  BY <1>1, <1>2

\* A heartbeat and the end of a lease are rests.
LEMMA LeaseRests ==
    ASSUME NEW g \in Run, NEW i \in DOMAIN g.steps, NEW l
    PROVE  Rested(g, [g EXCEPT !.steps[i].lease = l])
<1> DEFINE h == [g EXCEPT !.steps[i].lease = l]
<1>1. /\ SameHead(g, h) /\ h.status = g.status /\ h.result = g.result
      /\ DOMAIN h.steps = DOMAIN g.steps
      /\ \A j \in DOMAIN g.steps :
            /\ h.steps[j].status = g.steps[j].status
            /\ h.steps[j].content = g.steps[j].content
            /\ h.steps[j].hash = g.steps[j].hash
  BY LeaseFields
<1> HIDE DEF h
<1>2. Rested(g, h)
  BY <1>1 DEF SameHead, Rested
<1>3. QED
  BY <1>2 DEF h

\* A quiet move is a rest, unless it deletes the generation.
LEMMA QuietRests ==
    ASSUME TypeOK, NEW r \in Runs, RunOK(gen[r]), Quiet(r)
    PROVE  Rested(gen[r], gen'[r]) \/ Purged(r)
<1> DEFINE c == RefreshRun(gen[r])
<1>0. gen[r] \in Run /\ c \in Run /\ RunOK(c) /\ Rested(gen[r], c)
  BY RefreshType, RefreshOK, RefreshRests DEF TypeOK
<1> HIDE DEF c
<1>1. CASE Stays(r)
  <2>1. Rested(gen[r], gen[r])
    BY DEF Rested
  <2>2. QED
    BY <1>0, <1>1, <2>1 DEF Stays, c
<1>2. CASE Revoked(r) \/ Cancelled(r)
  BY <1>0, <1>2, EndingsRest DEF Revoked, Cancelled
<1>3. CASE GivenUp(r)
  <2>1. IsActive(c) /\ gen'[r] = Fail(c)
    BY <1>3 DEF GivenUp, Exhausted, Claimable, IsActive, Active, c
  <2>2. QED
    BY <1>0, <2>1, EndingsRest, RestedTwice
<1>4. CASE Resumed(r)
  <2>1. PICK x \in Sessions : IsActive(c) /\ gen'[r] = Resume(c, x)
    BY <1>4 DEF Resumed, c
  <2>2. QED
    BY <1>0, <2>1, OthersRest, RestedTwice
<1>5. CASE Beats(r)
  <2>1. PICK i \in RunningSteps(c) : gen'[r] = [c EXCEPT !.steps[i].lease = "live"]
    BY <1>5 DEF Beats, c
  <2>2. i \in DOMAIN c.steps
    BY DEF RunningSteps
  <2>3. Rested(c, gen'[r])
    BY <1>0, <2>1, <2>2, LeaseRests
  <2>4. QED
    BY <1>0, <2>3, RestedTwice
<1>6. CASE IsRefused(r)
  <2>1. PICK i \in RunningSteps(c), refused \in BOOLEAN : gen'[r] = AcceptError(c, i, refused)
    BY <1>6 DEF IsRefused, c
  <2>2. IsActive(c)
    BY <1>0, <2>1 DEF RunningSteps, RunOK, Told, Has, IsActive, Active
  <2>3. Rested(c, gen'[r])
    BY <1>0, <2>1, <2>2, OthersRest
  <2>4. QED
    BY <1>0, <2>3, RestedTwice
<1>7. CASE Lapses(r)
  <2>1. PICK i \in DOMAIN gen[r].steps : gen'[r] = [gen[r] EXCEPT !.steps[i].lease = "lapsed"]
    BY <1>7 DEF Lapses
  <2>2. QED
    BY <1>0, <2>1, LeaseRests
<1>8. CASE Ticks(r)
  BY <1>8 DEF Ticks, Rested
<1>9. QED
  BY <1>1, <1>2, <1>3, <1>4, <1>5, <1>6, <1>7, <1>8 DEF Quiet

-----------------------------------------------------------------------------
\* What submit_result makes of a generation, up to the result it is assembled to.
Outcome(g, i, answer, h) ==
    /\ DOMAIN h.steps = DOMAIN g.steps
    /\ \A j \in DOMAIN g.steps :
          /\ h.steps[j].hash = IF j = i THEN answer ELSE g.steps[j].hash
          /\ h.steps[j].status \in {"pending", "completed"}
          /\ h.steps[j].status = "completed" <=> j = i \/ g.steps[j].status = "completed"
    /\ h.aged = g.aged
    /\ \/ /\ IsActive(h) /\ h.result = None /\ i < Len(g.steps)
          /\ \A j \in DOMAIN g.steps :
                h.steps[j].status = "completed" => h.steps[j].content = h.steps[j].hash
       \/ h.status = "failed" /\ h.result = None /\ i < Len(g.steps)
       \/ /\ h.status = "completed" /\ i = Len(g.steps)
          /\ h.result = [j \in DOMAIN g.steps |-> h.steps[j].hash]

\* An accepted answer is the one to the current part, and the result is
\* assembled with the answer to the last part, from all of them.
LEMMA AcceptResultOutcome ==
    ASSUME NEW g \in Run, RunOK(g), Recorded(g), NEW i \in RunningSteps(g),
           NEW answer \in Results, NEW fits \in BOOLEAN
    PROVE  Outcome(g, i, answer, AcceptResult(g, i, answer, fits))
<1> DEFINE k == WithAnswer(g, i, answer)
           h == Advance(k, fits)
<1>0. h = AcceptResult(g, i, answer, fits)
  BY DEF AcceptResult, WithAnswer
<1>1. i \in DOMAIN g.steps /\ g.steps[i].status = "running"
  BY DEF RunningSteps
<1>2. /\ DOMAIN g.steps = 1..Len(g.steps) /\ Len(g.steps) \in Nat
      /\ \A j \in DOMAIN g.steps : j < i => g.steps[j].status = "completed"
      /\ \A j \in DOMAIN g.steps : j > i => g.steps[j].status # "completed"
  BY <1>1, StepsDomain, InFlightIsCurrent DEF RunOK
<1>3. IsActive(g)
  BY <1>1 DEF RunOK, Told, Has, IsActive, Active
<1>4. /\ k \in Run /\ SameHead(g, k) /\ k.result = g.result
      /\ DOMAIN k.steps = DOMAIN g.steps
      /\ k.steps[i].status = "completed"
      /\ k.steps[i].content = answer /\ k.steps[i].hash = answer
      /\ \A j \in DOMAIN g.steps : j # i => k.steps[j] = g.steps[j]
  BY <1>1, AnsweredFields
<1>5. Idle(k)
  BY AnsweredIdle
<1> HIDE DEF k
<1>6. /\ g.result = None
      /\ \A j \in DOMAIN g.steps :
            g.steps[j].status = "completed" => g.steps[j].content = g.steps[j].hash
  BY <1>3 DEF Recorded
<1>7. \A j \in DOMAIN g.steps :
         /\ k.steps[j].hash = IF j = i THEN answer ELSE g.steps[j].hash
         /\ k.steps[j].status \in {"pending", "completed"}
         /\ k.steps[j].status = "completed" <=> j = i \/ g.steps[j].status = "completed"
         /\ k.steps[j].status = "completed" => k.steps[j].content = k.steps[j].hash
  BY <1>4, <1>5, <1>6 DEF Idle
<1>8. /\ AllCompleted(k) => i = Len(g.steps)
      /\ ~AllCompleted(k) => i < Len(g.steps)
  <2>1. ASSUME AllCompleted(k), i # Len(g.steps)
        PROVE  FALSE
    <3>1. i + 1 \in DOMAIN g.steps /\ i + 1 > i /\ i + 1 # i
      BY <1>1, <1>2, <2>1
    <3>2. k.steps[i + 1].status = "completed"
      BY <1>4, <2>1, <3>1 DEF AllCompleted
    <3>3. QED
      BY <1>2, <1>7, <3>1, <3>2
  <2>2. ASSUME ~AllCompleted(k)
        PROVE  i < Len(g.steps)
    <3>1. PICK j \in DOMAIN g.steps : k.steps[j].status # "completed"
      BY <1>4, <2>2 DEF AllCompleted
    <3>2. j # i /\ ~(j < i)
      BY <1>2, <1>7, <3>1
    <3>3. QED
      BY <1>1, <1>2, <3>1, <3>2
  <2>3. QED
    BY <2>1, <2>2
<1>9. CASE AllCompleted(k)
  <2>1. /\ SameHead(k, h) /\ SameCourse(k, h) /\ h.status = "completed"
        /\ h.result = [j \in DOMAIN k.steps |-> k.steps[j].content]
    BY <1>4, <1>9, DoneFields
  <2> HIDE DEF h
  <2>2. h.result = [j \in DOMAIN g.steps |-> h.steps[j].hash]
    <3>1. \A j \in DOMAIN g.steps : k.steps[j].content = h.steps[j].hash
      BY <1>4, <1>7, <1>9, <2>1 DEF SameCourse, AllCompleted
    <3>2. QED
      BY <1>4, <2>1, <3>1
  <2>3. Outcome(g, i, answer, h)
    BY <1>4, <1>7, <1>8, <1>9, <2>1, <2>2 DEF Outcome, SameHead, SameCourse
  <2>4. QED
    BY <1>0, <2>3
<1>10. CASE /\ ~AllCompleted(k)
            /\ ~fits /\ \E j \in DOMAIN k.steps : IsCurrent(k, j) /\ ~k.steps[j].prompt
  <2>1. h = Fail(k)
    BY <1>10 DEF Advance
  <2> HIDE DEF h
  <2>2. SameHead(k, h) /\ SameCourse(k, h) /\ h.status = "failed" /\ h.result = k.result
    BY <1>4, <2>1, FailFields
  <2>3. Outcome(g, i, answer, h)
    BY <1>4, <1>6, <1>7, <1>8, <1>10, <2>2 DEF Outcome, SameHead, SameCourse
  <2>4. QED
    BY <1>0, <2>3
<1>11. CASE /\ ~AllCompleted(k)
            /\ fits \/ ~\E j \in DOMAIN k.steps : IsCurrent(k, j) /\ ~k.steps[j].prompt
  <2>1. /\ SameHead(k, h) /\ SameCourse(k, h) /\ h.status = "waiting_relay"
        /\ h.result = k.result
        /\ \A j \in DOMAIN k.steps : h.steps[j].content = k.steps[j].content
    BY <1>4, <1>11, NextFields
  <2> HIDE DEF h
  <2>2. IsActive(h)
    BY <2>1 DEF IsActive, Active
  <2>3. Outcome(g, i, answer, h)
    BY <1>4, <1>6, <1>7, <1>8, <1>11, <2>1, <2>2 DEF Outcome, SameHead, SameCourse
  <2>4. QED
    BY <1>0, <2>3
<1>12. QED
  BY <1>9, <1>10, <1>11

\* A created generation waits for its first call; without parts it is completed.
LEMMA CreateRunOutcome ==
    ASSUME NEW k \in Keys, NEW m \in Models, NEW x \in Sessions, NEW p \in Plans
    PROVE  LET h == CreateRun(k, m, x, p) IN
           /\ Recorded(h) /\ RunningSteps(h) = {}
           /\ \A i \in DOMAIN h.steps : h.steps[i].hash = None
           /\ \/ h.status = "waiting_relay" /\ h.result = None
              \/ h.status = "completed" /\ h.result = <<>> /\ DOMAIN h.steps = {}
<1> DEFINE t == [i \in DOMAIN p |-> NewStep(p[i])]
           g == [status |-> "waiting_relay", key |-> k, model |-> m, relay |-> x,
                 due |-> FALSE, today |-> TRUE, aged |-> FALSE,
                 plan |-> TRUE, result |-> None, steps |-> t]
           h == CreateRun(k, m, x, p)
<1>1. p \in Seq(BOOLEAN)
  BY PlansAssumption
<1>2. DOMAIN p = 1..Len(p) /\ Len(p) \in Nat
  BY <1>1, LenProperties
<1>3. t \in [1..Len(p) -> Step]
  BY <1>1, LenProperties, AttemptsAssumption DEF NewStep, Step
<1>4. g \in Run
  BY <1>2, <1>3, StepsType DEF Run, Active
<1>5. \A i \in DOMAIN p : t[i].status = "pending" /\ t[i].hash = None
  BY DEF NewStep
<1>6. /\ g.status = "waiting_relay" /\ g.result = None /\ g.aged = FALSE
      /\ g.steps = t /\ DOMAIN t = DOMAIN p
  OBVIOUS
<1>7. h = IF p = <<>> THEN Advance(g, TRUE) ELSE g
  BY DEF CreateRun
<1> HIDE DEF g, t, h
<1>8. \A i \in DOMAIN g.steps : g.steps[i].status = "pending" /\ g.steps[i].hash = None
  BY <1>5, <1>6
<1>9. CASE p = <<>>
  <2>1. DOMAIN g.steps = {}
    BY <1>2, <1>6, <1>9
  <2>2. AllCompleted(g)
    BY <2>1 DEF AllCompleted
  <2>3. /\ SameHead(g, h) /\ SameCourse(g, h) /\ h.status = "completed"
        /\ h.result = [i \in DOMAIN g.steps |-> g.steps[i].content]
    BY <1>4, <1>7, <1>9, <2>2, DoneFields
  <2>4. DOMAIN h.steps = {} /\ h.aged = FALSE
    BY <1>6, <2>1, <2>3 DEF SameHead, SameCourse
  <2>5. h.result = <<>>
    BY <2>1, <2>3
  <2>6. Recorded(h) /\ RunningSteps(h) = {}
    BY <2>3, <2>4 DEF Recorded, RunningSteps, IsActive, Active, Terminal
  <2>7. QED
    BY <2>3, <2>4, <2>5, <2>6 DEF h
<1>10. CASE p # <<>>
  <2>1. h = g
    BY <1>7, <1>10
  <2>2. Recorded(g) /\ RunningSteps(g) = {}
    BY <1>6, <1>8 DEF Recorded, RunningSteps, IsActive, Active
  <2>3. QED
    BY <1>6, <1>8, <2>1, <2>2 DEF h
<1>11. QED
  BY <1>9, <1>10

-----------------------------------------------------------------------------
\* Every move keeps what is recorded of a generation.
LEMMA MoveRecorded ==
    ASSUME TypeOK, NEW r \in Runs, RunOK(gen[r]), Recorded(gen[r]), Moves(r)
    PROVE  Recorded(gen'[r])
<1> DEFINE c == RefreshRun(gen[r])
<1>0. gen[r] \in Run /\ c \in Run /\ RunOK(c) /\ Rested(gen[r], c) /\ Recorded(c)
  BY RefreshType, RefreshOK, RefreshRests, RestedRecorded DEF TypeOK
<1> HIDE DEF c
<1>1. CASE Quiet(r) /\ ~Purged(r)
  BY <1>1, QuietRests, RestedRecorded
<1>2. CASE Purged(r)
  BY <1>2 DEF Purged, NoRun, Recorded, IsActive, Active
<1>3. CASE HandedOut(r)
  <2>1. PICK i \in DOMAIN gen[r].steps :
           Claimable(c, i) /\ gen'[r] = ClaimStep(c, i, gen[r].relay)
    BY <1>3 DEF HandedOut, c
  <2>2. i \in DOMAIN c.steps /\ c.status = "waiting_relay" /\ c.steps[i].status = "pending"
    BY <2>1 DEF Claimable, IsCurrent
  <2>3. /\ SameHead(c, gen'[r]) /\ gen'[r].status = "running" /\ gen'[r].result = c.result
        /\ DOMAIN gen'[r].steps = DOMAIN c.steps
        /\ gen'[r].steps[i].status = "running" /\ gen'[r].steps[i].hash = c.steps[i].hash
        /\ \A j \in DOMAIN c.steps : j # i => gen'[r].steps[j] = c.steps[j]
    BY <1>0, <2>1, <2>2, ClaimFields
  <2>4. QED
    BY <1>0, <2>2, <2>3 DEF Recorded, SameHead, IsActive, Active, Terminal
<1>4. CASE IsAnswered(r)
  <2>1. PICK i \in RunningSteps(c), answer \in Results, fits \in BOOLEAN :
           gen'[r] = AcceptResult(c, i, answer, fits)
    BY <1>4 DEF IsAnswered, c
  <2>2. Outcome(c, i, answer, gen'[r])
    BY <1>0, <2>1, AcceptResultOutcome
  <2>3. ~c.aged
    BY <1>0, <2>1 DEF RunningSteps, RunOK, Told, Has, Recorded, Terminal
  <2>4. QED
    BY <1>0, <2>2, <2>3, NoneAssumption DEF Outcome, Recorded, IsActive, Active
<1>5. QED
  BY <1>1, <1>2, <1>3, <1>4 DEF Moves

AllRecorded == \A r \in Runs : Recorded(gen[r])

\* What is recorded of each generation is an invariant of the store.
LEMMA EachRecorded == Spec => []AllRecorded
<1>1. Init => AllRecorded
  BY DEF Init, AllRecorded, NoRun, Recorded, IsActive, Active
<1>2. TypeOK /\ AllOK /\ AllRecorded /\ [Next]_vars => AllRecorded'
  <2> SUFFICES ASSUME TypeOK, AllOK, AllRecorded, [Next]_vars PROVE AllRecorded'
    OBVIOUS
  <2>1. CASE ~Submits
    BY <2>1, EveryStepMoves, MoveRecorded DEF AllOK, AllRecorded
  <2>2. ASSUME NEW r \in Runs, NEW k \in Keys, NEW x \in Sessions, NEW m \in Models,
               NEW p \in Plans, SubmitGeneration(r, k, x, m, p)
        PROVE  AllRecorded'
    <3>1. Recorded(gen'[r])
      BY <2>2, SubmissionCreates, CreateRunOutcome
    <3>2. \A s \in Runs \ {r} : Moves(s)
      BY <2>2, SubmissionCreates DEF Moves, Quiet
    <3>3. QED
      BY <3>1, <3>2, MoveRecorded DEF AllOK, AllRecorded
  <2>3. QED
    BY <2>1, <2>2 DEF Submits
<1>3. QED
  BY <1>1, <1>2, TypeCorrect, EachRunOK, PTL DEF Spec

-----------------------------------------------------------------------------
\* The moves, seen by the contract.

\* A quiet move is a rest of the contract.
LEMMA QuietIsRest ==
    ASSUME TypeOK, NEW r \in Runs, RunOK(gen[r]), Recorded(gen[r]), RunOK(gen'[r]), Quiet(r)
    PROVE  Contract!Rests(r)
<1>1. CASE Rested(gen[r], gen'[r])
  <2>1. \/ PhaseOf(gen'[r]) = PhaseOf(gen[r])
        \/ PhaseOf(gen[r]) = "open" /\ PhaseOf(gen'[r]) \in {"cancelled", "expired", "failed"}
    BY <1>1 DEF Rested, PhaseOf, IsActive, Active
  <2>2. [i \in DOMAIN gen'[r].steps |-> gen'[r].steps[i].hash] =
        [i \in DOMAIN gen[r].steps |-> gen[r].steps[i].hash]
    BY <1>1 DEF Rested
  <2>3. gen'[r].result = gen[r].result
    BY <1>1 DEF Rested
  <2>4. RunningSteps(gen'[r]) # {} => RunningSteps(gen[r]) # {} /\ PhaseOf(gen'[r]) = "open"
    BY <1>1 DEF Rested, RunningSteps, RunOK, Told, Has, PhaseOf, IsActive, Active
  <2>5. QED
    BY <2>1, <2>2, <2>3, <2>4 DEF Contract!Rests, Contract!Endings
<1>2. CASE Purged(r)
  <2>1. gen[r].status \in Terminal
    <3>1. RefreshRun(gen[r]).aged = gen[r].aged
      BY RefreshFields DEF TypeOK, Refreshed, SameHead
    <3>2. QED
      BY <1>2, <3>1 DEF Purged, Recorded
  <2>2. PhaseOf(gen[r]) \in {"completed", "cancelled", "expired", "failed"}
    BY <2>1 DEF PhaseOf, Terminal, IsActive, Active
  <2>3. /\ gen'[r].steps = <<>> /\ gen'[r].result = None /\ gen'[r].status = "purged"
    BY <1>2 DEF Purged, NoRun
  <2>4. PhaseOf(gen'[r]) = "purged" /\ RunningSteps(gen'[r]) = {}
    BY <2>3 DEF PhaseOf, RunningSteps, IsActive, Active
  <2>5. [i \in DOMAIN gen'[r].steps |-> gen'[r].steps[i].hash] = <<>>
    BY <2>3
  <2>6. QED
    BY <2>2, <2>3, <2>4, <2>5 DEF Contract!Rests, Contract!Endings
<1>3. QED
  BY <1>1, <1>2, QuietRests

\* A step handed out is a call of the contract, when no other one is running.
LEMMA HandingOutIsCall ==
    ASSUME TypeOK, NEW r \in Runs, AllOK, Recorded(gen[r]), HandedOut(r),
           \A s \in Runs \ {r} : RunningSteps(gen'[s]) = {}
    PROVE  Contract!Call(r)
<1>0. gen[r] \in Run /\ RunOK(gen[r])
  BY DEF TypeOK, AllOK
<1>1. PICK i \in DOMAIN gen[r].steps : /\ Claimable(RefreshRun(gen[r]), i)
                                       /\ gen'[r] = ClaimStep(RefreshRun(gen[r]), i, gen[r].relay)
  BY DEF HandedOut
<1>2. RefreshRun(gen[r]) = gen[r]
  BY <1>0, <1>1, RefreshFields DEF Refreshed, Claimable
<1>3. /\ gen[r].status = "waiting_relay" /\ IsCurrent(gen[r], i)
      /\ gen[r].steps[i].status = "pending"
      /\ gen'[r] = ClaimStep(gen[r], i, gen[r].relay)
  BY <1>1, <1>2 DEF Claimable
<1>4. /\ gen'[r].status = "running" /\ gen'[r].result = gen[r].result
      /\ DOMAIN gen'[r].steps = DOMAIN gen[r].steps
      /\ gen'[r].steps[i].status = "running"
      /\ gen'[r].steps[i].hash = gen[r].steps[i].hash
      /\ \A j \in DOMAIN gen[r].steps : j # i => gen'[r].steps[j] = gen[r].steps[j]
  BY <1>0, <1>3, ClaimFields
<1>5. PhaseOf(gen[r]) = "open" /\ PhaseOf(gen'[r]) = "open"
  BY <1>3, <1>4 DEF PhaseOf, IsActive, Active
<1>6. /\ gen[r].steps[i].hash = None
      /\ \A j \in 1..(i - 1) : gen[r].steps[j].hash # None
  <2>1. \A j \in 1..(i - 1) : j \in DOMAIN gen[r].steps
    BY <1>0, StepsDomain
  <2>2. QED
    BY <1>3, <2>1 DEF Recorded, IsCurrent
<1>7. RunningSteps(gen[r]) = {} /\ RunningSteps(gen'[r]) # {}
  BY <1>0, <1>3, <1>4 DEF RunningSteps, RunOK, Told, Has
<1>8. [j \in DOMAIN gen'[r].steps |-> gen'[r].steps[j].hash] =
      [j \in DOMAIN gen[r].steps |-> gen[r].steps[j].hash]
  BY <1>4
<1>9. {s \in Runs : RunningSteps(gen'[s]) # {}} = {r}
  BY <1>7
<1>10. Contract!NextQuestion(r, i)
  <2>1. \A j \in 1..(i - 1) : j \in DOMAIN gen[r].steps
    BY <1>0, StepsDomain
  <2>2. QED
    BY <1>6, <2>1 DEF Contract!NextQuestion
<1>11. QED
  BY <1>4, <1>5, <1>7, <1>8, <1>9, <1>10 DEF Contract!Call

\* An accepted answer is an answer of the contract.
LEMMA AnswerIsAnswer ==
    ASSUME TypeOK, NEW r \in Runs, AllOK, Recorded(gen[r]), IsAnswered(r)
    PROVE  \E a \in Results : \E i \in DOMAIN gen[r].steps : Contract!Answer(r, i, a)
<1> DEFINE g == gen[r]
           c == RefreshRun(gen[r])
           h == gen'[r]
<1>0. g \in Run /\ RunOK(g) /\ c \in Run /\ RunOK(c) /\ Recorded(g) /\ Recorded(c)
      /\ Refreshed(g, c)
  BY RefreshType, RefreshOK, RefreshRests, RestedRecorded, RefreshFields DEF TypeOK, AllOK
<1>1. PICK i \in RunningSteps(c), a \in Results, fits \in BOOLEAN : h = AcceptResult(c, i, a, fits)
  BY DEF IsAnswered
<1>2. Outcome(c, i, a, h)
  BY <1>0, <1>1, AcceptResultOutcome
<1> HIDE DEF c
<1>3. /\ DOMAIN g.steps = DOMAIN c.steps /\ i \in DOMAIN g.steps
      /\ g.steps[i].status = "running"
      /\ \A j \in DOMAIN g.steps :
            /\ c.steps[j].hash = g.steps[j].hash
            /\ c.steps[j].status = "completed" <=> g.steps[j].status = "completed"
  BY <1>0, <1>1 DEF Refreshed, RunningSteps
<1>4. Len(c.steps) = Len(g.steps) /\ Len(g.steps) \in Nat /\ DOMAIN g.steps = 1..Len(g.steps)
  <2>1. /\ Len(c.steps) \in Nat /\ DOMAIN c.steps = 1..Len(c.steps)
        /\ Len(g.steps) \in Nat /\ DOMAIN g.steps = 1..Len(g.steps)
    BY <1>0, StepsDomain
  <2>2. 1..Len(c.steps) = 1..Len(g.steps)
    BY <1>3, <2>1
  <2>3. QED
    BY <2>1, <2>2
<1>5. g.status = "running" /\ PhaseOf(g) = "open" /\ RunningSteps(g) # {}
  BY <1>0, <1>3 DEF RunOK, Told, Has, PhaseOf, IsActive, Active, RunningSteps
<1>6. /\ g.steps[i].hash = None
      /\ \A j \in 1..(i - 1) : j \in DOMAIN g.steps /\ g.steps[j].hash # None
  <2>1. \A j \in 1..(i - 1) : g.steps[j].status = "completed" /\ j \in DOMAIN g.steps
    BY <1>0, <1>3, <1>4 DEF RunOK, InOrder
  <2>2. QED
    BY <1>0, <1>3, <2>1 DEF Recorded
<1>7. Contract!NextQuestion(r, i)
  BY <1>3, <1>6 DEF Contract!NextQuestion
<1>8. RunningSteps(h) = {}
  BY <1>2, <1>3 DEF Outcome, RunningSteps
<1>9. [j \in DOMAIN h.steps |-> h.steps[j].hash] =
      [[j \in DOMAIN g.steps |-> g.steps[j].hash] EXCEPT ![i] = a]
  BY <1>2, <1>3 DEF Outcome
<1>10. \/ PhaseOf(h) \in {"open", "failed"} /\ h.result = None /\ i < Len(g.steps)
       \/ /\ PhaseOf(h) = "completed" /\ i = Len(g.steps)
          /\ h.result = [j \in DOMAIN h.steps |-> h.steps[j].hash]
  BY <1>2, <1>3, <1>4 DEF Outcome, PhaseOf, IsActive, Active
<1>11. Len([j \in DOMAIN g.steps |-> g.steps[j].hash]) = Len(g.steps)
  BY <1>4
<1>12. Contract!Answer(r, i, a)
  BY <1>5, <1>7, <1>8, <1>9, <1>10, <1>11 DEF Contract!Answer
<1>13. QED
  BY <1>3, <1>12

\* A submission begins a generation of the contract.
LEMMA SubmissionBegins ==
    ASSUME TypeOK, NEW r \in Runs, NEW k \in Keys, NEW x \in Sessions, NEW m \in Models,
           NEW p \in Plans, SubmitGeneration(r, k, x, m, p)
    PROVE  Contract!Begin(r)
<1>1. gen[r].status = "absent" /\ gen'[r] = CreateRun(k, m, x, p)
  BY SubmissionCreates DEF SubmitGeneration
<1>2. /\ RunningSteps(gen'[r]) = {}
      /\ \A i \in DOMAIN gen'[r].steps : gen'[r].steps[i].hash = None
      /\ \/ gen'[r].status = "waiting_relay" /\ gen'[r].result = None
         \/ /\ gen'[r].status = "completed" /\ gen'[r].result = <<>>
            /\ DOMAIN gen'[r].steps = {}
  BY <1>1, CreateRunOutcome
<1>3. PhaseOf(gen[r]) = "none"
  BY <1>1 DEF PhaseOf
<1>4. \/ PhaseOf(gen'[r]) = "open" /\ gen'[r].result = None
      \/ /\ [i \in DOMAIN gen'[r].steps |-> gen'[r].steps[i].hash] = <<>>
         /\ PhaseOf(gen'[r]) = "completed" /\ gen'[r].result = <<>>
  BY <1>2 DEF PhaseOf, IsActive, Active
<1>5. QED
  BY <1>2, <1>3, <1>4 DEF Contract!Begin

\* Each step of the store is a step of the contract.
LEMMA StepOfContract ==
    ASSUME TypeOK, AllOK, AllRecorded, AllOK', [Next]_vars
    PROVE  Contract!Next
<1>1. \A s \in Runs : RunOK(gen[s]) /\ RunOK(gen'[s]) /\ Recorded(gen[s])
  BY DEF AllOK, AllRecorded
<1>2. CASE \A s \in Runs : Quiet(s)
  BY <1>1, <1>2, QuietIsRest DEF Contract!Next
<1>3. ASSUME NEW r \in Runs, HandedOut(r),
             \A s \in Runs \ {r} : Quiet(s) /\ RunningSteps(gen'[s]) = {}
      PROVE  Contract!Next
  <2>1. Contract!Call(r)
    BY <1>1, <1>3, HandingOutIsCall
  <2>2. \A s \in Runs \ {r} : Contract!Rests(s)
    BY <1>1, <1>3, QuietIsRest
  <2>3. QED
    BY <2>1, <2>2 DEF Contract!Next
<1>4. ASSUME NEW r \in Runs, IsAnswered(r), \A s \in Runs \ {r} : Quiet(s)
      PROVE  Contract!Next
  <2>1. \E a \in Results : \E i \in DOMAIN gen[r].steps : Contract!Answer(r, i, a)
    BY <1>1, <1>4, AnswerIsAnswer
  <2>2. \A s \in Runs \ {r} : Contract!Rests(s)
    BY <1>1, <1>4, QuietIsRest
  <2>3. QED
    BY <2>1, <2>2 DEF Contract!Next
<1>5. ASSUME NEW r \in Runs, NEW k \in Keys, NEW x \in Sessions, NEW m \in Models,
             NEW p \in Plans, SubmitGeneration(r, k, x, m, p)
      PROVE  Contract!Next
  <2>1. Contract!Begin(r)
    BY <1>5, SubmissionBegins
  <2>2. \A s \in Runs \ {r} : Quiet(s)
    BY <1>5, SubmissionCreates DEF Quiet
  <2>3. \A s \in Runs \ {r} : Contract!Rests(s)
    BY <1>1, <2>2, QuietIsRest
  <2>4. QED
    BY <2>1, <2>3 DEF Contract!Next
<1>6. CASE Submits
  BY <1>5, <1>6 DEF Submits
<1>7. CASE ~Submits
  BY <1>2, <1>3, <1>4, <1>7, SubmitsOrNot, OneCallAtATime
<1>8. QED
  BY <1>6, <1>7

\* Whatever relays, leases, resumes and expiry do (generation_store.py), the user
\* sees generations answered in order, one call at a time, and ended once, for
\* any number of generations, parts, relays, attempts and answers.
THEOREM ContractIsKept == Spec => ImplementsContract
<1>1. Init => Contract!Init
  BY DEF Init, Contract!Init, NoRun, PhaseOf, RunningSteps
<1>2. TypeOK /\ AllOK /\ AllRecorded /\ AllOK' /\ [Next]_vars => [Contract!Next]_(Contract!vars)
  BY StepOfContract
<1>3. QED
  BY <1>1, <1>2, TypeCorrect, EachRunOK, EachRecorded, PTL DEF Spec, ImplementsContract, Contract!Spec
=============================================================================

----------------------------- MODULE GenerationProofs -----------------------------
(*****************************************************************************)
(* Machine-checked facts about GenerationStore, for every number of runs,    *)
(* sessions, steps and attempts: its types, its single upstream call, and    *)
(* lemmas that say, field by field, what each operation of GenerationRuns    *)
(* does to one generation and which of its properties (RunOK) it keeps.      *)
(* StoreProofs combines them along the transactions of the store.            *)
(*****************************************************************************)
EXTENDS GenerationStore, SequenceTheorems, FiniteSetTheorems, TLAPS

\* The steps of a generation are a sequence: a function on 1..Len.
LEMMA StepsDomain ==
    ASSUME NEW g \in Run
    PROVE  /\ Len(g.steps) \in Nat
           /\ DOMAIN g.steps = 1..Len(g.steps)
           /\ g.steps \in [1..Len(g.steps) -> Step]
  BY LenProperties DEF Run

\* A function on 1..n with values in Step is a sequence of steps.
LEMMA StepsType ==
    ASSUME NEW n \in Nat, NEW t \in [1..n -> Step]
    PROVE  t \in Seq(Step)
  BY SeqDef

\* Replacing every step of a generation by a step gives a sequence of steps.
LEMMA StepMapType ==
    ASSUME NEW g \in Run, NEW t,
           t = [i \in DOMAIN g.steps |-> t[i]],
           \A i \in DOMAIN g.steps : t[i] \in Step
    PROVE  t \in Seq(Step)
<1>1. t \in [1..Len(g.steps) -> Step]
  BY StepsDomain
<1>2. QED
  BY <1>1, StepsDomain, StepsType

\* The absence of a row (not created, or purged) is a value of the row's type.
LEMMA NoRunType ==
    ASSUME NEW st \in {"absent", "purged"}
    PROVE  NoRun(st) \in Run
  BY EmptySeq DEF NoRun, Run

\* Erasing the texts of a generation (erase_intermediate) preserves its type.
LEMMA EraseType ==
    ASSUME NEW g \in Run
    PROVE  EraseIntermediate(g) \in Run
<1> DEFINE t == [i \in DOMAIN g.steps |->
                   [g.steps[i] EXCEPT !.prompt = FALSE, !.content = None]]
<1>1. t \in Seq(Step)
  <2>1. ASSUME NEW i \in DOMAIN g.steps
        PROVE  t[i] \in Step
    <3>1. g.steps[i] \in Step
      BY StepsDomain
    <3>2. QED
      BY <3>1 DEF Step
  <2>2. QED
    BY <2>1, StepMapType
<1>2. QED
  BY <1>1 DEF EraseIntermediate, Run

\* Ending a generation by expiry or cancellation preserves its type.
LEMMA AbandonType ==
    ASSUME NEW g \in Run, NEW st \in Terminal
    PROVE  Abandon(g, st) \in Run
<1> DEFINE t == [i \in DOMAIN g.steps |->
                   IF g.steps[i].status = "completed" THEN g.steps[i]
                   ELSE [g.steps[i] EXCEPT !.status = "cancelled", !.lease = "none"]]
           h == [g EXCEPT !.status = st, !.steps = t]
<1>1. t \in Seq(Step)
  <2>1. ASSUME NEW i \in DOMAIN g.steps
        PROVE  t[i] \in Step
    <3>1. g.steps[i] \in Step
      BY StepsDomain
    <3>2. QED
      BY <3>1 DEF Step
  <2>2. QED
    BY <2>1, StepMapType
<1>2. h \in Run
  BY <1>1 DEF Run
<1>3. QED
  BY <1>2, EraseType DEF Abandon

\* Failing a generation preserves its type.
LEMMA FailType ==
    ASSUME NEW g \in Run
    PROVE  Fail(g) \in Run
<1>1. [g EXCEPT !.status = "failed"] \in Run
  BY DEF Run, Terminal
<1>2. QED
  BY <1>1, EraseType DEF Fail

\* Marking lost calls as uncertain preserves the type of a generation.
LEMMA MarkUncertainType ==
    ASSUME NEW g \in Run, NEW lost
    PROVE  MarkUncertain(g, lost) \in Run
<1> DEFINE t == [i \in DOMAIN g.steps |->
                   IF i \in lost
                   THEN [g.steps[i] EXCEPT !.status = "uncertain", !.lease = "none"]
                   ELSE g.steps[i]]
<1>1. t \in Seq(Step)
  <2>1. ASSUME NEW i \in DOMAIN g.steps
        PROVE  t[i] \in Step
    <3>1. g.steps[i] \in Step
      BY StepsDomain
    <3>2. QED
      BY <3>1 DEF Step
  <2>2. QED
    BY <2>1, StepMapType
<1>2. QED
  BY <1>1 DEF MarkUncertain, Run, Active

\* refresh_run preserves the type of a generation.
LEMMA RefreshType ==
    ASSUME NEW g \in Run
    PROVE  RefreshRun(g) \in Run
  BY AbandonType, MarkUncertainType DEF RefreshRun, Terminal

\* advance preserves the type of a generation.
LEMMA AdvanceType ==
    ASSUME NEW g \in Run, NEW fits
    PROVE  Advance(g, fits) \in Run
<1> DEFINE res == [i \in DOMAIN g.steps |-> g.steps[i].content]
           t == [i \in DOMAIN g.steps |->
                   IF IsCurrent(g, i) THEN [g.steps[i] EXCEPT !.prompt = TRUE]
                   ELSE g.steps[i]]
<1>1. res \in Seq(Results \cup {None})
  BY StepsDomain, SeqDef DEF Step
<1>2. t \in Seq(Step)
  <2>1. ASSUME NEW i \in DOMAIN g.steps
        PROVE  t[i] \in Step
    <3>1. g.steps[i] \in Step
      BY StepsDomain
    <3>2. QED
      BY <3>1 DEF Step
  <2>2. QED
    BY <2>1, StepMapType
<1>3. [g EXCEPT !.status = "completed", !.result = res] \in Run
  BY <1>1 DEF Run, Terminal
<1>4. [g EXCEPT !.status = "waiting_relay", !.steps = t] \in Run
  BY <1>2 DEF Run, Active
<1>5. QED
  BY <1>3, <1>4, EraseType, FailType DEF Advance

\* A new run has the type of a row.
LEMMA CreateRunType ==
    ASSUME NEW k \in Keys, NEW m \in Models, NEW x \in Sessions, NEW p \in Plans
    PROVE  CreateRun(k, m, x, p) \in Run
<1> DEFINE t == [i \in DOMAIN p |-> NewStep(p[i])]
           g == [status |-> "waiting_relay", key |-> k, model |-> m, relay |-> x,
                 due |-> FALSE, today |-> TRUE, aged |-> FALSE,
                 plan |-> TRUE, result |-> None, steps |-> t]
<1>1. p \in Seq(BOOLEAN)
  BY PlansAssumption
<1>2. t \in [1..Len(p) -> Step]
  BY <1>1, LenProperties, AttemptsAssumption DEF NewStep, Step
<1>3. t \in Seq(Step)
  BY <1>1, <1>2, LenProperties, StepsType
<1>4. g \in Run
  BY <1>3 DEF Run, Active
<1>5. QED
  BY <1>4, AdvanceType DEF CreateRun

\* Replacing one step, and the status, preserves the type of a generation.
LEMMA StepUpdateType ==
    ASSUME NEW g \in Run, NEW i \in DOMAIN g.steps,
           NEW st \in Terminal \cup Active, NEW s \in Step
    PROVE  [g EXCEPT !.status = st, !.steps[i] = s] \in Run
<1>1. [g.steps EXCEPT ![i] = s] \in Seq(Step)
  BY StepsDomain, ExceptSeq DEF Run
<1>2. QED
  BY <1>1 DEF Run

\* A new lease changes nothing else of the step.
LEMMA LeaseType ==
    ASSUME NEW g \in Run, NEW i \in DOMAIN g.steps, NEW l \in {"live", "lapsed"}
    PROVE  [g EXCEPT !.steps[i].lease = l] \in Run
<1>1. [g.steps[i] EXCEPT !.lease = l] \in Step
  BY StepsDomain DEF Step
<1>2. [g.steps EXCEPT ![i] = [g.steps[i] EXCEPT !.lease = l]] \in Seq(Step)
  BY <1>1, StepsDomain, ExceptSeq DEF Run
<1>3. QED
  BY <1>2 DEF Run

\* Handing out a step that has an attempt left preserves the type.
LEMMA ClaimStepType ==
    ASSUME NEW g \in Run, NEW i \in DOMAIN g.steps, NEW x \in Sessions,
           g.steps[i].attempt < MaxStepAttempts
    PROVE  ClaimStep(g, i, x) \in Run
<1> DEFINE s == [g.steps[i] EXCEPT !.status = "running", !.attempt = @ + 1,
                                   !.relay = x, !.lease = "live"]
<1>1. g.steps[i] \in Step
  BY StepsDomain
<1>2. g.steps[i].attempt + 1 \in 0..MaxStepAttempts
  BY <1>1, AttemptsAssumption DEF Step
<1>3. s \in Step
  BY <1>1, <1>2 DEF Step
<1>4. [g EXCEPT !.status = "running", !.steps[i] = s] \in Run
  BY <1>3, StepUpdateType DEF Active
<1>5. QED
  BY <1>4 DEF ClaimStep

\* Accepting an answer preserves the type.
LEMMA AcceptResultType ==
    ASSUME NEW g \in Run, NEW i \in DOMAIN g.steps, NEW answer \in Results, NEW fits
    PROVE  AcceptResult(g, i, answer, fits) \in Run
<1> DEFINE s == [g.steps[i] EXCEPT !.status = "completed", !.lease = "none",
                                   !.content = answer, !.hash = answer]
<1>0. g.steps[i] \in Step
  BY StepsDomain
<1>1. s \in Step
  BY <1>0 DEF Step
<1>2. [g.steps EXCEPT ![i] = s] \in Seq(Step)
  BY <1>1, StepsDomain, ExceptSeq DEF Run
<1>3. [g EXCEPT !.steps[i] = s] \in Run
  BY <1>2 DEF Run
<1>4. QED
  BY <1>3, AdvanceType DEF AcceptResult

\* Accepting an error preserves the type.
LEMMA AcceptErrorType ==
    ASSUME NEW g \in Run, NEW i \in DOMAIN g.steps, NEW refused
    PROVE  AcceptError(g, i, refused) \in Run
<1> DEFINE st == IF refused THEN "paused" ELSE "uncertain"
           s == [g.steps[i] EXCEPT !.status = st, !.lease = "none"]
<1>0. g.steps[i] \in Step
  BY StepsDomain
<1>1. s \in Step
  BY <1>0 DEF Step
<1>2. QED
  BY <1>1, StepUpdateType DEF AcceptError, Active

\* Resuming a generation with another relay preserves the type.
LEMMA ResumeType ==
    ASSUME NEW g \in Run, NEW x \in Sessions
    PROVE  Resume(g, x) \in Run
<1> DEFINE t == [i \in DOMAIN g.steps |->
                   IF g.steps[i].status = "completed" THEN g.steps[i]
                   ELSE [g.steps[i] EXCEPT !.status = "pending", !.lease = "none",
                                           !.relay = None]]
<1>1. t \in Seq(Step)
  <2>1. ASSUME NEW i \in DOMAIN g.steps
        PROVE  t[i] \in Step
    <3>1. g.steps[i] \in Step
      BY StepsDomain
    <3>2. QED
      BY <3>1 DEF Step
  <2>2. QED
    BY <2>1, StepMapType
<1>2. QED
  BY <1>1 DEF Resume, Run, Active

\* Reading a generation up to date never adds or removes a step.
LEMMA SameSteps ==
    ASSUME NEW g \in Run
    PROVE  DOMAIN RefreshRun(g).steps = DOMAIN g.steps
  BY StepsDomain, RefreshType DEF RefreshRun, Abandon, EraseIntermediate, MarkUncertain, Run

-----------------------------------------------------------------------------
\* Every generation of the store, refreshed or not, has the type of a row.
LEMMA ReconcileType ==
    ASSUME TypeOK
    PROVE  ReconcileUser \in [Runs -> Run]
  BY RefreshType DEF TypeOK, ReconcileUser

\* Every transaction of the store preserves the types of its rows.
LEMMA TypeStep ==
    ASSUME TypeOK, [Next]_vars
    PROVE  TypeOK'
<1> USE DEF TypeOK
<1>0. ReconcileUser \in [Runs -> Run]
  BY ReconcileType
<1>1. ASSUME NEW x \in Sessions, NEW ms \in SUBSET Models, CreateRelaySession(x, ms)
      PROVE  TypeOK'
  BY <1>1 DEF CreateRelaySession, Relay
<1>2. ASSUME NEW x \in Sessions, RevokeRelay(x)
      PROVE  TypeOK'
  <2>1. relays' \in [Sessions -> Relay]
    BY <1>2 DEF RevokeRelay, Relay
  <2>2. gen' \in [Runs -> Run]
    BY <1>2, MarkUncertainType DEF RevokeRelay
  <2>3. QED
    BY <1>2, <2>1, <2>2 DEF RevokeRelay
<1>3. ASSUME NEW r \in Runs, NEW k \in Keys, NEW x \in Sessions, NEW m \in Models,
             NEW p \in Plans, SubmitGeneration(r, k, x, m, p)
      PROVE  TypeOK'
  <2>1. CreateRun(k, m, x, p) \in Run
    BY CreateRunType
  <2>2. QED
    BY <1>0, <1>3, <2>1 DEF SubmitGeneration
<1>4. CASE ListGenerations
  BY <1>0, <1>4 DEF ListGenerations
<1>5. ASSUME NEW r \in Runs, GenerationStatus(r)
      PROVE  TypeOK'
  BY <1>5, RefreshType DEF GenerationStatus
<1>6. ASSUME NEW r \in Runs, CancelGeneration(r)
      PROVE  TypeOK'
  BY <1>6, AbandonType DEF CancelGeneration, Terminal
<1>7. ASSUME NEW r \in Runs, NEW x \in Sessions, NEW retry \in BOOLEAN,
             ResumeGeneration(r, x, retry)
      PROVE  TypeOK'
  <2>1. Resume(RefreshRun(gen[r]), x) \in Run
    BY RefreshType, ResumeType
  <2>2. gen' \in [Runs -> Run]
    BY <1>7, <2>1 DEF ResumeGeneration
  <2>3. grants' \in [Runs -> Nat]
    BY <1>7 DEF ResumeGeneration
  <2>4. QED
    BY <1>7, <2>2, <2>3 DEF ResumeGeneration
<1>8. ASSUME NEW x \in Sessions, NEW ids \in SUBSET Runs, ClaimNothing(x, ids)
      PROVE  TypeOK'
  BY <1>0, <1>8, FailType DEF ClaimNothing
<1>9. ASSUME NEW x \in Sessions, NEW ids \in SUBSET Runs, NEW r \in ids,
             NEW i \in DOMAIN gen[r].steps, NEW earlier \in SUBSET (ids \ {r}),
             ClaimOne(x, ids, r, i, earlier)
      PROVE  TypeOK'
  <2>1. ClaimStep(ReconcileUser[r], i, x) \in Run
    BY <1>0, <1>9, ClaimStepType DEF ClaimOne, Claimable, IsCurrent
  <2>2. \A s \in Runs : Fail(ReconcileUser[s]) \in Run
    BY <1>0, FailType
  <2>3. gen' \in [Runs -> Run]
    BY <1>0, <1>9, <2>1, <2>2 DEF ClaimOne
  <2>4. QED
    BY <1>9, <2>3 DEF ClaimOne
<1>10. ASSUME NEW r \in Runs, NEW x \in Sessions, NEW i \in DOMAIN gen[r].steps,
              NEW a \in 1..MaxStepAttempts, StepHeartbeat(r, i, x, a)
       PROVE  TypeOK'
  <2> DEFINE g == RefreshRun(gen[r])
  <2>1. g \in Run /\ i \in DOMAIN g.steps
    BY RefreshType, SameSteps
  <2>2. [g EXCEPT !.steps[i].lease = "live"] \in Run
    BY <2>1, LeaseType
  <2>3. gen' \in [Runs -> Run]
    BY <1>10, <2>1, <2>2 DEF StepHeartbeat
  <2>4. QED
    BY <1>10, <2>3 DEF StepHeartbeat
<1>11. ASSUME NEW r \in Runs, NEW x \in Sessions, NEW i \in DOMAIN gen[r].steps,
              NEW a \in 1..MaxStepAttempts, NEW answer \in Results, NEW fits \in BOOLEAN,
              SubmitResult(r, i, x, a, answer, fits)
       PROVE  TypeOK'
  <2>1. AcceptResult(RefreshRun(gen[r]), i, answer, fits) \in Run
    BY RefreshType, SameSteps, AcceptResultType
  <2>2. gen' \in [Runs -> Run]
    BY <1>11, <2>1, RefreshType DEF SubmitResult
  <2>3. grants' \in [Runs -> Nat]
    BY <1>11 DEF SubmitResult
  <2>4. QED
    BY <1>11, <2>2, <2>3 DEF SubmitResult
<1>12. ASSUME NEW r \in Runs, NEW x \in Sessions, NEW i \in DOMAIN gen[r].steps,
              NEW a \in 1..MaxStepAttempts, NEW refused \in BOOLEAN,
              SubmitError(r, i, x, a, refused)
       PROVE  TypeOK'
  <2>1. AcceptError(RefreshRun(gen[r]), i, refused) \in Run
    BY RefreshType, SameSteps, AcceptErrorType
  <2>2. QED
    BY <1>12, <2>1 DEF SubmitError
<1>13. CASE Maintain
  <2>1. \A r \in Runs : Purge(ReconcileUser[r]) \in Run
    BY <1>0, NoRunType DEF Purge
  <2>2. QED
    BY <1>13, <2>1 DEF Maintain
<1>14. ASSUME NEW r \in Runs, RunDue(r)
       PROVE  TypeOK'
  <2>1. [gen[r] EXCEPT !.due = TRUE] \in Run
    BY DEF Run
  <2>2. QED
    BY <1>14, <2>1 DEF RunDue
<1>15. ASSUME NEW r \in Runs, RunAges(r)
       PROVE  TypeOK'
  <2>1. [gen[r] EXCEPT !.aged = TRUE] \in Run
    BY DEF Run
  <2>2. QED
    BY <1>15, <2>1 DEF RunAges
<1>16. ASSUME NEW r \in Runs, NEW i \in DOMAIN gen[r].steps, LeaseLapses(r, i)
       PROVE  TypeOK'
  <2>1. [gen[r] EXCEPT !.steps[i].lease = "lapsed"] \in Run
    BY LeaseType
  <2>2. QED
    BY <1>16, <2>1 DEF LeaseLapses
<1>17. ASSUME NEW x \in Sessions, SessionExpires(x)
       PROVE  TypeOK'
  BY <1>17 DEF SessionExpires, Relay
<1>18. CASE DayTurns
  <2>1. \A r \in Runs : [gen[r] EXCEPT !.today = FALSE] \in Run
    BY DEF Run
  <2>2. QED
    BY <1>18, <2>1 DEF DayTurns
<1>19. CASE UNCHANGED vars
  BY <1>19 DEF vars
<1>20. CASE SessionRequest
  BY <1>1, <1>2, <1>20 DEF SessionRequest
<1>21. CASE UserRequest
  BY <1>3, <1>4, <1>5, <1>6, <1>7, <1>21 DEF UserRequest
<1>22. CASE ClaimRequest
  BY <1>8, <1>9, <1>22 DEF ClaimRequest
<1>25. CASE StepRequest
  BY <1>10, <1>11, <1>12, <1>25 DEF StepRequest
<1>23. CASE Clock
  BY <1>14, <1>15, <1>16, <1>17, <1>18, <1>23 DEF Clock
<1>24. QED
  BY <1>13, <1>19, <1>20, <1>21, <1>22, <1>23, <1>25 DEF Next

\* At first there is no row.
LEMMA InitTyped == Init => TypeOK
<1> SUFFICES ASSUME Init PROVE TypeOK
  OBVIOUS
<1>1. NoRun("absent") \in Run
  BY NoRunType
<1>2. QED
  BY <1>1 DEF Init, TypeOK, Relay

\* The type invariant: in particular no step is ever handed out more than
\* MAX_STEP_ATTEMPTS times, since attempt \in 0..MaxStepAttempts.
THEOREM TypeCorrect == Spec => []TypeOK
  BY InitTyped, TypeStep, PTL DEF Spec

-----------------------------------------------------------------------------
\* Erasing texts changes the status of no step.
LEMMA EraseRunning ==
    ASSUME NEW g \in Run
    PROVE  RunningSteps(EraseIntermediate(g)) = RunningSteps(g)
<1>1. \A i \in DOMAIN g.steps : g.steps[i] \in Step
  BY StepsDomain
<1>2. QED
  BY <1>1 DEF RunningSteps, EraseIntermediate, Run, Step

\* Ending a generation leaves no step running.
LEMMA AbandonRunning ==
    ASSUME NEW g \in Run, NEW st \in Terminal
    PROVE  RunningSteps(Abandon(g, st)) = {}
<1> DEFINE t == [i \in DOMAIN g.steps |->
                   IF g.steps[i].status = "completed" THEN g.steps[i]
                   ELSE [g.steps[i] EXCEPT !.status = "cancelled", !.lease = "none"]]
           h == [g EXCEPT !.status = st, !.steps = t]
<1>1. \A i \in DOMAIN g.steps : g.steps[i] \in Step /\ t[i] \in Step /\ t[i].status # "running"
  <2>1. ASSUME NEW i \in DOMAIN g.steps
        PROVE  g.steps[i] \in Step /\ t[i] \in Step /\ t[i].status # "running"
    <3>1. g.steps[i] \in Step
      BY StepsDomain
    <3>2. QED
      BY <3>1 DEF Step
  <2>2. QED
    BY <2>1
<1>2. t \in Seq(Step)
  BY <1>1, StepMapType
<1>3. h \in Run
  BY <1>2 DEF Run
<1>4. h.steps = t
  BY DEF Run
<1>5. RunningSteps(h) = {}
  BY <1>1, <1>4 DEF RunningSteps
<1>6. QED
  BY <1>3, <1>5, EraseRunning DEF Abandon

\* Failing a generation starts no step.
LEMMA FailRunning ==
    ASSUME NEW g \in Run
    PROVE  RunningSteps(Fail(g)) = RunningSteps(g)
<1>1. [g EXCEPT !.status = "failed"] \in Run
  BY DEF Run, Terminal
<1>2. RunningSteps([g EXCEPT !.status = "failed"]) = RunningSteps(g)
  BY DEF RunningSteps, Run
<1>3. QED
  BY <1>1, <1>2, EraseRunning DEF Fail

\* A call that is given up is not running any more, and no other one starts.
LEMMA MarkUncertainRunning ==
    ASSUME NEW g \in Run, NEW lost
    PROVE  RunningSteps(MarkUncertain(g, lost)) \subseteq RunningSteps(g)
<1>1. \A i \in DOMAIN g.steps : g.steps[i] \in Step
  BY StepsDomain
<1>2. QED
  BY <1>1 DEF RunningSteps, MarkUncertain, Run, Step

\* refresh_run starts no step.
LEMMA RefreshRunning ==
    ASSUME NEW g \in Run
    PROVE  RunningSteps(RefreshRun(g)) \subseteq RunningSteps(g)
  BY AbandonRunning, MarkUncertainRunning DEF RefreshRun, Terminal

\* advance starts no step: the next one waits to be claimed.
LEMMA AdvanceRunning ==
    ASSUME NEW g \in Run, NEW fits
    PROVE  RunningSteps(Advance(g, fits)) \subseteq RunningSteps(g)
<1>1. \A i \in DOMAIN g.steps : g.steps[i] \in Step
  BY StepsDomain
<1>2. CASE AllCompleted(g)
  <2> DEFINE res == [i \in DOMAIN g.steps |-> g.steps[i].content]
             h == [g EXCEPT !.status = "completed", !.result = res]
  <2>1. res \in Seq(Results \cup {None})
    BY <1>1, StepsDomain, SeqDef DEF Step
  <2>2. h \in Run
    BY <2>1 DEF Run, Terminal
  <2>3. RunningSteps(h) = RunningSteps(g)
    BY DEF RunningSteps, Run
  <2>4. QED
    BY <1>2, <2>2, <2>3, EraseRunning DEF Advance
<1>3. CASE ~AllCompleted(g) /\ ~fits /\ \E i \in DOMAIN g.steps : IsCurrent(g, i) /\ ~g.steps[i].prompt
  BY <1>3, FailRunning DEF Advance
<1>4. CASE ~AllCompleted(g) /\ ~(~fits /\ \E i \in DOMAIN g.steps : IsCurrent(g, i) /\ ~g.steps[i].prompt)
  BY <1>1, <1>4 DEF Advance, RunningSteps, Run, Step
<1>5. QED
  BY <1>2, <1>3, <1>4

\* A new generation has no running step.
LEMMA CreateRunRunning ==
    ASSUME NEW k, NEW m, NEW x, NEW p \in Plans
    PROVE  RunningSteps(CreateRun(k, m, x, p)) = {}
  BY PlansAssumption DEF CreateRun, NewStep, Advance, AllCompleted, EraseIntermediate, RunningSteps

\* claim starts the step it hands out, and no other one.
LEMMA ClaimStepRunning ==
    ASSUME NEW g \in Run, NEW i \in DOMAIN g.steps, NEW x
    PROVE  RunningSteps(ClaimStep(g, i, x)) \subseteq RunningSteps(g) \cup {i}
  BY StepsDomain DEF ClaimStep, RunningSteps, Run

\* An accepted answer starts no step.
LEMMA AcceptResultRunning ==
    ASSUME NEW g \in Run, NEW i \in DOMAIN g.steps, NEW answer \in Results, NEW fits
    PROVE  RunningSteps(AcceptResult(g, i, answer, fits)) \subseteq RunningSteps(g)
<1> DEFINE s == [g.steps[i] EXCEPT !.status = "completed", !.lease = "none",
                                   !.content = answer, !.hash = answer]
           h == [g EXCEPT !.steps[i] = s]
<1>0. g.steps[i] \in Step
  BY StepsDomain
<1>1. s \in Step
  BY <1>0 DEF Step
<1>2. [g.steps EXCEPT ![i] = s] \in Seq(Step)
  BY <1>1, StepsDomain, ExceptSeq DEF Run
<1>3. h \in Run
  BY <1>2 DEF Run
<1>4. RunningSteps(h) \subseteq RunningSteps(g)
  BY <1>0, StepsDomain DEF RunningSteps, Run, Step
<1>5. QED
  BY <1>3, <1>4, AdvanceRunning DEF AcceptResult

\* An accepted error starts no step.
LEMMA AcceptErrorRunning ==
    ASSUME NEW g \in Run, NEW i \in DOMAIN g.steps, NEW refused
    PROVE  RunningSteps(AcceptError(g, i, refused)) \subseteq RunningSteps(g)
<1>1. g.steps[i] \in Step
  BY StepsDomain
<1>2. QED
  BY <1>1, StepsDomain DEF AcceptError, RunningSteps, Run, Step

\* Resuming takes every step without an answer out of its relay's hands.
LEMMA ResumeRunning ==
    ASSUME NEW g \in Run, NEW x
    PROVE  RunningSteps(Resume(g, x)) = {}
<1>1. \A i \in DOMAIN g.steps : g.steps[i] \in Step
  BY StepsDomain
<1>2. QED
  BY <1>1 DEF Resume, RunningSteps, Run, Step

\* A new lease starts no step.
LEMMA LeaseRunning ==
    ASSUME NEW g \in Run, NEW i \in DOMAIN g.steps, NEW l
    PROVE  RunningSteps([g EXCEPT !.steps[i].lease = l]) = RunningSteps(g)
<1>1. \A j \in DOMAIN g.steps : g.steps[j] \in Step
  BY StepsDomain
<1>2. QED
  BY <1>1, StepsDomain DEF RunningSteps, Run, Step

\* A step of the store that starts no upstream call keeps at most one running.
LEMMA NoneStarted ==
    ASSUME SingleUpstreamCall,
           \A r \in Runs : RunningSteps(gen[r])' \subseteq RunningSteps(gen[r])
    PROVE  SingleUpstreamCall'
  BY DEF SingleUpstreamCall

\* The steps that are running are read from the steps alone.
LEMMA SameRunning ==
    ASSUME NEW g, NEW h, g.steps = h.steps
    PROVE  RunningSteps(g) = RunningSteps(h)
  BY DEF RunningSteps

\* "One active upstream call per user, even across devices/sessions" (comment of
\* claim, generation_store.py:198), for any number of generations and sessions.
THEOREM OneUpstreamCall == Spec => []SingleUpstreamCall
<1>1. Init => SingleUpstreamCall
  BY DEF Init, SingleUpstreamCall, RunningSteps, NoRun
<1>2. TypeOK /\ SingleUpstreamCall /\ [Next]_vars => SingleUpstreamCall'
  <2> SUFFICES ASSUME TypeOK, SingleUpstreamCall, [Next]_vars PROVE SingleUpstreamCall'
    OBVIOUS
  <2> DEFINE Kept(r) == RunningSteps(gen[r])' \subseteq RunningSteps(gen[r])
  <2>0. /\ \A r \in Runs : gen[r] \in Run /\ RefreshRun(gen[r]) \in Run
        /\ \A r \in Runs : ReconcileUser[r] = RefreshRun(gen[r])
        /\ \A r \in Runs : RunningSteps(ReconcileUser[r]) \subseteq RunningSteps(gen[r])
        /\ DOMAIN gen = Runs
    BY RefreshType, RefreshRunning DEF TypeOK, ReconcileUser
  <2>1. ASSUME NEW x \in Sessions, NEW ms \in SUBSET Models, CreateRelaySession(x, ms)
        PROVE  \A r \in Runs : Kept(r)
    BY <2>1 DEF CreateRelaySession
  <2>2. ASSUME NEW x \in Sessions, RevokeRelay(x)
        PROVE  \A r \in Runs : Kept(r)
    BY <2>0, <2>2, MarkUncertainRunning DEF RevokeRelay
  <2>3. ASSUME NEW r \in Runs, NEW k \in Keys, NEW x \in Sessions, NEW m \in Models,
               NEW p \in Plans, SubmitGeneration(r, k, x, m, p)
        PROVE  \A s \in Runs : Kept(s)
    <3>1. RunningSteps(CreateRun(k, m, x, p)) = {}
      BY CreateRunRunning
    <3>2. \A s \in Runs : gen'[s] = IF s = r THEN CreateRun(k, m, x, p) ELSE ReconcileUser[s]
      BY <2>3 DEF SubmitGeneration, ReconcileUser
    <3>3. QED
      BY <2>0, <3>1, <3>2
  <2>4. CASE ListGenerations
    BY <2>0, <2>4, NoneStarted DEF ListGenerations
  <2>5. ASSUME NEW r \in Runs, GenerationStatus(r)
        PROVE  \A s \in Runs : Kept(s)
    BY <2>0, <2>5, RefreshRunning DEF GenerationStatus
  <2>6. ASSUME NEW r \in Runs, CancelGeneration(r)
        PROVE  \A s \in Runs : Kept(s)
    BY <2>0, <2>6, AbandonRunning DEF CancelGeneration, Terminal
  <2>7. ASSUME NEW r \in Runs, NEW x \in Sessions, NEW retry \in BOOLEAN,
               ResumeGeneration(r, x, retry)
        PROVE  \A s \in Runs : Kept(s)
    BY <2>0, <2>7, ResumeRunning DEF ResumeGeneration
  <2>8. ASSUME NEW x \in Sessions, NEW ids \in SUBSET Runs, ClaimNothing(x, ids)
        PROVE  \A s \in Runs : Kept(s)
    <3>1. \A s \in Runs : gen'[s] \in {ReconcileUser[s], Fail(ReconcileUser[s])}
      BY <2>8 DEF ClaimNothing, ReconcileUser
    <3>2. QED
      BY <2>0, <3>1, FailRunning
  <2>9. ASSUME NEW x \in Sessions, NEW ids \in SUBSET Runs, NEW r \in ids,
               NEW i \in DOMAIN gen[r].steps, NEW earlier \in SUBSET (ids \ {r}),
               ClaimOne(x, ids, r, i, earlier)
        PROVE  SingleUpstreamCall'
    <3>1. \A s \in Runs : RunningSteps(ReconcileUser[s]) = {}
      BY <2>9 DEF ClaimOne, NoRunningStep
    <3>2. i \in DOMAIN ReconcileUser[r].steps
      BY <2>9 DEF ClaimOne, Claimable, IsCurrent
    <3>3. RunningSteps(gen'[r]) \subseteq {i}
      BY <2>0, <2>9, <3>1, <3>2, ClaimStepRunning DEF ClaimOne
    <3>4. \A s \in Runs : s # r => gen'[s] \in {ReconcileUser[s], Fail(ReconcileUser[s])}
      BY <2>9 DEF ClaimOne
    <3>5. \A s \in Runs : s # r => RunningSteps(gen'[s]) = {}
      BY <2>0, <3>1, <3>4, FailRunning
    <3>6. QED
      BY <3>3, <3>5 DEF SingleUpstreamCall
  <2>10. ASSUME NEW r \in Runs, NEW x \in Sessions, NEW i \in DOMAIN gen[r].steps,
                NEW a \in 1..MaxStepAttempts, StepHeartbeat(r, i, x, a)
         PROVE  \A s \in Runs : Kept(s)
    <3> DEFINE g == RefreshRun(gen[r])
    <3>1. i \in DOMAIN g.steps
      BY <2>0, SameSteps
    <3>2. RunningSteps([g EXCEPT !.steps[i].lease = "live"]) = RunningSteps(g)
      BY <2>0, <3>1, LeaseRunning
    <3>3. QED
      BY <2>0, <2>10, <3>2 DEF StepHeartbeat, ReconcileUser
  <2>11. ASSUME NEW r \in Runs, NEW x \in Sessions, NEW i \in DOMAIN gen[r].steps,
                NEW a \in 1..MaxStepAttempts, NEW answer \in Results, NEW fits \in BOOLEAN,
                SubmitResult(r, i, x, a, answer, fits)
         PROVE  \A s \in Runs : Kept(s)
    <3>1. RunningSteps(AcceptResult(RefreshRun(gen[r]), i, answer, fits))
             \subseteq RunningSteps(RefreshRun(gen[r]))
      BY <2>0, SameSteps, AcceptResultRunning
    <3>2. QED
      BY <2>0, <2>11, <3>1 DEF SubmitResult
  <2>12. ASSUME NEW r \in Runs, NEW x \in Sessions, NEW i \in DOMAIN gen[r].steps,
                NEW a \in 1..MaxStepAttempts, NEW refused \in BOOLEAN,
                SubmitError(r, i, x, a, refused)
         PROVE  \A s \in Runs : Kept(s)
    <3>1. RunningSteps(AcceptError(RefreshRun(gen[r]), i, refused))
             \subseteq RunningSteps(RefreshRun(gen[r]))
      BY <2>0, SameSteps, AcceptErrorRunning
    <3>2. QED
      BY <2>0, <2>12, <3>1 DEF SubmitError
  <2>13. CASE Maintain
    <3>1. \A r \in Runs : RunningSteps(Purge(ReconcileUser[r])) \subseteq RunningSteps(ReconcileUser[r])
      BY DEF Purge, NoRun, RunningSteps
    <3>2. \A r \in Runs : Kept(r)
      BY <2>0, <2>13, <3>1 DEF Maintain
    <3>3. QED
      BY <3>2, NoneStarted
  <2>14. CASE Clock
    <3>1. ASSUME NEW r \in Runs, RunDue(r) \/ RunAges(r)
          PROVE  \A s \in Runs : Kept(s)
      <4>1. /\ [gen[r] EXCEPT !.due = TRUE].steps = gen[r].steps
            /\ [gen[r] EXCEPT !.aged = TRUE].steps = gen[r].steps
        BY <2>0 DEF Run
      <4>2. \A s \in Runs : gen'[s].steps = gen[s].steps
        <5>1. CASE RunDue(r)
          BY <2>0, <4>1, <5>1 DEF RunDue
        <5>2. CASE RunAges(r)
          BY <2>0, <4>1, <5>2 DEF RunAges
        <5>3. QED
          BY <3>1, <5>1, <5>2
      <4>3. QED
        BY <4>2, SameRunning
    <3>2. ASSUME NEW r \in Runs, NEW i \in DOMAIN gen[r].steps, LeaseLapses(r, i)
          PROVE  \A s \in Runs : Kept(s)
      BY <2>0, <3>2, LeaseRunning DEF LeaseLapses
    <3>3. ASSUME NEW x \in Sessions, SessionExpires(x)
          PROVE  \A s \in Runs : Kept(s)
      BY <3>3 DEF SessionExpires
    <3>4. CASE DayTurns
      <4>0. \A r \in Runs : [gen[r] EXCEPT !.today = FALSE].steps = gen[r].steps
        BY <2>0 DEF Run
      <4>1. \A r \in Runs : Kept(r)
        <5>1. \A r \in Runs : gen'[r].steps = gen[r].steps
          BY <3>4, <4>0 DEF DayTurns
        <5>2. QED
          BY <5>1, SameRunning
      <4>2. QED
        BY <4>1, NoneStarted
    <3>5. QED
      BY <2>14, <3>1, <3>2, <3>3, <3>4, NoneStarted DEF Clock
  <2>15. CASE UNCHANGED vars
    BY <2>15, NoneStarted DEF vars
  <2>16. CASE SessionRequest
    BY <2>1, <2>2, <2>16, NoneStarted DEF SessionRequest
  <2>17. CASE UserRequest
    BY <2>3, <2>4, <2>5, <2>6, <2>7, <2>17, NoneStarted DEF UserRequest
  <2>18. CASE ClaimRequest
    BY <2>8, <2>9, <2>18, NoneStarted DEF ClaimRequest
  <2>19. CASE StepRequest
    BY <2>10, <2>11, <2>12, <2>19, NoneStarted DEF StepRequest
  <2>20. QED
    BY <2>13, <2>14, <2>15, <2>16, <2>17, <2>18, <2>19 DEF Next
<1>3. QED
  BY <1>1, <1>2, TypeCorrect, PTL DEF Spec

-----------------------------------------------------------------------------
\* One generation, before and after an operation.

\* What no operation on the steps touches.
SameHead(g, h) == /\ h.key = g.key /\ h.model = g.model
                  /\ h.due = g.due /\ h.today = g.today /\ h.aged = g.aged

\* The calls of the steps went no further: only texts may have changed.
SameCourse(g, h) ==
    /\ DOMAIN h.steps = DOMAIN g.steps
    /\ \A i \in DOMAIN g.steps :
          /\ h.steps[i].status = g.steps[i].status
          /\ h.steps[i].attempt = g.steps[i].attempt
          /\ h.steps[i].relay = g.steps[i].relay
          /\ h.steps[i].lease = g.steps[i].lease
          /\ h.steps[i].hash = g.steps[i].hash

\* No intermediate text is left.
NoText(g) == /\ g.plan = FALSE
             /\ \A i \in DOMAIN g.steps : g.steps[i].prompt = FALSE /\ g.steps[i].content = None

\* The steps without an answer are taken from their relay, for good.
CoursesEnded(g, h) ==
    /\ DOMAIN h.steps = DOMAIN g.steps
    /\ \A i \in DOMAIN g.steps :
          /\ h.steps[i].status = IF g.steps[i].status = "completed" THEN "completed" ELSE "cancelled"
          /\ h.steps[i].lease = IF g.steps[i].status = "completed" THEN g.steps[i].lease ELSE "none"
          /\ h.steps[i].attempt = g.steps[i].attempt
          /\ h.steps[i].relay = g.steps[i].relay
          /\ h.steps[i].hash = g.steps[i].hash

\* The calls of the steps "lost" are given up.
CallsLost(g, lost, h) ==
    /\ DOMAIN h.steps = DOMAIN g.steps
    /\ \A i \in DOMAIN g.steps :
          /\ h.steps[i].status = IF i \in lost THEN "uncertain" ELSE g.steps[i].status
          /\ h.steps[i].lease = IF i \in lost THEN "none" ELSE g.steps[i].lease
          /\ h.steps[i].attempt = g.steps[i].attempt
          /\ h.steps[i].relay = g.steps[i].relay
          /\ h.steps[i].hash = g.steps[i].hash
          /\ h.steps[i].prompt = g.steps[i].prompt
          /\ h.steps[i].content = g.steps[i].content

-----------------------------------------------------------------------------
\* What each operation of GenerationRuns makes of a generation, field by field.

\* erase_intermediate takes the texts away and nothing else.
LEMMA EraseFields ==
    ASSUME NEW g \in Run
    PROVE  LET h == EraseIntermediate(g) IN
           /\ SameHead(g, h) /\ SameCourse(g, h) /\ NoText(h)
           /\ h.status = g.status /\ h.relay = g.relay /\ h.result = g.result
<1> DEFINE h == EraseIntermediate(g)
<1>1. \A i \in DOMAIN g.steps : g.steps[i] \in Step
  BY StepsDomain
<1>2. /\ SameHead(g, h) /\ h.status = g.status /\ h.relay = g.relay
      /\ h.result = g.result /\ h.plan = FALSE
      /\ h.steps = [i \in DOMAIN g.steps |->
                      [g.steps[i] EXCEPT !.prompt = FALSE, !.content = None]]
  BY DEF EraseIntermediate, Run, SameHead
<1> HIDE DEF h
<1>3. ASSUME NEW i \in DOMAIN g.steps
      PROVE  /\ h.steps[i].status = g.steps[i].status
             /\ h.steps[i].attempt = g.steps[i].attempt
             /\ h.steps[i].relay = g.steps[i].relay
             /\ h.steps[i].lease = g.steps[i].lease
             /\ h.steps[i].hash = g.steps[i].hash
             /\ h.steps[i].prompt = FALSE /\ h.steps[i].content = None
  <2>1. h.steps[i] = [g.steps[i] EXCEPT !.prompt = FALSE, !.content = None]
    BY <1>2, <1>3
  <2>2. g.steps[i] \in Step
    BY <1>1, <1>3
  <2>3. QED
    BY <2>1, <2>2 DEF Step
<1>4. SameCourse(g, h) /\ NoText(h)
  BY <1>2, <1>3 DEF SameCourse, NoText
<1>5. QED
  BY <1>2, <1>4 DEF h

\* Expiry and cancellation end the steps and take the texts away.
LEMMA AbandonFields ==
    ASSUME NEW g \in Run, NEW st \in Terminal
    PROVE  LET h == Abandon(g, st) IN
           /\ SameHead(g, h) /\ CoursesEnded(g, h) /\ NoText(h)
           /\ h.status = st /\ h.relay = g.relay /\ h.result = g.result
<1> DEFINE ts == [i \in DOMAIN g.steps |->
                    IF g.steps[i].status = "completed" THEN g.steps[i]
                    ELSE [g.steps[i] EXCEPT !.status = "cancelled", !.lease = "none"]]
           k == [g EXCEPT !.status = st, !.steps = ts]
           h == EraseIntermediate(k)
<1>1. \A i \in DOMAIN g.steps : g.steps[i] \in Step
  BY StepsDomain
<1>2. ts \in Seq(Step)
  <2>1. ASSUME NEW i \in DOMAIN g.steps
        PROVE  ts[i] \in Step
    BY <1>1, <2>1 DEF Step
  <2>2. QED
    BY <2>1, StepMapType
<1>3. /\ k \in Run /\ SameHead(g, k) /\ k.status = st /\ k.relay = g.relay
      /\ k.result = g.result /\ k.steps = ts
  BY <1>2 DEF Run, SameHead
<1>4. h = Abandon(g, st)
  BY DEF Abandon
<1>5. CoursesEnded(g, k)
  <2>1. ASSUME NEW i \in DOMAIN g.steps
        PROVE  /\ k.steps[i].status = (IF g.steps[i].status = "completed" THEN "completed" ELSE "cancelled")
               /\ k.steps[i].lease = (IF g.steps[i].status = "completed" THEN g.steps[i].lease ELSE "none")
               /\ k.steps[i].attempt = g.steps[i].attempt
               /\ k.steps[i].relay = g.steps[i].relay
               /\ k.steps[i].hash = g.steps[i].hash
    <3>1. k.steps[i] = IF g.steps[i].status = "completed" THEN g.steps[i]
                       ELSE [g.steps[i] EXCEPT !.status = "cancelled", !.lease = "none"]
      BY <1>3, <2>1
    <3>2. g.steps[i] \in Step
      BY <1>1, <2>1
    <3> HIDE DEF k, ts
    <3>3. QED
      BY <3>1, <3>2 DEF Step
  <2>2. DOMAIN k.steps = DOMAIN g.steps
    BY <1>3
  <2> HIDE DEF k, ts
  <2>3. QED
    BY <2>1, <2>2 DEF CoursesEnded
<1> HIDE DEF k, ts
<1>6. /\ SameHead(k, h) /\ SameCourse(k, h) /\ NoText(h)
      /\ h.status = k.status /\ h.relay = k.relay /\ h.result = k.result
  BY <1>3, EraseFields
<1> HIDE DEF h
<1>7. CoursesEnded(g, h)
  BY <1>5, <1>6 DEF CoursesEnded, SameCourse
<1>8. SameHead(g, h)
  BY <1>3, <1>6 DEF SameHead
<1>9. QED
  BY <1>3, <1>4, <1>6, <1>7, <1>8

\* A failure takes the texts away.
LEMMA FailFields ==
    ASSUME NEW g \in Run
    PROVE  LET h == Fail(g) IN
           /\ SameHead(g, h) /\ SameCourse(g, h) /\ NoText(h)
           /\ h.status = "failed" /\ h.relay = g.relay /\ h.result = g.result
<1> DEFINE k == [g EXCEPT !.status = "failed"]
           h == EraseIntermediate(k)
<1>1. /\ k \in Run /\ SameHead(g, k) /\ k.status = "failed" /\ k.relay = g.relay
      /\ k.result = g.result /\ k.steps = g.steps
  BY DEF Run, Terminal, SameHead
<1>2. h = Fail(g)
  BY DEF Fail
<1> HIDE DEF k
<1>3. /\ SameHead(k, h) /\ SameCourse(k, h) /\ NoText(h)
      /\ h.status = k.status /\ h.relay = k.relay /\ h.result = k.result
  BY <1>1, EraseFields
<1> HIDE DEF h
<1>4. SameHead(g, h) /\ SameCourse(g, h)
  BY <1>1, <1>3 DEF SameHead, SameCourse
<1>5. QED
  BY <1>1, <1>2, <1>3, <1>4

\* A call whose outcome becomes unknown.
LEMMA MarkUncertainFields ==
    ASSUME NEW g \in Run, NEW lost, lost # {}
    PROVE  LET h == MarkUncertain(g, lost) IN
           /\ SameHead(g, h) /\ CallsLost(g, lost, h)
           /\ h.status = "uncertain" /\ h.relay = g.relay
           /\ h.result = g.result /\ h.plan = g.plan
<1> DEFINE h == MarkUncertain(g, lost)
<1>1. \A i \in DOMAIN g.steps : g.steps[i] \in Step
  BY StepsDomain
<1>2. /\ SameHead(g, h) /\ h.status = "uncertain" /\ h.relay = g.relay
      /\ h.result = g.result /\ h.plan = g.plan
      /\ h.steps = [i \in DOMAIN g.steps |->
                      IF i \in lost
                      THEN [g.steps[i] EXCEPT !.status = "uncertain", !.lease = "none"]
                      ELSE g.steps[i]]
  BY DEF MarkUncertain, Run, SameHead
<1> HIDE DEF h
<1>3. ASSUME NEW i \in DOMAIN g.steps
      PROVE  /\ h.steps[i].status = (IF i \in lost THEN "uncertain" ELSE g.steps[i].status)
             /\ h.steps[i].lease = (IF i \in lost THEN "none" ELSE g.steps[i].lease)
             /\ h.steps[i].attempt = g.steps[i].attempt
             /\ h.steps[i].relay = g.steps[i].relay
             /\ h.steps[i].hash = g.steps[i].hash
             /\ h.steps[i].prompt = g.steps[i].prompt
             /\ h.steps[i].content = g.steps[i].content
  <2>1. h.steps[i] = IF i \in lost
                     THEN [g.steps[i] EXCEPT !.status = "uncertain", !.lease = "none"]
                     ELSE g.steps[i]
    BY <1>2, <1>3
  <2>2. g.steps[i] \in Step
    BY <1>1, <1>3
  <2>3. QED
    BY <2>1, <2>2 DEF Step
<1>4. CallsLost(g, lost, h)
  BY <1>2, <1>3 DEF CallsLost
<1>5. QED
  BY <1>2, <1>4 DEF h

\* Only step i, and the status, have changed: it is s now.
StepReplaced(g, i, st, s, h) ==
    /\ SameHead(g, h) /\ h.status = st /\ h.relay = g.relay
    /\ h.result = g.result /\ h.plan = g.plan
    /\ DOMAIN h.steps = DOMAIN g.steps
    /\ h.steps[i] = s
    /\ \A j \in DOMAIN g.steps : j # i => h.steps[j] = g.steps[j]

\* One step replaced, and the status.
LEMMA OneStepFields ==
    ASSUME NEW g \in Run, NEW i \in DOMAIN g.steps, NEW st, NEW s
    PROVE  StepReplaced(g, i, st, s, [g EXCEPT !.status = st, !.steps[i] = s])
<1> DEFINE h == [g EXCEPT !.status = st, !.steps[i] = s]
<1>1. h = [g EXCEPT !.status = st, !.steps = [g.steps EXCEPT ![i] = s]]
  BY DEF Run
<1>2. g.steps \in [1..Len(g.steps) -> Step]
  BY StepsDomain
<1> HIDE DEF h
<1>3. StepReplaced(g, i, st, s, h)
  BY <1>1, <1>2 DEF Run, SameHead, StepReplaced
<1>4. QED
  BY <1>3 DEF h

-----------------------------------------------------------------------------
\* What holds of each generation by itself.

\* One generation of StepsInOrder.
InOrder(g) ==
    \A i \in DOMAIN g.steps :
        g.steps[i].attempt > 0 \/ g.steps[i].status \in {"running", "uncertain", "paused", "completed"} =>
            \A j \in 1..(i - 1) : g.steps[j].status = "completed"

\* One generation of StatusTellsSteps.
Has(g, st) == \E i \in DOMAIN g.steps : g.steps[i].status = st

Told(g) ==
    /\ Has(g, "running") <=> g.status = "running"
    /\ Has(g, "uncertain") <=> g.status = "uncertain"
    /\ Has(g, "paused") <=> g.status = "paused"
    /\ IsActive(g) => ~Has(g, "cancelled") /\ ~AllCompleted(g)
    /\ Exists(g) => (g.status = "completed" <=> AllCompleted(g))

\* One generation of TextKeptWhileNeeded.
Kept(g) ==
    /\ g.status \in Terminal =>
          /\ ~g.plan
          /\ \A i \in DOMAIN g.steps : ~g.steps[i].prompt /\ g.steps[i].content = None
    /\ IsActive(g) =>
          /\ g.plan
          /\ \A i \in DOMAIN g.steps :
                /\ g.steps[i].status = "completed" => g.steps[i].content # None
                /\ IsCurrent(g, i) => g.steps[i].prompt

\* The steps of BoundRelay.
Held(g) ==
    \A i \in DOMAIN g.steps :
        /\ g.steps[i].status = "running" => g.steps[i].relay = g.relay
        /\ g.steps[i].status = "running" <=> g.steps[i].lease # "none"

RunOK(g) == /\ InOrder(g) /\ Told(g) /\ Kept(g) /\ Held(g)
            /\ ~Exists(g) => g.steps = <<>>

\* A generation with no step in flight, as advance finds it.
Idle(g) ==
    /\ InOrder(g)
    /\ g.plan
    /\ \A i \in DOMAIN g.steps :
          /\ g.steps[i].status \in {"pending", "completed"}
          /\ g.steps[i].lease = "none"
          /\ g.steps[i].status = "completed" => g.steps[i].content # None

\* A generation whose steps are in order has at most one step in flight, and it
\* is the current one.
LEMMA InFlightIsCurrent ==
    ASSUME NEW g \in Run, InOrder(g), NEW i \in DOMAIN g.steps,
           g.steps[i].status \in {"running", "uncertain", "paused"}
    PROVE  /\ IsCurrent(g, i)
           /\ \A j \in DOMAIN g.steps : j < i => g.steps[j].status = "completed"
           /\ \A j \in DOMAIN g.steps : j > i =>
                 /\ g.steps[j].attempt = 0
                 /\ g.steps[j].status \in {"pending", "cancelled"}
<1>1. /\ DOMAIN g.steps = 1..Len(g.steps) /\ Len(g.steps) \in Nat
      /\ \A j \in DOMAIN g.steps : g.steps[j] \in Step
  BY StepsDomain
<1>2. \A j \in DOMAIN g.steps : j < i => g.steps[j].status = "completed"
  BY <1>1 DEF InOrder
<1>3. IsCurrent(g, i)
  BY <1>1, <1>2 DEF IsCurrent
<1>4. ASSUME NEW j \in DOMAIN g.steps, j > i
      PROVE  /\ g.steps[j].attempt = 0
             /\ g.steps[j].status \in {"pending", "cancelled"}
  <2>1. i \in 1..(j - 1) /\ g.steps[i].status # "completed"
    BY <1>1, <1>4
  <2>2. ~(g.steps[j].attempt > 0 \/ g.steps[j].status \in {"running", "uncertain", "paused", "completed"})
    BY <2>1 DEF InOrder
  <2>3. g.steps[j] \in Step
    BY <1>1
  <2>4. QED
    BY <2>2, <2>3, AttemptsAssumption DEF Step
<1>5. QED
  BY <1>2, <1>3, <1>4

\* The absence of a row.
LEMMA NoRunOK ==
    ASSUME NEW st \in {"absent", "purged"}
    PROVE  RunOK(NoRun(st))
  BY DEF NoRun, RunOK, InOrder, Told, Has, Kept, Held, Exists, IsActive, AllCompleted, Active, Terminal

\* What the course of the steps alone decides.
LEMMA SameCourseFacts ==
    ASSUME NEW g \in Run, NEW h, SameCourse(g, h)
    PROVE  /\ InOrder(g) => InOrder(h)
           /\ \A i : IsCurrent(h, i) <=> IsCurrent(g, i)
           /\ AllCompleted(h) <=> AllCompleted(g)
           /\ \A st : Has(h, st) <=> Has(g, st)
<1>0. /\ DOMAIN g.steps = 1..Len(g.steps) /\ Len(g.steps) \in Nat
      /\ DOMAIN h.steps = DOMAIN g.steps
      /\ \A i \in DOMAIN g.steps : /\ h.steps[i].status = g.steps[i].status
                                   /\ h.steps[i].attempt = g.steps[i].attempt
  BY StepsDomain DEF SameCourse
<1>1. ASSUME InOrder(g)
      PROVE  InOrder(h)
  <2>1. ASSUME NEW i \in DOMAIN g.steps,
               \/ h.steps[i].attempt > 0
               \/ h.steps[i].status \in {"running", "uncertain", "paused", "completed"},
               NEW j \in 1..(i - 1)
        PROVE  h.steps[j].status = "completed"
    <3>1. g.steps[j].status = "completed"
      BY <1>0, <1>1, <2>1 DEF InOrder
    <3>2. j \in DOMAIN g.steps
      BY <1>0, <2>1
    <3>3. QED
      BY <1>0, <3>1, <3>2
  <2>2. QED
    BY <1>0, <2>1 DEF InOrder
<1>2. ASSUME NEW i
      PROVE  IsCurrent(h, i) <=> IsCurrent(g, i)
  <2>1. CASE i \in DOMAIN g.steps
    <3>1. \A j \in 1..(i - 1) : j \in DOMAIN g.steps
      BY <1>0, <2>1
    <3>2. QED
      BY <1>0, <2>1, <3>1 DEF IsCurrent
  <2>2. CASE i \notin DOMAIN g.steps
    BY <1>0, <2>2 DEF IsCurrent
  <2>3. QED
    BY <2>1, <2>2
<1>3. AllCompleted(h) <=> AllCompleted(g)
  BY <1>0 DEF AllCompleted
<1>4. \A st : Has(h, st) <=> Has(g, st)
  BY <1>0 DEF Has
<1>5. QED
  BY <1>1, <1>2, <1>3, <1>4

\* Expiry and cancellation.
LEMMA AbandonOK ==
    ASSUME NEW g \in Run, RunOK(g), IsActive(g), NEW st \in {"expired", "cancelled"}
    PROVE  RunOK(Abandon(g, st))
<1> DEFINE h == Abandon(g, st)
<1>0. st \in Terminal
  BY DEF Terminal
<1>1. CoursesEnded(g, h) /\ NoText(h) /\ h.status = st /\ h.relay = g.relay
  BY <1>0, AbandonFields
<1>2. DOMAIN g.steps = 1..Len(g.steps) /\ Len(g.steps) \in Nat
  BY StepsDomain
<1> HIDE DEF h
<1>3. InOrder(h)
  <2>1. ASSUME NEW i \in DOMAIN g.steps,
               \/ h.steps[i].attempt > 0
               \/ h.steps[i].status \in {"running", "uncertain", "paused", "completed"},
               NEW j \in 1..(i - 1)
        PROVE  h.steps[j].status = "completed"
    <3>1. \/ g.steps[i].attempt > 0
          \/ g.steps[i].status \in {"running", "uncertain", "paused", "completed"}
      BY <1>1, <2>1 DEF CoursesEnded
    <3>2. g.steps[j].status = "completed"
      BY <2>1, <3>1 DEF InOrder, RunOK
    <3>3. j \in DOMAIN g.steps
      BY <1>2, <2>1
    <3>4. QED
      BY <1>1, <3>2, <3>3 DEF CoursesEnded
  <2>2. QED
    BY <1>1, <2>1 DEF InOrder, CoursesEnded
<1>4. Told(h)
  BY <1>1 DEF Told, Has, RunOK, IsActive, AllCompleted, Active, CoursesEnded
<1>5. Kept(h)
  BY <1>1 DEF Kept, IsActive, Active, NoText
<1>6. Held(h)
  BY <1>1 DEF Held, RunOK, CoursesEnded
<1>7. RunOK(h)
  BY <1>1, <1>3, <1>4, <1>5, <1>6 DEF RunOK, Exists
<1>8. QED
  BY <1>7 DEF h

\* A failure without a step in flight and with a step left.
LEMMA FailOK ==
    ASSUME NEW g \in Run, Idle(g), ~AllCompleted(g)
    PROVE  RunOK(Fail(g))
<1> DEFINE h == Fail(g)
<1>1. SameCourse(g, h) /\ NoText(h) /\ h.status = "failed"
  BY FailFields
<1> HIDE DEF h
<1>2. /\ InOrder(h) /\ ~AllCompleted(h)
      /\ \A st : Has(h, st) <=> Has(g, st)
  BY <1>1, SameCourseFacts DEF Idle
<1>3. Told(h)
  BY <1>1, <1>2 DEF Told, Has, Idle, IsActive, Active
<1>4. Kept(h)
  BY <1>1 DEF Kept, IsActive, Active, NoText
<1>5. Held(h)
  BY <1>1 DEF Held, Idle, SameCourse
<1>6. RunOK(h)
  BY <1>1, <1>2, <1>3, <1>4, <1>5 DEF RunOK, Exists
<1>7. QED
  BY <1>6 DEF h

\* A generation that waits for a relay is idle.
LEMMA WaitingIsIdle ==
    ASSUME NEW g \in Run, RunOK(g), g.status = "waiting_relay"
    PROVE  Idle(g) /\ ~AllCompleted(g)
<1>1. ASSUME NEW i \in DOMAIN g.steps
      PROVE  /\ g.steps[i].status \in {"pending", "completed"}
             /\ g.steps[i].lease = "none"
             /\ g.steps[i].status = "completed" => g.steps[i].content # None
  <2>1. g.steps[i] \in Step
    BY StepsDomain
  <2>2. QED
    BY <2>1 DEF RunOK, Told, Has, Kept, Held, IsActive, Active, Step
<1>2. QED
  BY <1>1 DEF Idle, RunOK, Kept, Told, IsActive, Active

\* A call whose outcome became unknown.
LEMMA MarkUncertainOK ==
    ASSUME NEW g \in Run, RunOK(g), IsActive(g), NEW lost \in SUBSET RunningSteps(g)
    PROVE  RunOK(MarkUncertain(g, lost))
<1>1. CASE lost = {}
  BY <1>1 DEF MarkUncertain
<1>2. CASE lost # {}
  <2> DEFINE h == MarkUncertain(g, lost)
  <2>0. /\ CallsLost(g, lost, h)
        /\ h.status = "uncertain" /\ h.relay = g.relay /\ h.plan = g.plan
    BY <1>2, MarkUncertainFields
  <2>1. /\ h.status = "uncertain" /\ h.relay = g.relay /\ h.plan = g.plan
        /\ DOMAIN h.steps = DOMAIN g.steps
        /\ \A i \in DOMAIN g.steps :
              /\ h.steps[i].status = (IF i \in lost THEN "uncertain" ELSE g.steps[i].status)
              /\ h.steps[i].lease = (IF i \in lost THEN "none" ELSE g.steps[i].lease)
              /\ h.steps[i].attempt = g.steps[i].attempt
              /\ h.steps[i].relay = g.steps[i].relay
              /\ h.steps[i].prompt = g.steps[i].prompt
              /\ h.steps[i].content = g.steps[i].content
    BY <2>0 DEF CallsLost
  <2>2. DOMAIN g.steps = 1..Len(g.steps) /\ Len(g.steps) \in Nat
    BY StepsDomain
  <2> HIDE DEF h
  <2>3. PICK k \in lost : TRUE
    BY <1>2
  <2>4. k \in DOMAIN g.steps /\ g.steps[k].status = "running"
    BY DEF RunningSteps
  <2>5. /\ \A j \in DOMAIN g.steps : j < k => g.steps[j].status = "completed"
        /\ \A j \in DOMAIN g.steps : j > k => g.steps[j].status \in {"pending", "cancelled"}
    BY <2>4, InFlightIsCurrent DEF RunOK
  <2>6. /\ \A j \in DOMAIN g.steps : g.steps[j].status = "running" => j = k
        /\ lost = {k}
    BY <2>2, <2>3, <2>4, <2>5 DEF RunningSteps
  <2>7. \A i \in DOMAIN g.steps : h.steps[i].status = "completed" <=> g.steps[i].status = "completed"
    BY <2>1, <2>4, <2>6
  <2>8. InOrder(h)
    <3>1. ASSUME NEW i \in DOMAIN g.steps,
                 \/ h.steps[i].attempt > 0
                 \/ h.steps[i].status \in {"running", "uncertain", "paused", "completed"},
                 NEW j \in 1..(i - 1)
          PROVE  h.steps[j].status = "completed"
      <4>1. \/ g.steps[i].attempt > 0
            \/ g.steps[i].status \in {"running", "uncertain", "paused", "completed"}
        BY <2>1, <2>4, <2>6, <3>1
      <4>2. g.steps[j].status = "completed"
        BY <3>1, <4>1 DEF InOrder, RunOK
      <4>3. j \in DOMAIN g.steps
        BY <2>2, <3>1
      <4>4. QED
        BY <2>7, <4>2, <4>3
    <3>2. QED
      BY <2>1, <3>1 DEF InOrder
  <2>9. g.status = "running"
    BY <2>4 DEF RunOK, Told, Has
  <2>10. Told(h)
    <3>1. ~Has(h, "running") /\ Has(h, "uncertain") /\ ~Has(h, "paused") /\ ~Has(h, "cancelled")
      BY <2>1, <2>4, <2>6, <2>9 DEF Told, Has, RunOK, IsActive, Active
    <3>2. ~AllCompleted(h)
      BY <2>1, <2>4, <2>7 DEF AllCompleted
    <3>3. QED
      BY <2>1, <3>1, <3>2 DEF Told
  <2>11. Kept(h)
    <3>1. \A i \in DOMAIN g.steps : IsCurrent(h, i) => IsCurrent(g, i)
      BY <2>1, <2>2, <2>7 DEF IsCurrent
    <3>2. QED
      BY <2>1, <2>7, <3>1 DEF Kept, RunOK, IsActive, Active, Terminal
  <2>12. Held(h)
    BY <2>1, <2>6 DEF Held, RunOK
  <2>13. RunOK(h)
    BY <2>1, <2>8, <2>10, <2>11, <2>12 DEF RunOK, Exists
  <2>14. QED
    BY <2>13 DEF h
<1>3. QED
  BY <1>1, <1>2

\* refresh_run.
LEMMA RefreshOK ==
    ASSUME NEW g \in Run, RunOK(g)
    PROVE  RunOK(RefreshRun(g))
<1>1. OverdueSteps(g) \in SUBSET RunningSteps(g)
  BY DEF OverdueSteps
<1>2. QED
  BY <1>1, AbandonOK, MarkUncertainOK DEF RefreshRun

\* advance's outcomes, field by field: all parts are answered ...
LEMMA DoneFields ==
    ASSUME NEW g \in Run, NEW fits, AllCompleted(g)
    PROVE  LET h == Advance(g, fits) IN
           /\ SameHead(g, h) /\ SameCourse(g, h) /\ NoText(h)
           /\ h.status = "completed" /\ h.relay = g.relay
           /\ h.result = [i \in DOMAIN g.steps |-> g.steps[i].content]
<1> DEFINE res == [i \in DOMAIN g.steps |-> g.steps[i].content]
           k == [g EXCEPT !.status = "completed", !.result = res]
           h == EraseIntermediate(k)
<1>1. res \in Seq(Results \cup {None})
  <2>1. \A i \in DOMAIN g.steps : g.steps[i] \in Step
    BY StepsDomain
  <2>2. QED
    BY <2>1, StepsDomain, SeqDef DEF Step
<1>2. /\ k \in Run /\ SameHead(g, k) /\ k.status = "completed" /\ k.relay = g.relay
      /\ k.result = res /\ k.steps = g.steps
  BY <1>1 DEF Run, Terminal, SameHead
<1>3. h = Advance(g, fits)
  BY DEF Advance
<1> HIDE DEF k
<1>4. /\ SameHead(k, h) /\ SameCourse(k, h) /\ NoText(h)
      /\ h.status = k.status /\ h.relay = k.relay /\ h.result = k.result
  BY <1>2, EraseFields
<1> HIDE DEF h
<1>5. SameHead(g, h) /\ SameCourse(g, h)
  BY <1>2, <1>4 DEF SameHead, SameCourse
<1>6. QED
  BY <1>2, <1>3, <1>4, <1>5

\* ... or the next one can be handed out, with its prompt.
LEMMA NextFields ==
    ASSUME NEW g \in Run, NEW fits, ~AllCompleted(g),
           fits \/ ~\E i \in DOMAIN g.steps : IsCurrent(g, i) /\ ~g.steps[i].prompt
    PROVE  LET h == Advance(g, fits) IN
           /\ SameHead(g, h) /\ SameCourse(g, h)
           /\ h.status = "waiting_relay" /\ h.relay = g.relay
           /\ h.plan = g.plan /\ h.result = g.result
           /\ \A i \in DOMAIN g.steps :
                 /\ h.steps[i].content = g.steps[i].content
                 /\ IsCurrent(g, i) => h.steps[i].prompt
<1> DEFINE h == Advance(g, fits)
<1>1. h = [g EXCEPT !.status = "waiting_relay",
                    !.steps = [i \in DOMAIN g.steps |->
                                 IF IsCurrent(g, i)
                                 THEN [g.steps[i] EXCEPT !.prompt = TRUE]
                                 ELSE g.steps[i]]]
  BY DEF Advance
<1> HIDE DEF h
<1>2. /\ SameHead(g, h) /\ h.status = "waiting_relay" /\ h.relay = g.relay
      /\ h.plan = g.plan /\ h.result = g.result
      /\ h.steps = [i \in DOMAIN g.steps |->
                      IF IsCurrent(g, i) THEN [g.steps[i] EXCEPT !.prompt = TRUE]
                      ELSE g.steps[i]]
  BY <1>1 DEF Run, SameHead
<1>3. ASSUME NEW i \in DOMAIN g.steps
      PROVE  /\ h.steps[i].status = g.steps[i].status
             /\ h.steps[i].attempt = g.steps[i].attempt
             /\ h.steps[i].relay = g.steps[i].relay
             /\ h.steps[i].lease = g.steps[i].lease
             /\ h.steps[i].hash = g.steps[i].hash
             /\ h.steps[i].content = g.steps[i].content
             /\ IsCurrent(g, i) => h.steps[i].prompt
  <2>1. h.steps[i] = IF IsCurrent(g, i) THEN [g.steps[i] EXCEPT !.prompt = TRUE]
                     ELSE g.steps[i]
    BY <1>2, <1>3
  <2>2. g.steps[i] \in Step
    BY StepsDomain, <1>3
  <2>3. QED
    BY <2>1, <2>2 DEF Step
<1>4. SameCourse(g, h)
  BY <1>2, <1>3 DEF SameCourse
<1>5. QED
  BY <1>2, <1>3, <1>4 DEF h

\* advance, of a generation with no step in flight.
LEMMA AdvanceOK ==
    ASSUME NEW g \in Run, Idle(g), NEW fits
    PROVE  RunOK(Advance(g, fits))
<1> DEFINE h == Advance(g, fits)
<1>1. CASE AllCompleted(g)
  <2>1. SameCourse(g, h) /\ NoText(h) /\ h.status = "completed"
    BY <1>1, DoneFields
  <2> HIDE DEF h
  <2>2. /\ InOrder(h) /\ AllCompleted(h)
        /\ \A st : Has(h, st) <=> Has(g, st)
    BY <1>1, <2>1, SameCourseFacts DEF Idle
  <2>3. Told(h)
    BY <2>1, <2>2 DEF Told, Has, Idle, IsActive, Active
  <2>4. Kept(h)
    BY <2>1 DEF Kept, IsActive, Active, NoText
  <2>5. Held(h)
    BY <2>1 DEF Held, Idle, SameCourse
  <2>6. RunOK(h)
    BY <2>1, <2>2, <2>3, <2>4, <2>5 DEF RunOK, Exists
  <2>7. QED
    BY <2>6 DEF h
<1>2. CASE /\ ~AllCompleted(g)
           /\ ~fits /\ \E i \in DOMAIN g.steps : IsCurrent(g, i) /\ ~g.steps[i].prompt
  BY <1>2, FailOK DEF Advance
<1>3. CASE /\ ~AllCompleted(g)
           /\ fits \/ ~\E i \in DOMAIN g.steps : IsCurrent(g, i) /\ ~g.steps[i].prompt
  <2>1. /\ SameCourse(g, h) /\ h.status = "waiting_relay" /\ h.plan = g.plan
        /\ \A i \in DOMAIN g.steps :
              /\ h.steps[i].content = g.steps[i].content
              /\ IsCurrent(g, i) => h.steps[i].prompt
    BY <1>3, NextFields
  <2> HIDE DEF h
  <2>2. /\ InOrder(h) /\ ~AllCompleted(h)
        /\ \A st : Has(h, st) <=> Has(g, st)
        /\ \A i : IsCurrent(h, i) <=> IsCurrent(g, i)
    BY <1>3, <2>1, SameCourseFacts DEF Idle
  <2>3. Told(h)
    BY <2>1, <2>2 DEF Told, Has, Idle, IsActive, Active
  <2>4. Kept(h)
    BY <2>1, <2>2 DEF Kept, Idle, IsActive, Active, Terminal, SameCourse
  <2>5. Held(h)
    BY <2>1 DEF Held, Idle, SameCourse
  <2>6. RunOK(h)
    BY <2>1, <2>2, <2>3, <2>4, <2>5 DEF RunOK, Exists
  <2>7. QED
    BY <2>6 DEF h
<1>4. QED
  BY <1>1, <1>2, <1>3

\* A new generation starts with no attempt, and with the prompts of its plan.
LEMMA CreateRunOK ==
    ASSUME NEW k \in Keys, NEW m \in Models, NEW x \in Sessions, NEW p \in Plans
    PROVE  LET h == CreateRun(k, m, x, p) IN
           /\ RunOK(h) /\ h.key = k /\ h.model = m /\ h.relay = x /\ ~h.due /\ Exists(h)
           /\ DOMAIN h.steps = DOMAIN p
           /\ \A i \in DOMAIN h.steps : h.steps[i].attempt = 0 /\ h.steps[i].hash = None
           /\ \A i \in DOMAIN h.steps : h.steps[i].status # "completed"
<1> DEFINE t == [i \in DOMAIN p |-> NewStep(p[i])]
           g == [status |-> "waiting_relay", key |-> k, model |-> m, relay |-> x,
                 due |-> FALSE, today |-> TRUE, aged |-> FALSE,
                 plan |-> TRUE, result |-> None, steps |-> t]
           h == CreateRun(k, m, x, p)
<1>0. p \in Seq(BOOLEAN) /\ \A i \in 1..Len(p) : ~p[i] => i = Len(p) /\ i > 1
  BY PlansAssumption
<1>1. DOMAIN p = 1..Len(p) /\ Len(p) \in Nat
  BY <1>0, LenProperties
<1>2. t \in [1..Len(p) -> Step]
  BY <1>0, LenProperties, AttemptsAssumption DEF NewStep, Step
<1>3. g \in Run
  BY <1>1, <1>2, StepsType DEF Run, Active
<1>4. \A i \in DOMAIN p : /\ t[i].status = "pending" /\ t[i].attempt = 0 /\ t[i].lease = "none"
                          /\ t[i].prompt = p[i] /\ t[i].hash = None
  BY DEF NewStep
<1>5. /\ g.status = "waiting_relay" /\ g.key = k /\ g.model = m /\ g.relay = x
      /\ g.due = FALSE /\ g.plan = TRUE /\ g.steps = t /\ DOMAIN t = DOMAIN p
  OBVIOUS
<1>6. h = IF p = <<>> THEN Advance(g, TRUE) ELSE g
  BY DEF CreateRun
<1> HIDE DEF g, t, h
<1>7. \A i \in DOMAIN g.steps : /\ g.steps[i].status = "pending" /\ g.steps[i].attempt = 0
                                /\ g.steps[i].lease = "none" /\ g.steps[i].prompt = p[i]
                                /\ g.steps[i].hash = None
  BY <1>4, <1>5
<1>8. InOrder(g)
  BY <1>5, <1>7 DEF InOrder
<1>9. CASE p = <<>>
  <2>1. DOMAIN g.steps = {}
    BY <1>1, <1>5, <1>9
  <2>2. Idle(g) /\ AllCompleted(g)
    BY <1>5, <1>8, <2>1 DEF Idle, AllCompleted
  <2>3. RunOK(Advance(g, TRUE))
    BY <1>3, <2>2, AdvanceOK
  <2>4. /\ SameHead(g, Advance(g, TRUE)) /\ SameCourse(g, Advance(g, TRUE))
        /\ Advance(g, TRUE).status = "completed" /\ Advance(g, TRUE).relay = g.relay
    BY <1>3, <2>2, DoneFields
  <2>5. QED
    BY <1>5, <1>6, <1>9, <2>1, <2>3, <2>4 DEF SameHead, SameCourse, Exists, h
<1>10. CASE p # <<>>
  <2>0. Len(p) # 0
    BY <1>0, <1>10, EmptySeq
  <2>1. h = g /\ 1 \in DOMAIN p
    BY <1>1, <1>6, <1>10, <2>0
  <2>2. Told(g)
    BY <1>5, <1>7, <2>1 DEF Told, Has, IsActive, Active, AllCompleted
  <2>3. ASSUME NEW i \in DOMAIN g.steps, IsCurrent(g, i)
        PROVE  g.steps[i].prompt
    <3>1. i = 1
      <4>1. g.steps[1].status # "completed"
        BY <1>5, <1>7, <2>1
      <4>2. \A j \in 1..(i - 1) : g.steps[j].status = "completed"
        BY <2>3 DEF IsCurrent
      <4>3. i \in 1..Len(p)
        BY <1>1, <1>5
      <4>4. i # 1 => 1 \in 1..(i - 1)
        BY <1>1, <4>3
      <4>5. QED
        BY <4>1, <4>2, <4>4
    <3>2. p[1]
      <4>1. 1 \in 1..Len(p) /\ ~(1 > 1)
        BY <1>1, <2>1
      <4>2. QED
        BY <1>0, <4>1
    <3>3. g.steps[1].prompt = p[1]
      BY <1>5, <1>7, <2>1
    <3>4. QED
      BY <3>1, <3>2, <3>3
  <2>4. Kept(g)
    BY <1>5, <1>7, <2>3 DEF Kept, Terminal, IsActive, Active
  <2>5. Held(g)
    BY <1>5, <1>7 DEF Held
  <2>6. RunOK(g)
    BY <1>5, <1>8, <2>2, <2>4, <2>5 DEF RunOK, Exists
  <2>7. QED
    BY <1>5, <1>7, <2>1, <2>6 DEF Exists, h
<1>11. QED
  BY <1>9, <1>10

\* claim: the step in hand is running, under a lease of relay x.
LEMMA ClaimFields ==
    ASSUME NEW g \in Run, NEW i \in DOMAIN g.steps, NEW x
    PROVE  LET h == ClaimStep(g, i, x) IN
           /\ SameHead(g, h) /\ h.status = "running" /\ h.relay = g.relay
           /\ h.result = g.result /\ h.plan = g.plan
           /\ DOMAIN h.steps = DOMAIN g.steps
           /\ h.steps[i].status = "running" /\ h.steps[i].attempt = g.steps[i].attempt + 1
           /\ h.steps[i].relay = x /\ h.steps[i].lease = "live"
           /\ h.steps[i].prompt = g.steps[i].prompt
           /\ h.steps[i].content = g.steps[i].content /\ h.steps[i].hash = g.steps[i].hash
           /\ \A j \in DOMAIN g.steps : j # i => h.steps[j] = g.steps[j]
<1> DEFINE s == [g.steps[i] EXCEPT !.status = "running", !.attempt = @ + 1,
                                   !.relay = x, !.lease = "live"]
           h == ClaimStep(g, i, x)
<1>1. h = [g EXCEPT !.status = "running", !.steps[i] = s]
  BY DEF ClaimStep
<1>2. g.steps[i] \in Step
  BY StepsDomain
<1>3. /\ s.status = "running" /\ s.attempt = g.steps[i].attempt + 1
      /\ s.relay = x /\ s.lease = "live" /\ s.prompt = g.steps[i].prompt
      /\ s.content = g.steps[i].content /\ s.hash = g.steps[i].hash
  BY <1>2 DEF Step
<1> HIDE DEF s, h
<1>4. StepReplaced(g, i, "running", s, h)
  <2>1. StepReplaced(g, i, "running", s, [g EXCEPT !.status = "running", !.steps[i] = s])
    BY OneStepFields
  <2>2. QED
    BY <1>1, <2>1
<1>5. /\ SameHead(g, h) /\ h.status = "running" /\ h.relay = g.relay
      /\ h.result = g.result /\ h.plan = g.plan
      /\ DOMAIN h.steps = DOMAIN g.steps /\ h.steps[i] = s
      /\ \A j \in DOMAIN g.steps : j # i => h.steps[j] = g.steps[j]
  BY <1>4 DEF StepReplaced
<1>6. QED
  BY <1>3, <1>5 DEF h

\* claim hands out the current step of a waiting generation, to its own relay.
LEMMA ClaimOK ==
    ASSUME NEW g \in Run, RunOK(g), NEW i, Claimable(g, i)
    PROVE  RunOK(ClaimStep(g, i, g.relay))
<1> DEFINE h == ClaimStep(g, i, g.relay)
<1>0. /\ i \in DOMAIN g.steps /\ g.steps[i].status = "pending" /\ IsCurrent(g, i)
      /\ g.status = "waiting_relay"
  BY DEF Claimable, IsCurrent
<1>1. /\ h.status = "running" /\ h.relay = g.relay /\ h.plan = g.plan
      /\ DOMAIN h.steps = DOMAIN g.steps
      /\ h.steps[i].status = "running" /\ h.steps[i].relay = g.relay
      /\ h.steps[i].lease = "live" /\ h.steps[i].prompt = g.steps[i].prompt
      /\ \A j \in DOMAIN g.steps : j # i => h.steps[j] = g.steps[j]
  BY <1>0, ClaimFields
<1>2. DOMAIN g.steps = 1..Len(g.steps) /\ Len(g.steps) \in Nat
  BY StepsDomain
<1>3. Idle(g) /\ ~AllCompleted(g)
  BY <1>0, WaitingIsIdle
<1> HIDE DEF h
<1>4. \A j \in DOMAIN g.steps : h.steps[j].status = "completed" <=> g.steps[j].status = "completed"
  BY <1>0, <1>1
<1>5. InOrder(h)
  <2>1. ASSUME NEW j \in DOMAIN g.steps,
               \/ h.steps[j].attempt > 0
               \/ h.steps[j].status \in {"running", "uncertain", "paused", "completed"},
               NEW l \in 1..(j - 1)
        PROVE  h.steps[l].status = "completed"
    <3>1. g.steps[l].status = "completed"
      <4>1. CASE j = i
        BY <1>0, <2>1, <4>1 DEF IsCurrent
      <4>2. CASE j # i
        BY <1>1, <1>3, <2>1, <4>2 DEF InOrder, Idle
      <4>3. QED
        BY <4>1, <4>2
    <3>2. l \in DOMAIN g.steps
      BY <1>2, <2>1
    <3>3. QED
      BY <1>4, <3>1, <3>2
  <2>2. QED
    BY <1>1, <2>1 DEF InOrder
<1>6. Told(h)
  BY <1>0, <1>1, <1>3, <1>4 DEF Told, Has, Idle, IsActive, Active, AllCompleted
<1>7. Kept(h)
  <2>1. \A j \in DOMAIN g.steps : IsCurrent(h, j) => IsCurrent(g, j)
    BY <1>1, <1>2, <1>4 DEF IsCurrent
  <2>2. Kept(g)
    BY DEF RunOK
  <2>3. \A j \in DOMAIN g.steps :
           /\ g.steps[j].status = "completed" => g.steps[j].content # None
           /\ IsCurrent(g, j) => g.steps[j].prompt
    BY <1>0, <2>2 DEF Kept, IsActive, Active
  <2>4. \A j \in DOMAIN g.steps :
           /\ h.steps[j].status = "completed" => h.steps[j].content # None
           /\ IsCurrent(h, j) => h.steps[j].prompt
    BY <1>0, <1>1, <2>1, <2>3
  <2>5. QED
    BY <1>1, <1>3, <2>4 DEF Kept, Terminal, Idle
<1>8. Held(h)
  BY <1>1, <1>3 DEF Held, Idle
<1>9. RunOK(h)
  BY <1>1, <1>5, <1>6, <1>7, <1>8 DEF RunOK, Exists
<1>10. QED
  BY <1>9 DEF h

\* The step that is answered, before advance looks at what is left.
WithAnswer(g, i, answer) ==
    [g EXCEPT !.steps[i] = [g.steps[i] EXCEPT !.status = "completed", !.lease = "none",
                                              !.content = answer, !.hash = answer]]

\* The answered step, field by field: no other step has changed.
LEMMA AnsweredFields ==
    ASSUME NEW g \in Run, NEW i \in DOMAIN g.steps, NEW answer \in Results
    PROVE  LET h == WithAnswer(g, i, answer) IN
           /\ h \in Run /\ SameHead(g, h) /\ h.status = g.status /\ h.relay = g.relay
           /\ h.result = g.result /\ h.plan = g.plan
           /\ DOMAIN h.steps = DOMAIN g.steps
           /\ h.steps[i].status = "completed" /\ h.steps[i].attempt = g.steps[i].attempt
           /\ h.steps[i].lease = "none" /\ h.steps[i].content = answer
           /\ h.steps[i].hash = answer /\ h.steps[i].relay = g.steps[i].relay
           /\ \A j \in DOMAIN g.steps : j # i => h.steps[j] = g.steps[j]
<1> DEFINE s == [g.steps[i] EXCEPT !.status = "completed", !.lease = "none",
                                   !.content = answer, !.hash = answer]
           h == WithAnswer(g, i, answer)
<1>0. g.steps[i] \in Step
  BY StepsDomain
<1>1. s \in Step
  BY <1>0 DEF Step
<1>2. [g.steps EXCEPT ![i] = s] \in Seq(Step)
  BY <1>1, StepsDomain, ExceptSeq DEF Run
<1>3. /\ s.status = "completed" /\ s.attempt = g.steps[i].attempt /\ s.lease = "none"
      /\ s.content = answer /\ s.hash = answer /\ s.relay = g.steps[i].relay
  BY <1>0 DEF Step
<1>4. h = [g EXCEPT !.steps = [g.steps EXCEPT ![i] = s]]
  BY DEF WithAnswer, Run
<1> HIDE DEF s, h
<1>5. /\ h \in Run /\ SameHead(g, h) /\ h.status = g.status /\ h.relay = g.relay
      /\ h.result = g.result /\ h.plan = g.plan
      /\ h.steps = [g.steps EXCEPT ![i] = s]
  BY <1>2, <1>4 DEF Run, SameHead
<1>6. /\ DOMAIN h.steps = DOMAIN g.steps /\ h.steps[i] = s
      /\ \A j \in DOMAIN g.steps : j # i => h.steps[j] = g.steps[j]
  BY <1>5, StepsDomain
<1>7. QED
  BY <1>3, <1>5, <1>6 DEF h

\* submit_result accepts the answer to the running step: none is left in flight.
LEMMA AnsweredIdle ==
    ASSUME NEW g \in Run, RunOK(g), NEW i \in RunningSteps(g), NEW answer \in Results
    PROVE  Idle(WithAnswer(g, i, answer))
<1> DEFINE h == WithAnswer(g, i, answer)
<1>0. i \in DOMAIN g.steps /\ g.steps[i].status = "running"
  BY DEF RunningSteps
<1>1. /\ h.plan = g.plan
      /\ DOMAIN h.steps = DOMAIN g.steps
      /\ h.steps[i].status = "completed" /\ h.steps[i].content = answer
      /\ h.steps[i].lease = "none"
      /\ \A j \in DOMAIN g.steps : j # i => h.steps[j] = g.steps[j]
  BY <1>0, AnsweredFields
<1> HIDE DEF h
<1>2. /\ DOMAIN g.steps = 1..Len(g.steps) /\ Len(g.steps) \in Nat
      /\ \A j \in DOMAIN g.steps : g.steps[j] \in Step
  BY StepsDomain
<1>3. /\ \A j \in DOMAIN g.steps : j < i => g.steps[j].status = "completed"
      /\ \A j \in DOMAIN g.steps : j > i => /\ g.steps[j].attempt = 0
                                            /\ g.steps[j].status \in {"pending", "cancelled"}
  BY <1>0, InFlightIsCurrent DEF RunOK
<1>4. IsActive(g) /\ ~Has(g, "cancelled")
  BY <1>0 DEF RunOK, Told, Has, IsActive, Active
<1>5. \A j \in DOMAIN g.steps : j > i => g.steps[j].attempt = 0 /\ g.steps[j].status = "pending"
  BY <1>3, <1>4 DEF Has
<1>6. \A j \in DOMAIN g.steps : j <= i => h.steps[j].status = "completed"
  BY <1>0, <1>1, <1>2, <1>3
<1>7. InOrder(h)
  <2>1. ASSUME NEW j \in DOMAIN g.steps,
               \/ h.steps[j].attempt > 0
               \/ h.steps[j].status \in {"running", "uncertain", "paused", "completed"},
               NEW l \in 1..(j - 1)
        PROVE  h.steps[l].status = "completed"
    <3>1. ~(j > i)
      <4>1. SUFFICES ASSUME j > i PROVE FALSE
        OBVIOUS
      <4>2. h.steps[j] = g.steps[j]
        BY <1>0, <1>1, <1>2, <4>1
      <4>3. g.steps[j].attempt = 0 /\ g.steps[j].status = "pending"
        BY <1>5, <4>1
      <4>4. QED
        BY <2>1, <4>2, <4>3
    <3>2. l \in DOMAIN g.steps /\ l <= i
      BY <1>0, <1>2, <2>1, <3>1
    <3>3. QED
      BY <1>6, <3>2
  <2>2. QED
    BY <1>1, <2>1 DEF InOrder
<1>8. g.plan /\ \A j \in DOMAIN g.steps : g.steps[j].status = "completed" => g.steps[j].content # None
  BY <1>4 DEF RunOK, Kept
<1>9. ASSUME NEW j \in DOMAIN g.steps
      PROVE  /\ h.steps[j].status \in {"pending", "completed"}
             /\ h.steps[j].lease = "none"
             /\ h.steps[j].status = "completed" => h.steps[j].content # None
  <2>1. CASE j = i
    BY <1>1, <2>1, NoneAssumption
  <2>2. CASE j # i
    <3>1. h.steps[j] = g.steps[j]
      BY <1>1, <2>2
    <3>2. g.steps[j].status \in {"pending", "completed"}
      BY <1>0, <1>2, <1>3, <1>5, <2>2
    <3>3. g.steps[j].lease = "none"
      BY <3>2 DEF RunOK, Held
    <3>4. QED
      BY <1>8, <3>1, <3>2, <3>3
  <2>3. QED
    BY <2>1, <2>2
<1>10. Idle(h)
  BY <1>1, <1>7, <1>8, <1>9 DEF Idle
<1>11. QED
  BY <1>10 DEF h

\* submit_result, of the answer to the running step.
LEMMA AcceptResultOK ==
    ASSUME NEW g \in Run, RunOK(g), NEW i \in RunningSteps(g), NEW answer \in Results, NEW fits
    PROVE  RunOK(AcceptResult(g, i, answer, fits))
<1>1. i \in DOMAIN g.steps
  BY DEF RunningSteps
<1>2. WithAnswer(g, i, answer) \in Run /\ Idle(WithAnswer(g, i, answer))
  BY <1>1, AnsweredFields, AnsweredIdle
<1>3. AcceptResult(g, i, answer, fits) = Advance(WithAnswer(g, i, answer), fits)
  BY DEF AcceptResult, WithAnswer
<1>4. QED
  BY <1>2, <1>3, AdvanceOK

\* submit_error, field by field.
LEMMA ErrorFields ==
    ASSUME NEW g \in Run, NEW i \in DOMAIN g.steps, NEW refused
    PROVE  LET h == AcceptError(g, i, refused)
               st == IF refused THEN "paused" ELSE "uncertain" IN
           /\ SameHead(g, h) /\ h.status = st /\ h.relay = g.relay
           /\ h.result = g.result /\ h.plan = g.plan
           /\ DOMAIN h.steps = DOMAIN g.steps
           /\ h.steps[i].status = st /\ h.steps[i].attempt = g.steps[i].attempt
           /\ h.steps[i].lease = "none" /\ h.steps[i].prompt = g.steps[i].prompt
           /\ h.steps[i].relay = g.steps[i].relay
           /\ h.steps[i].content = g.steps[i].content /\ h.steps[i].hash = g.steps[i].hash
           /\ \A j \in DOMAIN g.steps : j # i => h.steps[j] = g.steps[j]
<1> DEFINE st == IF refused THEN "paused" ELSE "uncertain"
           s == [g.steps[i] EXCEPT !.status = st, !.lease = "none"]
           h == AcceptError(g, i, refused)
<1>1. h = [g EXCEPT !.status = st, !.steps[i] = s]
  BY DEF AcceptError
<1>2. g.steps[i] \in Step
  BY StepsDomain
<1>3. /\ s.status = st /\ s.attempt = g.steps[i].attempt /\ s.lease = "none"
      /\ s.prompt = g.steps[i].prompt /\ s.relay = g.steps[i].relay
      /\ s.content = g.steps[i].content /\ s.hash = g.steps[i].hash
  BY <1>2 DEF Step
<1> HIDE DEF s, h, st
<1>4. StepReplaced(g, i, st, s, h)
  <2>1. StepReplaced(g, i, st, s, [g EXCEPT !.status = st, !.steps[i] = s])
    BY OneStepFields
  <2>2. QED
    BY <1>1, <2>1
<1>5. /\ SameHead(g, h) /\ h.status = st /\ h.relay = g.relay
      /\ h.result = g.result /\ h.plan = g.plan
      /\ DOMAIN h.steps = DOMAIN g.steps /\ h.steps[i] = s
      /\ \A j \in DOMAIN g.steps : j # i => h.steps[j] = g.steps[j]
  BY <1>4 DEF StepReplaced
<1>6. QED
  BY <1>3, <1>5 DEF h, st

\* submit_error, of the running step.
LEMMA AcceptErrorOK ==
    ASSUME NEW g \in Run, RunOK(g), NEW i \in RunningSteps(g), NEW refused
    PROVE  RunOK(AcceptError(g, i, refused))
<1> DEFINE h == AcceptError(g, i, refused)
           st == IF refused THEN "paused" ELSE "uncertain"
<1>0. i \in DOMAIN g.steps /\ g.steps[i].status = "running"
  BY DEF RunningSteps
<1>1. /\ h.status = st /\ h.relay = g.relay /\ h.plan = g.plan
      /\ DOMAIN h.steps = DOMAIN g.steps
      /\ h.steps[i].status = st /\ h.steps[i].lease = "none"
      /\ h.steps[i].prompt = g.steps[i].prompt
      /\ \A j \in DOMAIN g.steps : j # i => h.steps[j] = g.steps[j]
  BY <1>0, ErrorFields
<1>2. st \in {"paused", "uncertain"}
  OBVIOUS
<1> HIDE DEF h, st
<1>3. DOMAIN g.steps = 1..Len(g.steps) /\ Len(g.steps) \in Nat
  BY StepsDomain
<1>4. /\ IsCurrent(g, i)
      /\ \A j \in DOMAIN g.steps : j < i => g.steps[j].status = "completed"
      /\ \A j \in DOMAIN g.steps : j > i => g.steps[j].status \in {"pending", "cancelled"}
  BY <1>0, InFlightIsCurrent DEF RunOK
<1>5. /\ g.status = "running" /\ IsActive(g)
      /\ ~Has(g, "cancelled") /\ ~Has(g, "uncertain") /\ ~Has(g, "paused")
  BY <1>0 DEF RunOK, Told, Has, IsActive, Active
<1>6. \A j \in DOMAIN g.steps : h.steps[j].status = "completed" <=> g.steps[j].status = "completed"
  BY <1>0, <1>1, <1>2
<1>7. InOrder(h)
  <2>1. ASSUME NEW j \in DOMAIN g.steps,
               \/ h.steps[j].attempt > 0
               \/ h.steps[j].status \in {"running", "uncertain", "paused", "completed"},
               NEW l \in 1..(j - 1)
        PROVE  h.steps[l].status = "completed"
    <3>1. g.steps[l].status = "completed"
      <4>1. CASE j = i
        BY <1>4, <2>1, <4>1 DEF IsCurrent
      <4>2. CASE j # i
        BY <1>1, <2>1, <4>2 DEF InOrder, RunOK
      <4>3. QED
        BY <4>1, <4>2
    <3>2. l \in DOMAIN g.steps
      BY <1>3, <2>1
    <3>3. QED
      BY <1>6, <3>1, <3>2
  <2>2. QED
    BY <1>1, <2>1 DEF InOrder
<1>8. Told(h)
  <2>1. \A j \in DOMAIN g.steps : j # i => h.steps[j].status \notin {"running", "uncertain", "paused", "cancelled"}
    <3>1. ASSUME NEW j \in DOMAIN g.steps, j # i
          PROVE  h.steps[j].status \notin {"running", "uncertain", "paused", "cancelled"}
      <4>1. g.steps[j].status \in {"completed", "pending", "cancelled"}
        BY <1>0, <1>3, <1>4, <3>1
      <4>2. QED
        BY <1>1, <1>5, <3>1, <4>1 DEF Has
    <3>2. QED
      BY <3>1
  <2>2. /\ ~Has(h, "running") /\ ~Has(h, "cancelled")
        /\ Has(h, "uncertain") <=> st = "uncertain"
        /\ Has(h, "paused") <=> st = "paused"
    BY <1>0, <1>1, <1>2, <2>1 DEF Has
  <2>3. ~AllCompleted(h)
    BY <1>0, <1>1, <1>2 DEF AllCompleted
  <2>4. QED
    BY <1>1, <1>2, <2>2, <2>3 DEF Told
<1>9. Kept(h)
  <2>1. \A j \in DOMAIN g.steps : IsCurrent(h, j) => IsCurrent(g, j)
    BY <1>1, <1>3, <1>6 DEF IsCurrent
  <2>2. g.plan /\ \A j \in DOMAIN g.steps :
           /\ g.steps[j].status = "completed" => g.steps[j].content # None
           /\ IsCurrent(g, j) => g.steps[j].prompt
    BY <1>5 DEF RunOK, Kept
  <2>3. \A j \in DOMAIN g.steps :
           /\ h.steps[j].status = "completed" => h.steps[j].content # None
           /\ IsCurrent(h, j) => h.steps[j].prompt
    BY <1>1, <1>2, <2>1, <2>2
  <2>4. QED
    BY <1>1, <1>2, <2>2, <2>3 DEF Kept, Terminal
<1>10. Held(h)
  BY <1>1, <1>2 DEF Held, RunOK
<1>11. RunOK(h)
  BY <1>1, <1>2, <1>7, <1>8, <1>9, <1>10 DEF RunOK, Exists
<1>12. QED
  BY <1>11 DEF h

\* resume_generation, field by field.
LEMMA ResumeFields ==
    ASSUME NEW g \in Run, NEW x
    PROVE  LET h == Resume(g, x) IN
           /\ SameHead(g, h) /\ h.status = "waiting_relay" /\ h.relay = x
           /\ h.result = g.result /\ h.plan = g.plan
           /\ DOMAIN h.steps = DOMAIN g.steps
           /\ \A i \in DOMAIN g.steps :
                 IF g.steps[i].status = "completed" THEN h.steps[i] = g.steps[i]
                 ELSE /\ h.steps[i].status = "pending" /\ h.steps[i].lease = "none"
                      /\ h.steps[i].attempt = g.steps[i].attempt
                      /\ h.steps[i].prompt = g.steps[i].prompt
                      /\ h.steps[i].content = g.steps[i].content
                      /\ h.steps[i].hash = g.steps[i].hash
<1> DEFINE h == Resume(g, x)
<1>1. h = [g EXCEPT !.status = "waiting_relay", !.relay = x,
              !.steps = [i \in DOMAIN g.steps |->
                           IF g.steps[i].status = "completed" THEN g.steps[i]
                           ELSE [g.steps[i] EXCEPT !.status = "pending",
                                                   !.lease = "none", !.relay = None]]]
  BY DEF Resume
<1> HIDE DEF h
<1>2. /\ SameHead(g, h) /\ h.status = "waiting_relay" /\ h.relay = x
      /\ h.result = g.result /\ h.plan = g.plan
      /\ h.steps = [i \in DOMAIN g.steps |->
                      IF g.steps[i].status = "completed" THEN g.steps[i]
                      ELSE [g.steps[i] EXCEPT !.status = "pending",
                                              !.lease = "none", !.relay = None]]
  BY <1>1 DEF Run, SameHead
<1>3. ASSUME NEW i \in DOMAIN g.steps
      PROVE  IF g.steps[i].status = "completed" THEN h.steps[i] = g.steps[i]
             ELSE /\ h.steps[i].status = "pending" /\ h.steps[i].lease = "none"
                  /\ h.steps[i].attempt = g.steps[i].attempt
                  /\ h.steps[i].prompt = g.steps[i].prompt
                  /\ h.steps[i].content = g.steps[i].content
                  /\ h.steps[i].hash = g.steps[i].hash
  <2>1. h.steps[i] = IF g.steps[i].status = "completed" THEN g.steps[i]
                     ELSE [g.steps[i] EXCEPT !.status = "pending",
                                             !.lease = "none", !.relay = None]
    BY <1>2, <1>3
  <2>2. g.steps[i] \in Step
    BY StepsDomain, <1>3
  <2>3. QED
    BY <2>1, <2>2 DEF Step
<1>4. DOMAIN h.steps = DOMAIN g.steps
  BY <1>2
<1>5. QED
  BY <1>2, <1>3, <1>4 DEF h

\* resume_generation, of a generation in progress.
LEMMA ResumeOK ==
    ASSUME NEW g \in Run, RunOK(g), IsActive(g), NEW x
    PROVE  RunOK(Resume(g, x))
<1> DEFINE h == Resume(g, x)
<1>1. /\ h.status = "waiting_relay" /\ h.relay = x /\ h.plan = g.plan
      /\ DOMAIN h.steps = DOMAIN g.steps
      /\ \A i \in DOMAIN g.steps :
            IF g.steps[i].status = "completed" THEN h.steps[i] = g.steps[i]
            ELSE /\ h.steps[i].status = "pending" /\ h.steps[i].lease = "none"
                 /\ h.steps[i].attempt = g.steps[i].attempt
                 /\ h.steps[i].prompt = g.steps[i].prompt
                 /\ h.steps[i].content = g.steps[i].content
                 /\ h.steps[i].hash = g.steps[i].hash
  BY ResumeFields
<1> HIDE DEF h
<1>2. DOMAIN g.steps = 1..Len(g.steps) /\ Len(g.steps) \in Nat
  BY StepsDomain
<1>3. \A i \in DOMAIN g.steps : /\ h.steps[i].status = "completed" <=> g.steps[i].status = "completed"
                                /\ h.steps[i].status \in {"pending", "completed"}
                                /\ h.steps[i].attempt = g.steps[i].attempt
  BY <1>1
<1>4. InOrder(h)
  <2>1. ASSUME NEW i \in DOMAIN g.steps,
               \/ h.steps[i].attempt > 0
               \/ h.steps[i].status \in {"running", "uncertain", "paused", "completed"},
               NEW j \in 1..(i - 1)
        PROVE  h.steps[j].status = "completed"
    <3>1. g.steps[j].status = "completed"
      BY <1>3, <2>1 DEF InOrder, RunOK
    <3>2. j \in DOMAIN g.steps
      BY <1>2, <2>1
    <3>3. QED
      BY <1>3, <3>1, <3>2
  <2>2. QED
    BY <1>1, <2>1 DEF InOrder
<1>5. ~AllCompleted(g)
  BY DEF RunOK, Told
<1>6. Told(h)
  BY <1>1, <1>3, <1>5 DEF Told, Has, AllCompleted
<1>7. Kept(h)
  <2>1. \A j \in DOMAIN g.steps : IsCurrent(h, j) => IsCurrent(g, j)
    BY <1>1, <1>2, <1>3 DEF IsCurrent
  <2>2. g.plan /\ \A j \in DOMAIN g.steps :
           /\ g.steps[j].status = "completed" => g.steps[j].content # None
           /\ IsCurrent(g, j) => g.steps[j].prompt
    BY DEF RunOK, Kept
  <2>3. \A j \in DOMAIN g.steps :
           /\ h.steps[j].status = "completed" => h.steps[j].content # None
           /\ IsCurrent(h, j) => h.steps[j].prompt
    BY <1>1, <1>3, <2>1, <2>2
  <2>4. QED
    BY <1>1, <2>2, <2>3 DEF Kept, Terminal
<1>8. Held(h)
  BY <1>1, <1>3 DEF Held, RunOK
<1>9. RunOK(h)
  BY <1>1, <1>4, <1>6, <1>7, <1>8 DEF RunOK, Exists
<1>10. QED
  BY <1>9 DEF h

\* A lease is renewed, or lapses.
LEMMA LeaseFields ==
    ASSUME NEW g \in Run, NEW i \in DOMAIN g.steps, NEW l
    PROVE  LET h == [g EXCEPT !.steps[i].lease = l] IN
           /\ SameHead(g, h) /\ h.status = g.status /\ h.relay = g.relay
           /\ h.result = g.result /\ h.plan = g.plan
           /\ DOMAIN h.steps = DOMAIN g.steps
           /\ \A j \in DOMAIN g.steps :
                 /\ h.steps[j].status = g.steps[j].status
                 /\ h.steps[j].attempt = g.steps[j].attempt
                 /\ h.steps[j].relay = g.steps[j].relay
                 /\ h.steps[j].prompt = g.steps[j].prompt
                 /\ h.steps[j].content = g.steps[j].content
                 /\ h.steps[j].hash = g.steps[j].hash
                 /\ h.steps[j].lease = IF j = i THEN l ELSE g.steps[j].lease
<1> DEFINE s == [g.steps[i] EXCEPT !.lease = l]
           h == [g EXCEPT !.steps[i].lease = l]
<1>1. h = [g EXCEPT !.steps = [g.steps EXCEPT ![i] = s]]
  BY DEF Run
<1>2. \A j \in DOMAIN g.steps : g.steps[j] \in Step
  BY StepsDomain
<1>3. /\ s.status = g.steps[i].status /\ s.attempt = g.steps[i].attempt /\ s.lease = l
      /\ s.prompt = g.steps[i].prompt /\ s.relay = g.steps[i].relay
      /\ s.content = g.steps[i].content /\ s.hash = g.steps[i].hash
  BY <1>2 DEF Step
<1> HIDE DEF s, h
<1>4. /\ SameHead(g, h) /\ h.status = g.status /\ h.relay = g.relay
      /\ h.result = g.result /\ h.plan = g.plan
      /\ h.steps = [g.steps EXCEPT ![i] = s]
  BY <1>1 DEF Run, SameHead
<1>5. /\ DOMAIN h.steps = DOMAIN g.steps /\ h.steps[i] = s
      /\ \A j \in DOMAIN g.steps : j # i => h.steps[j] = g.steps[j]
  BY <1>4, StepsDomain
<1>6. \A j \in DOMAIN g.steps :
                 /\ h.steps[j].status = g.steps[j].status
                 /\ h.steps[j].attempt = g.steps[j].attempt
                 /\ h.steps[j].relay = g.steps[j].relay
                 /\ h.steps[j].prompt = g.steps[j].prompt
                 /\ h.steps[j].content = g.steps[j].content
                 /\ h.steps[j].hash = g.steps[j].hash
                 /\ h.steps[j].lease = IF j = i THEN l ELSE g.steps[j].lease
  BY <1>3, <1>5
<1>7. QED
  BY <1>4, <1>5, <1>6 DEF h

\* The heartbeat of a running step, and the end of a lease.
LEMMA LeaseOK ==
    ASSUME NEW g \in Run, RunOK(g), NEW i \in DOMAIN g.steps, g.steps[i].lease # "none",
           NEW l \in {"live", "lapsed"}
    PROVE  RunOK([g EXCEPT !.steps[i].lease = l])
<1> DEFINE h == [g EXCEPT !.steps[i].lease = l]
<1>1. /\ h.status = g.status /\ h.relay = g.relay /\ h.plan = g.plan
      /\ DOMAIN h.steps = DOMAIN g.steps
      /\ \A j \in DOMAIN g.steps :
                 /\ h.steps[j].status = g.steps[j].status
                 /\ h.steps[j].attempt = g.steps[j].attempt
                 /\ h.steps[j].relay = g.steps[j].relay
                 /\ h.steps[j].prompt = g.steps[j].prompt
                 /\ h.steps[j].content = g.steps[j].content
                 /\ h.steps[j].hash = g.steps[j].hash
                 /\ h.steps[j].lease = IF j = i THEN l ELSE g.steps[j].lease
  BY LeaseFields
<1> HIDE DEF h
<1>2. DOMAIN g.steps = 1..Len(g.steps) /\ Len(g.steps) \in Nat
  BY StepsDomain
<1>3. InOrder(h)
  <2>1. ASSUME NEW k \in DOMAIN g.steps,
               \/ h.steps[k].attempt > 0
               \/ h.steps[k].status \in {"running", "uncertain", "paused", "completed"},
               NEW j \in 1..(k - 1)
        PROVE  h.steps[j].status = "completed"
    <3>1. g.steps[j].status = "completed"
      BY <1>1, <2>1 DEF InOrder, RunOK
    <3>2. j \in DOMAIN g.steps
      BY <1>2, <2>1
    <3>3. QED
      BY <1>1, <3>1, <3>2
  <2>2. QED
    BY <1>1, <2>1 DEF InOrder
<1>4. Told(h)
  BY <1>1 DEF Told, Has, AllCompleted, IsActive, Exists, RunOK
<1>5. Kept(h)
  <2>1. \A j \in DOMAIN g.steps : IsCurrent(h, j) => IsCurrent(g, j)
    BY <1>1, <1>2 DEF IsCurrent
  <2>2. QED
    BY <1>1, <2>1 DEF Kept, IsActive, RunOK
<1>6. Held(h)
  BY <1>1 DEF Held, RunOK
<1>7. Exists(g)
  <2>1. ASSUME ~Exists(g) PROVE FALSE
    <3>1. g.steps = <<>>
      BY <2>1 DEF RunOK
    <3>2. Len(g.steps) = 0
      BY <3>1, EmptySeq
    <3>3. QED
      BY <1>2, <3>2
  <2>2. QED
    BY <2>1
<1>8. RunOK(h)
  BY <1>1, <1>3, <1>4, <1>5, <1>6, <1>7 DEF RunOK, Exists
<1>9. QED
  BY <1>8 DEF h

\* The flags of the clock do not matter to a generation by itself.
LEMMA SameStepsOK ==
    ASSUME NEW g, RunOK(g), NEW h,
           h.status = g.status, h.relay = g.relay, h.plan = g.plan, h.steps = g.steps
    PROVE  RunOK(h)
  BY DEF RunOK, InOrder, Told, Has, Kept, Held, IsActive, Exists, IsCurrent, AllCompleted
=============================================================================

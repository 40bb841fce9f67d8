------------------------------ MODULE SubmissionProofs -----------------------------
(*****************************************************************************)
(* Proofs about GenerationSubmission and UsageQuota, for any number of       *)
(* requests, bodies, keys and generations: a submission is at most one       *)
(* transaction of the store, whatever happens between its preflight and its  *)
(* answer, so everything that is proved of GenerationStore holds for it; its *)
(* answers agree; and the quota it shares with other routes is kept.         *)
(*****************************************************************************)
EXTENDS GenerationSubmission, StoreProofs

\* What one request is by itself: its fields are there when its stage needs
\* them, and what is planned for a vault answer was paid for.
RequestOK(s) ==
    /\ s \in Submission
    /\ s.stage # "idle" => s.body \in Bodies
    /\ s.stage = "persist" => s.plan \in Plans
    /\ IF s.stage = "accepted" THEN s.run \in Runs ELSE s.run = None
    /\ s.stage \in {"planning", "persist"} /\ s.body.vault => s.paid

SubsOK == /\ subs \in [Requests -> Submission]
          /\ made \in [Runs -> Bodies \cup {None}]
          /\ \A q \in Requests : RequestOK(subs[q])

SubmissionOK == TypeOK /\ QuotaTypeOK /\ SubsOK

-----------------------------------------------------------------------------
\* The steps of a submission are steps of the store, or none.

\* A request to persist submits its own body and its own plan: its transaction
\* is one of the store's, or changes nothing there.
LEMMA PersistStep ==
    ASSUME SubmissionOK, NEW q \in Requests, Persist(q)
    PROVE  [Next]_vars
<1>1. subs[q].body \in Bodies /\ subs[q].plan \in Plans
  BY DEF SubmissionOK, SubsOK, RequestOK, Persist
<1>2. /\ subs[q].body.key \in Keys /\ subs[q].body.relay \in Sessions
      /\ subs[q].body.model \in Models
  BY <1>1, BodiesAssumption
<1>3. \/ UNCHANGED vars
      \/ \E r \in Runs : SubmitGeneration(r, subs[q].body.key, subs[q].body.relay,
                                          subs[q].body.model, subs[q].plan)
  BY DEF Persist, vars
<1>4. QED
  BY <1>1, <1>2, <1>3 DEF Next, UserRequest

\* The end of the day is the store's own, or nothing was created today.
LEMMA DayEndsStep ==
    ASSUME TypeOK, DayEnds
    PROVE  [NotSubmitting]_vars
<1>1. CASE \E r \in Runs : gen[r].today
  BY <1>1 DEF DayEnds, NotSubmitting, Clock, DayTurns
<1>2. CASE ~\E r \in Runs : gen[r].today
  <2>1. ASSUME NEW r \in Runs
        PROVE  [gen[r] EXCEPT !.today = FALSE] = gen[r]
    <3>1. gen[r] \in Run /\ gen[r].today \in BOOLEAN /\ ~gen[r].today
      BY <1>2 DEF TypeOK, Run
    <3>2. gen[r].today = FALSE
      BY <3>1
    <3>3. QED
      BY <3>1, <3>2 DEF Run
  <2>2. gen' = [r \in Runs |-> gen[r]]
    BY <2>1 DEF DayEnds
  <2>3. gen' = gen
    BY <2>2 DEF TypeOK
  <2>4. QED
    BY <2>3 DEF DayEnds, vars
<1>3. QED
  BY <1>1, <1>2

\* Without a request that persists, the store does anything but submit.
LEMMA StepUnlessPersist ==
    ASSUME SubmissionOK, [SubmissionNext]_submissionVars, ~\E q \in Requests : Persist(q)
    PROVE  [NotSubmitting]_vars
<1>1. ASSUME NEW q \in Requests,
             \/ \E b \in Bodies : Preflight(q, b)
             \/ ConsumeQuota(q)
             \/ \E p \in Plans : PreparePlan(q, p)
             \/ Fails(q)
      PROVE  [NotSubmitting]_vars
  BY <1>1 DEF Preflight, ConsumeQuota, PreparePlan, Fails, vars
<1>2. CASE GatewayRestarts
  BY <1>2 DEF GatewayRestarts, vars
<1>3. CASE Elsewhere
  BY <1>3 DEF Elsewhere, OtherUserRequest, NotSubmitting
<1>4. CASE TimeGoesOn
  BY <1>4 DEF TimeGoesOn, NotSubmitting, Clock
<1>5. CASE DayEnds
  BY <1>5, DayEndsStep DEF SubmissionOK
<1>6. CASE UNCHANGED <<gen, relays, grants>>
  BY <1>6 DEF vars
<1>7. QED
  BY <1>1, <1>2, <1>3, <1>4, <1>5, <1>6 DEF SubmissionNext, submissionVars

\* Whatever requests do, the store makes one of its own steps, or none.
LEMMA SubmissionStep ==
    ASSUME SubmissionOK, [SubmissionNext]_submissionVars
    PROVE  [Next]_vars
<1>1. NotSubmitting => Next
  BY DEF NotSubmitting, Next, UserRequest
<1>2. QED
  BY <1>1, StepUnlessPersist, PersistStep

-----------------------------------------------------------------------------
\* Quotas.

\* The script that counts keeps the counters natural, and lets nobody through
\* above the limit.
LEMMA ConsumeWithin ==
    ASSUME QuotaTypeOK, NEW b \in Buckets, Consume(b)
    PROVE  /\ used' \in [Buckets -> Nat] /\ granted' \in [Buckets -> Nat]
           /\ WithinQuota => WithinQuota'
<1>1. \A c \in Buckets : used[c] \in Nat /\ granted[c] \in Nat /\ Limit[c] \in Nat
  BY QuotaAssumption DEF QuotaTypeOK
<1>2. /\ used' = [used EXCEPT ![b] = used[b] + 1]
      /\ granted' = [granted EXCEPT ![b] = IF used[b] + 1 > Limit[b] THEN granted[b] ELSE granted[b] + 1]
  BY DEF Consume, Exceeded
<1>3. used' \in [Buckets -> Nat] /\ granted' \in [Buckets -> Nat]
  BY <1>1, <1>2 DEF QuotaTypeOK
<1>4. ASSUME WithinQuota, NEW c \in Buckets
      PROVE  granted'[c] <= Limit[c] /\ granted'[c] <= used'[c]
  <2>1. granted[c] <= Limit[c] /\ granted[c] <= used[c]
    BY <1>4 DEF WithinQuota
  <2>2. CASE c # b
    BY <1>2, <2>1, <2>2 DEF QuotaTypeOK
  <2>3. CASE c = b /\ used[b] + 1 > Limit[b]
    BY <1>1, <1>2, <2>1, <2>3 DEF QuotaTypeOK
  <2>4. CASE c = b /\ ~(used[b] + 1 > Limit[b])
    BY <1>1, <1>2, <2>1, <2>4 DEF QuotaTypeOK
  <2>5. QED
    BY <2>2, <2>3, <2>4
<1>5. QED
  BY <1>3, <1>4 DEF WithinQuota

\* The routes that count one bucket after the other, and a new day.
LEMMA QuotaStep ==
    ASSUME QuotaTypeOK, QuotaNext \/ NewCounters
    PROVE  QuotaTypeOK' /\ (WithinQuota => WithinQuota')
<1> USE DEF QuotaTypeOK
<1>1. ASSUME NEW c \in Callers, NEW route \in Routes, Begin(c, route)
      PROVE  QuotaTypeOK' /\ (WithinQuota => WithinQuota')
  <2>1. route \in Seq(Buckets)
    BY QuotaAssumption
  <2>2. calls' \in [Callers -> Call]
    BY <1>1, <2>1 DEF Begin, Call
  <2>3. QED
    BY <1>1, <2>2 DEF Begin, WithinQuota
<1>2. ASSUME NEW c \in Callers, ConsumeNext(c)
      PROVE  QuotaTypeOK' /\ (WithinQuota => WithinQuota')
  <2>1. calls[c] \in Call /\ calls[c].left \in Seq(Buckets) /\ calls[c].left # <<>>
    BY <1>2 DEF ConsumeNext, Call
  <2>2. Head(calls[c].left) \in Buckets /\ Tail(calls[c].left) \in Seq(Buckets)
    BY <2>1, HeadTailProperties
  <2>3. /\ used' \in [Buckets -> Nat] /\ granted' \in [Buckets -> Nat]
        /\ WithinQuota => WithinQuota'
    BY <1>2, <2>2, ConsumeWithin DEF ConsumeNext
  <2>4. [status |-> "refused", left |-> <<>>] \in Call
    BY EmptySeq DEF Call
  <2>5. [calls[c] EXCEPT !.left = Tail(calls[c].left)] \in Call
    BY <2>1, <2>2 DEF Call
  <2>6. calls' \in [Callers -> Call]
    BY <1>2, <2>4, <2>5 DEF ConsumeNext
  <2>7. QED
    BY <2>3, <2>6
<1>3. ASSUME NEW c \in Callers, Serve(c)
      PROVE  QuotaTypeOK' /\ (WithinQuota => WithinQuota')
  BY <1>3 DEF Serve, Call, WithinQuota
<1>4. ASSUME NEW c \in Callers, QuotaUnavailable(c)
      PROVE  QuotaTypeOK' /\ (WithinQuota => WithinQuota')
  <2>1. [status |-> "refused", left |-> <<>>] \in Call
    BY EmptySeq DEF Call
  <2>2. QED
    BY <1>4, <2>1 DEF QuotaUnavailable, WithinQuota
<1>5. CASE NewCounters
  BY <1>5, QuotaAssumption DEF NewCounters, WithinQuota
<1>6. QED
  BY <1>1, <1>2, <1>3, <1>4, <1>5 DEF QuotaNext

\* What any step does to the quotas.
LEMMA SubmissionQuota ==
    ASSUME QuotaTypeOK, [SubmissionNext]_submissionVars
    PROVE  QuotaTypeOK' /\ (WithinQuota => WithinQuota')
<1>1. CASE UNCHANGED <<used, calls, granted>>
  BY <1>1 DEF QuotaTypeOK, WithinQuota
<1>2. ASSUME NEW q \in Requests, ConsumeQuota(q)
      PROVE  QuotaTypeOK' /\ (WithinQuota => WithinQuota')
  BY <1>2, ConsumeWithin, EmbeddingAssumption DEF ConsumeQuota, QuotaTypeOK
<1>3. CASE QuotaNext \/ DayEnds
  BY <1>3, QuotaStep DEF DayEnds
<1>4. QED
  BY <1>1, <1>2, <1>3 DEF SubmissionNext, Preflight, PreparePlan, Fails, Persist,
       GatewayRestarts, Elsewhere, TimeGoesOn, submissionVars

-----------------------------------------------------------------------------
\* Requests.

\* One request goes on, the others stay.
LEMMA OneRequest ==
    ASSUME SubsOK, NEW q \in Requests, NEW s, RequestOK(s),
           subs' = [subs EXCEPT ![q] = s], made' = made
    PROVE  SubsOK'
<1>1. subs' \in [Requests -> Submission]
  BY DEF SubsOK, RequestOK
<1>2. ASSUME NEW o \in Requests
      PROVE  RequestOK(subs'[o])
  <2>1. subs'[o] = IF o = q THEN s ELSE subs[o]
    BY DEF SubsOK
  <2>2. QED
    BY <2>1 DEF SubsOK
<1>3. QED
  BY <1>1, <1>2 DEF SubsOK, RequestOK

\* Every step leaves each request with what its stage needs.
LEMMA SubsStep ==
    ASSUME SubsOK, [SubmissionNext]_submissionVars
    PROVE  SubsOK'
<1>0. \A q \in Requests : subs[q] \in Submission /\ RequestOK(subs[q])
  BY DEF SubsOK
<1>1. ASSUME NEW q \in Requests, NEW b \in Bodies, Preflight(q, b)
      PROVE  SubsOK'
  <2> DEFINE s == [subs[q] EXCEPT !.body = b]
  <2>0. /\ s \in Submission /\ s.body = b /\ s.run = None /\ s.stage = "idle"
        /\ s.paid = subs[q].paid /\ s.plan = subs[q].plan
    BY <1>0, <1>1 DEF Preflight, Submission, RequestOK
  <2>1. made' = made
    BY <1>1 DEF Preflight
  <2>2. \/ \E r \in Runs : subs' = [subs EXCEPT ![q] = [s EXCEPT !.stage = "accepted", !.run = r]]
        \/ subs' = [subs EXCEPT ![q] = [s EXCEPT !.stage = "refused"]]
        \/ subs' = [subs EXCEPT ![q] = [s EXCEPT !.stage = IF b.vault THEN "quota" ELSE "planning"]]
    BY <1>1 DEF Preflight
  <2> HIDE DEF s
  <2>3. \A r \in Runs : RequestOK([s EXCEPT !.stage = "accepted", !.run = r])
    BY <2>0 DEF RequestOK, Submission
  <2>4. RequestOK([s EXCEPT !.stage = "refused"])
    BY <2>0 DEF RequestOK, Submission
  <2>5. RequestOK([s EXCEPT !.stage = IF b.vault THEN "quota" ELSE "planning"])
    <3>1. CASE b.vault
      BY <2>0, <3>1 DEF RequestOK, Submission
    <3>2. CASE ~b.vault
      BY <2>0, <3>2 DEF RequestOK, Submission
    <3>3. QED
      BY <3>1, <3>2
  <2>6. QED
    BY <2>1, <2>2, <2>3, <2>4, <2>5, OneRequest
<1>2. ASSUME NEW q \in Requests, ConsumeQuota(q)
      PROVE  SubsOK'
  <2> DEFINE st == IF Exceeded("embedding") THEN "refused" ELSE "planning"
             s == [subs[q] EXCEPT !.stage = st, !.paid = TRUE]
  <2>1. subs' = [subs EXCEPT ![q] = s] /\ made' = made
    BY <1>0, <1>2 DEF ConsumeQuota, SubsOK, Submission
  <2>2. subs[q].stage = "quota"
    BY <1>2 DEF ConsumeQuota
  <2>3. st \in {"refused", "planning"}
    OBVIOUS
  <2> HIDE DEF st
  <2>4. RequestOK(s)
    BY <1>0, <2>2, <2>3 DEF RequestOK, Submission
  <2>5. QED
    BY <2>1, <2>4, OneRequest
<1>3. ASSUME NEW q \in Requests, NEW p \in Plans, PreparePlan(q, p)
      PROVE  SubsOK'
  <2> DEFINE s == [subs[q] EXCEPT !.stage = "persist", !.plan = p]
  <2>1. subs' = [subs EXCEPT ![q] = s] /\ made' = made
    BY <1>0, <1>3 DEF PreparePlan, SubsOK, Submission
  <2>2. subs[q].stage = "planning"
    BY <1>3 DEF PreparePlan
  <2>3. RequestOK(s)
    BY <1>0, <2>2 DEF RequestOK, Submission
  <2>4. QED
    BY <2>1, <2>3, OneRequest
<1>a. ASSUME NEW q \in Requests, subs[q].stage \in {"quota", "planning", "persist"},
             Refuse(q), made' = made
      PROVE  SubsOK'
  <2> DEFINE s == [subs[q] EXCEPT !.stage = "refused"]
  <2>1. subs' = [subs EXCEPT ![q] = s]
    BY <1>a DEF Refuse
  <2>2. RequestOK(s)
    BY <1>0, <1>a DEF RequestOK, Submission
  <2>3. QED
    BY <1>a, <2>1, <2>2, OneRequest
<1>b. ASSUME NEW q \in Requests, subs[q].stage = "persist", NEW r \in Runs, Accept(q, r)
      PROVE  /\ made' = made => SubsOK'
             /\ made' = [made EXCEPT ![r] = subs[q].body] => SubsOK'
  <2> DEFINE s == [subs[q] EXCEPT !.stage = "accepted", !.run = r]
  <2>1. subs' = [subs EXCEPT ![q] = s]
    BY <1>0, <1>b DEF Accept, SubsOK, Submission
  <2>2. RequestOK(s) /\ subs[q].body \in Bodies
    BY <1>0, <1>b DEF RequestOK, Submission
  <2>3. ASSUME NEW o \in Requests
        PROVE  RequestOK(subs'[o])
    <3>1. subs'[o] = IF o = q THEN s ELSE subs[o]
      BY <2>1 DEF SubsOK
    <3>2. QED
      BY <1>0, <2>2, <3>1
  <2>4. subs' \in [Requests -> Submission]
    BY <2>1, <2>2 DEF SubsOK, RequestOK
  <2>5. made' = [made EXCEPT ![r] = subs[q].body] => made' \in [Runs -> Bodies \cup {None}]
    BY <2>2 DEF SubsOK
  <2>6. made' = made => made' \in [Runs -> Bodies \cup {None}]
    BY DEF SubsOK
  <2>7. QED
    BY <2>3, <2>4, <2>5, <2>6 DEF SubsOK, RequestOK
<1>4. ASSUME NEW q \in Requests, Fails(q)
      PROVE  SubsOK'
  BY <1>4, <1>a DEF Fails
<1>5. ASSUME NEW q \in Requests, Persist(q)
      PROVE  SubsOK'
  BY <1>5, <1>a, <1>b DEF Persist
<1>6. CASE GatewayRestarts
  <2>1. made' = made
    BY <1>6 DEF GatewayRestarts
  <2>2. ASSUME NEW q \in Requests
        PROVE  RequestOK(subs'[q])
    <3>1. \/ subs'[q] = subs[q]
          \/ /\ subs[q].stage \notin {"idle", "accepted"}
             /\ subs'[q] = [subs[q] EXCEPT !.stage = "lost"]
      BY <1>6 DEF GatewayRestarts, Answered
    <3>2. subs[q].stage \notin {"idle", "accepted"} => RequestOK([subs[q] EXCEPT !.stage = "lost"])
      BY <1>0 DEF RequestOK, Submission
    <3>3. QED
      BY <1>0, <3>1, <3>2
  <2>3. subs' = [q \in Requests |-> subs'[q]]
    BY <1>6 DEF GatewayRestarts
  <2>4. subs' \in [Requests -> Submission]
    BY <2>2, <2>3 DEF RequestOK
  <2>5. QED
    BY <2>1, <2>2, <2>4 DEF SubsOK, RequestOK
<1>7. CASE UNCHANGED <<subs, made>>
  BY <1>7 DEF SubsOK, RequestOK
<1>8. QED
  BY <1>1, <1>2, <1>3, <1>4, <1>5, <1>6, <1>7
     DEF SubmissionNext, Elsewhere, TimeGoesOn, DayEnds, submissionVars

-----------------------------------------------------------------------------
\* What every state of the submissions looks like: rows, counters and requests
\* have their types, and a vault answer is only prepared after it was paid for.
THEOREM SubmissionTyped == SubmissionSpec => []SubmissionOK
<1>1. SubmissionInit => SubmissionOK
  <2> SUFFICES ASSUME SubmissionInit PROVE SubmissionOK
    OBVIOUS
  <2>1. TypeOK
    BY InitTyped DEF SubmissionInit
  <2>2. QuotaTypeOK
    BY EmptySeq DEF SubmissionInit, QuotaInit, QuotaTypeOK, Call
  <2>3. SubsOK
    BY DEF SubmissionInit, SubsOK, RequestOK, Submission
  <2>4. QED
    BY <2>1, <2>2, <2>3 DEF SubmissionOK
<1>2. SubmissionOK /\ [SubmissionNext]_submissionVars => SubmissionOK'
  BY SubmissionStep, TypeStep, SubmissionQuota, SubsStep DEF SubmissionOK
<1>3. QED
  BY <1>1, <1>2, PTL DEF SubmissionSpec

\* However the steps of several submissions interleave with each other and with
\* the other routes, the store only ever makes its own steps: what StoreProofs
\* proves of Spec holds of the submissions.
THEOREM SubmissionsUseTheStore == SubmissionSpec => Spec
<1>1. SubmissionInit => Init
  BY DEF SubmissionInit
<1>2. SubmissionOK /\ [SubmissionNext]_submissionVars => [Next]_vars
  BY SubmissionStep
<1>3. QED
  BY <1>1, <1>2, SubmissionTyped, PTL DEF SubmissionSpec, Spec

\* No bucket serves more than its limit in a day, nor anybody uncounted, however
\* the submissions and the routes that use it interleave (quota.py, auth.py).
THEOREM QuotasAreKept == SubmissionSpec => []WithinQuota
<1>1. SubmissionInit => WithinQuota
  BY QuotaAssumption DEF SubmissionInit, QuotaInit, WithinQuota
<1>2. SubmissionOK /\ WithinQuota /\ [SubmissionNext]_submissionVars => WithinQuota'
  BY SubmissionQuota DEF SubmissionOK
<1>3. QED
  BY <1>1, <1>2, SubmissionTyped, PTL DEF SubmissionSpec

\* The types, as the specification states them.
THEOREM SubmissionTypeCorrect == SubmissionSpec => []SubmissionTypeOK
<1>1. SubmissionOK => SubmissionTypeOK
  BY DEF SubmissionOK, SubsOK, RequestOK, SubmissionTypeOK
<1>2. QED
  BY <1>1, SubmissionTyped, PTL

\* No key has two generations, and no limit is exceeded, however many requests
\* have passed their preflight together (submit_generation, create_run).
THEOREM SubmissionsWithinLimits == SubmissionSpec => [](OneRunPerKey /\ LimitsHold)
  BY SubmissionsUseTheStore, KeysAreUsedOnce, LimitsAreKept, PTL

\* What the user was promised holds with preflights, quotas and preparations in
\* between: a generation asks its questions in order, once and one at a time.
THEOREM SubmissionsKeepContract == SubmissionSpec => ImplementsContract
  BY SubmissionsUseTheStore, ContractIsKept

-----------------------------------------------------------------------------
\* Answers of submissions.

\* Request q makes generation r.
Begins(q, r) ==
    /\ subs[q].stage = "persist" /\ subs[q].body \in Bodies /\ subs[q].plan \in Plans
    /\ SubmitGeneration(r, subs[q].body.key, subs[q].body.relay, subs[q].body.model, subs[q].plan)
    /\ Accept(q, r)
    /\ made' = [made EXCEPT ![r] = subs[q].body]

\* A generation is there because it was there before, made from the same body,
\* or because one request under the mutex makes it.
LEMMA BegunByRequest ==
    ASSUME SubmissionOK, AllOK, [SubmissionNext]_submissionVars, NEW r \in Runs
    PROVE  \/ Follows(r) /\ made'[r] = made[r]
           \/ \E q \in Requests : Begins(q, r)
<1>1. CASE ~\E q \in Requests : Persist(q)
  <2>1. Moves(r)
    BY <1>1, StepUnlessPersist, OneCallAtATime DEF SubmissionOK, Moves
  <2>2. made' = made
    BY <1>1 DEF SubmissionNext, Preflight, ConsumeQuota, PreparePlan, Fails, GatewayRestarts,
                Elsewhere, TimeGoesOn, DayEnds, submissionVars
  <2>3. QED
    BY <2>1, <2>2, MoveFollows DEF SubmissionOK
<1>2. ASSUME NEW q \in Requests, Persist(q)
      PROVE  \/ Follows(r) /\ made'[r] = made[r]
             \/ \E o \in Requests : Begins(o, r)
  <2>1. subs[q].stage = "persist" /\ subs[q].body \in Bodies /\ subs[q].plan \in Plans
    BY <1>2 DEF Persist, SubmissionOK, SubsOK, RequestOK
  <2>2. CASE UNCHANGED <<gen, relays, grants, made>>
    <3>1. Moves(r)
      BY <2>2 DEF Moves, Quiet, Stays
    <3>2. QED
      BY <2>2, <3>1, MoveFollows DEF SubmissionOK
  <2>3. ASSUME NEW s \in Runs, Begins(q, s)
        PROVE  \/ Follows(r) /\ made'[r] = made[r]
               \/ Begins(q, r)
    <3>1. CASE s = r
      BY <2>3, <3>1
    <3>2. CASE s # r
      <4>1. /\ subs[q].body.key \in Keys /\ subs[q].body.relay \in Sessions
            /\ subs[q].body.model \in Models
        BY <2>1, BodiesAssumption
      <4>2. Follows(r)
        BY <2>1, <2>3, <3>2, <4>1, SubmissionFollows DEF Begins, SubmissionOK
      <4>3. made'[r] = made[r]
        BY <2>3, <3>2 DEF Begins, SubmissionOK, SubsOK
      <4>4. QED
        BY <4>2, <4>3
    <3>3. QED
      BY <3>1, <3>2
  <2>4. \/ UNCHANGED <<gen, relays, grants, made>>
        \/ \E s \in Runs : Begins(q, s)
    BY <1>2, <2>1 DEF Persist, Begins
  <2>5. QED
    BY <2>2, <2>3, <2>4
<1>3. QED
  BY <1>1, <1>2

\* A request is accepted because it was before, because it is given a generation
\* that was made from its body, or because it makes one.
LEMMA AcceptedFor ==
    ASSUME SubmissionOK, [SubmissionNext]_submissionVars,
           NEW q \in Requests, subs'[q].stage = "accepted"
    PROVE  \/ subs'[q] = subs[q]
           \/ \E r \in Runs : /\ SameRequest(r, subs'[q].body) /\ subs'[q].run = r
                              /\ gen' = gen /\ made' = made
           \/ \E r \in Runs : Begins(q, r) /\ subs'[q].run = r /\ subs'[q].body = subs[q].body
<1> DEFINE Goal == \/ subs'[q] = subs[q]
                   \/ \E r \in Runs : /\ SameRequest(r, subs'[q].body) /\ subs'[q].run = r
                                      /\ gen' = gen /\ made' = made
                   \/ \E r \in Runs : Begins(q, r) /\ subs'[q].run = r /\ subs'[q].body = subs[q].body
<1>0. subs \in [Requests -> Submission] /\ \A o \in Requests : subs[o] \in Submission
  BY DEF SubmissionOK, SubsOK
<1>1. ASSUME NEW o \in Requests, NEW b \in Bodies, Preflight(o, b)
      PROVE  Goal
  <2> DEFINE s == [subs[o] EXCEPT !.body = b]
  <2>0. s \in [stage : {subs[o].stage}, body : Bodies, plan : Plans \cup {None},
                run : Runs \cup {None}, paid : BOOLEAN] /\ s.body = b
    BY <1>0 DEF Submission
  <2>1. \/ \E r \in Runs : /\ SameRequest(r, b)
                           /\ subs' = [subs EXCEPT ![o] = [s EXCEPT !.stage = "accepted", !.run = r]]
        \/ subs' = [subs EXCEPT ![o] = [s EXCEPT !.stage = "refused"]]
        \/ subs' = [subs EXCEPT ![o] = [s EXCEPT !.stage = IF b.vault THEN "quota" ELSE "planning"]]
    BY <1>1 DEF Preflight
  <2>2. gen' = gen /\ made' = made
    BY <1>1 DEF Preflight
  <2>3. CASE q # o
    BY <1>0, <2>1, <2>3
  <2>4. CASE q = o
    <3>1. ASSUME NEW st \in {"refused", "quota", "planning"},
                 subs' = [subs EXCEPT ![o] = [s EXCEPT !.stage = st]]
          PROVE  FALSE
      BY <1>0, <2>0, <2>4, <3>1
    <3>2. PICK r \in Runs : /\ SameRequest(r, b)
                            /\ subs' = [subs EXCEPT ![o] = [s EXCEPT !.stage = "accepted", !.run = r]]
      BY <2>1, <3>1
    <3>3. subs'[q].run = r /\ subs'[q].body = b
      BY <1>0, <2>0, <2>4, <3>2
    <3>4. QED
      BY <2>2, <3>2, <3>3
  <2>5. QED
    BY <2>3, <2>4
<1>2. ASSUME NEW o \in Requests, NEW s, s.stage # "accepted", subs' = [subs EXCEPT ![o] = s]
      PROVE  Goal
  BY <1>0, <1>2
<1>3. ASSUME NEW o \in Requests, ConsumeQuota(o)
      PROVE  Goal
  <2> DEFINE st == IF Exceeded("embedding") THEN "refused" ELSE "planning"
  <2>1. subs' = [subs EXCEPT ![o] = [subs[o] EXCEPT !.stage = st, !.paid = TRUE]]
    BY <1>0, <1>3 DEF ConsumeQuota, Submission
  <2>2. [subs[o] EXCEPT !.stage = st, !.paid = TRUE].stage # "accepted"
    BY <1>0 DEF Submission
  <2>3. QED
    BY <1>2, <2>1, <2>2
<1>4. ASSUME NEW o \in Requests, NEW p \in Plans, PreparePlan(o, p)
      PROVE  Goal
  <2>1. subs' = [subs EXCEPT ![o] = [subs[o] EXCEPT !.stage = "persist", !.plan = p]]
    BY <1>0, <1>4 DEF PreparePlan, Submission
  <2>2. [subs[o] EXCEPT !.stage = "persist", !.plan = p].stage # "accepted"
    BY <1>0 DEF Submission
  <2>3. QED
    BY <1>2, <2>1, <2>2
<1>5. ASSUME NEW o \in Requests, Refuse(o)
      PROVE  Goal
  <2>1. subs' = [subs EXCEPT ![o] = [subs[o] EXCEPT !.stage = "refused"]]
    BY <1>5 DEF Refuse
  <2>2. [subs[o] EXCEPT !.stage = "refused"].stage # "accepted"
    BY <1>0 DEF Submission
  <2>3. QED
    BY <1>2, <2>1, <2>2
<1>6. ASSUME NEW o \in Requests, NEW r \in Runs, Accept(o, r), Persist(o),
             \/ SameRequest(r, subs[o].body) /\ gen' = gen /\ made' = made
             \/ Begins(o, r)
      PROVE  Goal
  <2>1. subs' = [subs EXCEPT ![o] = [subs[o] EXCEPT !.stage = "accepted", !.run = r]]
    BY <1>0, <1>6 DEF Accept, Submission
  <2>2. CASE q # o
    BY <1>0, <2>1, <2>2
  <2>3. CASE q = o
    <3>1. subs'[q].run = r /\ subs'[q].body = subs[q].body
      BY <1>0, <2>1, <2>3 DEF Submission
    <3>2. QED
      BY <1>6, <2>3, <3>1
  <2>4. QED
    BY <2>2, <2>3
<1>7. ASSUME NEW o \in Requests, Persist(o)
      PROVE  Goal
  <2>1. subs[o].stage = "persist" /\ subs[o].body \in Bodies /\ subs[o].plan \in Plans
    BY <1>7 DEF Persist, SubmissionOK, SubsOK, RequestOK
  <2>2. \/ Refuse(o)
        \/ \E r \in Runs : /\ Accept(o, r)
                           /\ \/ SameRequest(r, subs[o].body) /\ gen' = gen /\ made' = made
                              \/ Begins(o, r)
    BY <1>7, <2>1 DEF Persist, Begins
  <2>3. QED
    BY <1>5, <1>6, <1>7, <2>2
<1>8. CASE GatewayRestarts
  <2>1. subs'[q] = subs[q] \/ subs'[q] = [subs[q] EXCEPT !.stage = "lost"]
    BY <1>8 DEF GatewayRestarts
  <2>2. [subs[q] EXCEPT !.stage = "lost"].stage = "lost"
    BY <1>0 DEF Submission
  <2>3. QED
    BY <2>1, <2>2
<1>9. CASE subs' = subs
  BY <1>9
<1>10. QED
  BY <1>1, <1>3, <1>4, <1>5, <1>7, <1>8, <1>9
     DEF SubmissionNext, Fails, Elsewhere, TimeGoesOn, DayEnds, submissionVars

\* Generations keep the key and the body they were made from, and an accepted
\* request keeps its generation.
MadeOK == \A r \in Runs : Exists(gen[r]) => made[r] \in Bodies /\ gen[r].key = made[r].key

AcceptedOK ==
    \A q \in Requests : subs[q].stage = "accepted" =>
        /\ subs[q].run \in Runs /\ gen[subs[q].run].status # "absent"
        /\ Exists(gen[subs[q].run]) => made[subs[q].run] = subs[q].body

\* A request that makes a generation leaves it there, from its body.
LEMMA BegunFields ==
    ASSUME SubmissionOK, NEW q \in Requests, NEW r \in Runs, Begins(q, r)
    PROVE  /\ Exists(gen'[r]) /\ gen[r].status = "absent"
           /\ gen'[r].key = subs[q].body.key /\ made'[r] = subs[q].body
           /\ Serves(subs[q].body.relay, subs[q].body.model)
           /\ DOMAIN gen'[r].steps = DOMAIN subs[q].plan
<1>1. /\ subs[q].body \in Bodies /\ subs[q].plan \in Plans
      /\ SubmitGeneration(r, subs[q].body.key, subs[q].body.relay, subs[q].body.model, subs[q].plan)
  BY DEF Begins
<1>2. /\ subs[q].body.key \in Keys /\ subs[q].body.relay \in Sessions
      /\ subs[q].body.model \in Models
  BY <1>1, BodiesAssumption
<1>3. /\ gen'[r] = CreateRun(subs[q].body.key, subs[q].body.model, subs[q].body.relay, subs[q].plan)
      /\ Serves(subs[q].body.relay, subs[q].body.model)
  BY <1>1, <1>2, SubmissionCreates DEF SubmissionOK
<1>4. /\ Exists(gen'[r]) /\ gen'[r].key = subs[q].body.key
      /\ DOMAIN gen'[r].steps = DOMAIN subs[q].plan
  BY <1>1, <1>2, <1>3, CreateRunOK
<1>5. gen[r].status = "absent"
  BY <1>1 DEF SubmitGeneration
<1>6. made'[r] = subs[q].body
  BY DEF Begins, SubmissionOK, SubsOK
<1>7. QED
  BY <1>3, <1>4, <1>5, <1>6

\* What a submission was answered stays true: its generation was made from its
\* own body, and two answers for one key name one generation, unless the first
\* was purged (existing_request, before and under the mutex).
THEOREM AnswersStayTrue == SubmissionSpec => []AnswersAgree
<1>1. SubmissionInit => MadeOK /\ AcceptedOK
  BY DEF SubmissionInit, Init, NoRun, Exists, MadeOK, AcceptedOK
<1>2. /\ SubmissionOK /\ AllOK /\ MadeOK /\ AcceptedOK
      /\ [SubmissionNext]_submissionVars
      => MadeOK' /\ AcceptedOK'
  <2> SUFFICES ASSUME SubmissionOK, AllOK, MadeOK, AcceptedOK, [SubmissionNext]_submissionVars
               PROVE  MadeOK' /\ AcceptedOK'
    OBVIOUS
  <2>1. ASSUME NEW r \in Runs, Exists(gen'[r])
        PROVE  made'[r] \in Bodies /\ gen'[r].key = made'[r].key
    <3>1. CASE Follows(r) /\ made'[r] = made[r]
      BY <2>1, <3>1 DEF Follows, MadeOK
    <3>2. ASSUME NEW q \in Requests, Begins(q, r)
          PROVE  made'[r] \in Bodies /\ gen'[r].key = made'[r].key
      BY <3>2, BegunFields DEF Begins
    <3>3. QED
      BY <3>1, <3>2, BegunByRequest
  <2>2. ASSUME NEW q \in Requests, subs'[q].stage = "accepted"
        PROVE  /\ subs'[q].run \in Runs /\ gen'[subs'[q].run].status # "absent"
               /\ Exists(gen'[subs'[q].run]) => made'[subs'[q].run] = subs'[q].body
    <3>1. CASE subs'[q] = subs[q]
      <4>1. PICK r \in Runs : r = subs[q].run
        BY <2>2, <3>1 DEF AcceptedOK
      <4>2. /\ gen[r].status # "absent"
            /\ Exists(gen[r]) => made[r] = subs[q].body
        BY <2>2, <3>1, <4>1 DEF AcceptedOK
      <4>3. Follows(r) /\ made'[r] = made[r]
        BY <4>2, BegunByRequest, BegunFields
      <4>4. QED
        BY <3>1, <4>1, <4>2, <4>3 DEF Follows, MoreAttempts
    <3>2. ASSUME NEW r \in Runs, SameRequest(r, subs'[q].body), subs'[q].run = r,
                 gen' = gen, made' = made
          PROVE  /\ subs'[q].run \in Runs /\ gen'[subs'[q].run].status # "absent"
                 /\ Exists(gen'[subs'[q].run]) => made'[subs'[q].run] = subs'[q].body
      BY <3>2 DEF SameRequest, Exists
    <3>3. ASSUME NEW r \in Runs, Begins(q, r), subs'[q].run = r, subs'[q].body = subs[q].body
          PROVE  /\ subs'[q].run \in Runs /\ gen'[subs'[q].run].status # "absent"
                 /\ Exists(gen'[subs'[q].run]) => made'[subs'[q].run] = subs'[q].body
      BY <3>3, BegunFields DEF Exists
    <3>4. QED
      BY <2>2, <3>1, <3>2, <3>3, AcceptedFor
  <2>3. QED
    BY <2>1, <2>2 DEF MadeOK, AcceptedOK, Exists
<1>3. MadeOK /\ AcceptedOK /\ OneRunPerKey => AnswersAgree
  <2> SUFFICES ASSUME MadeOK, AcceptedOK, OneRunPerKey,
                      NEW q \in Requests, subs[q].stage = "accepted"
               PROVE  LET r == subs[q].run IN
                      /\ Exists(gen[r]) => made[r] = subs[q].body /\ gen[r].key = subs[q].body.key
                      /\ \A o \in Requests :
                            subs[o].stage = "accepted" /\ subs[o].body.key = subs[q].body.key
                            /\ subs[o].run # r
                            => gen[r].status = "purged" \/ gen[subs[o].run].status = "purged"
    BY DEF AnswersAgree
  <2>1. ASSUME NEW o \in Requests, subs[o].stage = "accepted", Exists(gen[subs[o].run])
        PROVE  made[subs[o].run] = subs[o].body /\ gen[subs[o].run].key = subs[o].body.key
    BY <2>1 DEF MadeOK, AcceptedOK
  <2>2. \A o \in Requests : subs[o].stage = "accepted" =>
           subs[o].run \in Runs /\ (Exists(gen[subs[o].run]) \/ gen[subs[o].run].status = "purged")
    BY DEF AcceptedOK, Exists
  <2>3. QED
    BY <2>1, <2>2 DEF OneRunPerKey
<1>4. SubmissionSpec => []AllOK
  BY SubmissionsUseTheStore, EachRunOK, PTL
<1>5. SubmissionSpec => []OneRunPerKey
  BY SubmissionsUseTheStore, KeysAreUsedOnce, PTL
<1>6. QED
  BY <1>1, <1>2, <1>3, <1>4, <1>5, SubmissionTyped, PTL DEF SubmissionSpec

\* Two sequences of the same positions are as long as one another.
LEMMA SameDomainSameLength ==
    ASSUME NEW S, NEW T, NEW s \in Seq(S), NEW t \in Seq(T), DOMAIN s = DOMAIN t
    PROVE  Len(s) = Len(t)
<1>1. Len(s) \in Nat /\ Len(t) \in Nat /\ 1..Len(s) = 1..Len(t)
  BY LenProperties
<1>2. ASSUME NEW m \in Nat, NEW n \in Nat, 1..m = 1..n, m < n
      PROVE  FALSE
  <2>1. n \in 1..n /\ n \notin 1..m
    BY <1>2
  <2>2. QED
    BY <1>2, <2>1
<1>3. QED
  BY <1>1, <1>2

\* A generation begins under the mutex as the preflight let it through, however
\* much happened since: a live relay that serves it, a plan prepared for its own
\* body, and paid for when it needed embeddings (submit_generation).
THEOREM GenerationsBeginAsPrepared == SubmissionSpec => BegunAsPrepared
<1> DEFINE Prepared ==
        \A r \in Runs : gen[r].status = "absent" /\ Exists(gen'[r]) =>
           \E q \in Requests :
              LET b == subs[q].body IN
              /\ ~Answered(q) /\ subs'[q].run = r /\ made'[r] = b
              /\ Serves(b.relay, b.model)
              /\ b.vault => subs[q].paid
              /\ Len(gen'[r].steps) = Len(subs[q].plan)
<1>1. SubmissionOK /\ AllOK /\ [SubmissionNext]_submissionVars => [Prepared]_submissionVars
  <2> SUFFICES ASSUME SubmissionOK, AllOK, [SubmissionNext]_submissionVars,
                      NEW r \in Runs, gen[r].status = "absent", Exists(gen'[r])
               PROVE  \E q \in Requests :
                         LET b == subs[q].body IN
                         /\ ~Answered(q) /\ subs'[q].run = r /\ made'[r] = b
                         /\ Serves(b.relay, b.model)
                         /\ b.vault => subs[q].paid
                         /\ Len(gen'[r].steps) = Len(subs[q].plan)
    OBVIOUS
  <2>1. ~Follows(r)
    BY DEF Follows, Exists
  <2>2. PICK q \in Requests : Begins(q, r)
    BY <2>1, BegunByRequest
  <2>3. /\ subs[q].stage = "persist" /\ RequestOK(subs[q])
        /\ subs[q].body \in Bodies /\ subs[q].plan \in Plans
    BY <2>2 DEF Begins, SubmissionOK, SubsOK
  <2>4. ~Answered(q)
    BY <2>3 DEF Answered
  <2>5. subs'[q].run = r
    BY <2>2 DEF Begins, Accept, SubmissionOK, SubsOK, Submission
  <2>6. /\ made'[r] = subs[q].body /\ Serves(subs[q].body.relay, subs[q].body.model)
        /\ DOMAIN gen'[r].steps = DOMAIN subs[q].plan
    BY <2>2, BegunFields
  <2>7. subs[q].body.vault => subs[q].paid
    BY <2>3 DEF RequestOK
  <2>8. Len(gen'[r].steps) = Len(subs[q].plan)
    <3>1. gen'[r] \in Run
      BY SubmissionStep, TypeStep DEF SubmissionOK, TypeOK
    <3>2. gen'[r].steps \in Seq(Step) /\ subs[q].plan \in Seq(BOOLEAN)
      BY <2>3, <3>1, PlansAssumption DEF Run
    <3>3. QED
      BY <2>6, <3>2, SameDomainSameLength
  <2>9. QED
    BY <2>4, <2>5, <2>6, <2>7, <2>8
<1>2. BegunAsPrepared <=> [][Prepared]_submissionVars
  BY DEF BegunAsPrepared
<1>3. SubmissionSpec => []AllOK
  BY SubmissionsUseTheStore, EachRunOK, PTL
<1> HIDE DEF Prepared
<1>4. QED
  BY <1>1, <1>2, <1>3, SubmissionTyped, PTL DEF SubmissionSpec
=============================================================================

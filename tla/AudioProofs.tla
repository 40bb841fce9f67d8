------------------------------- MODULE AudioProofs -------------------------------
(*****************************************************************************)
(* Proofs about AudioJobs: whatever crashes, recoveries and stale cancel     *)
(* requests do, jobs are handed out once and within their attempts, their    *)
(* audio is kept as long as it may be needed, completed ones have their      *)
(* result, and cancelled ones do not complete.  All of them follow from one  *)
(* inductive invariant, Inv.                                                 *)
(*****************************************************************************)
EXTENDS AudioJobs, SequenceTheorems, TLAPS

InQueue(j) == \E a \in DOMAIN queue : queue[a] = j

QueueOnce == \A a, b \in DOMAIN queue : queue[a] = queue[b] => a = b

\* Before its message is in the list, only the gateway knows of a job.
FreshJobs ==
    \A j \in Jobs :
        /\ upload[j] # "acknowledged" =>
              /\ ~InQueue(j) /\ ~Holds(j) /\ plan[j] = "none"
              /\ jobs[j].attempts = 0
              /\ jobs[j].status \in {"absent", "queued", "cancelled"}
        /\ upload[j] \in {"none", "checked", "saved"} => jobs[j].status = "absent"
        /\ upload[j] \in {"saved", "created"} => j \in inputs
        /\ reading[j] # None => jobs[j].status # "absent"

\* A job in the list is nowhere else, and has an attempt left.
WaitingJobs ==
    \A j \in Jobs : InQueue(j) =>
        /\ ~Holds(j) /\ plan[j] # "requeue"
        /\ jobs[j].status # "processing"
        /\ jobs[j].attempts < MaxAttempts

\* Recovery only decides about jobs that were processing.
PlannedJobs ==
    \A j \in Jobs :
        /\ plan[j] # "none" => worker.at \in {"recovering", "requeueing"}
        /\ plan[j] = "requeue" => jobs[j].attempts < MaxAttempts /\ j \in inputs

\* What the worker relies on at each position.
HeldJob ==
    worker.at \in Busy =>
        /\ worker.job \in Jobs
        /\ worker.at \in Before => jobs[worker.job].attempts < MaxAttempts
        /\ worker.at = "loaded" => worker.job \in inputs
        /\ worker.at = "saved" => worker.job \in results
        /\ worker.at = "cleaning" => jobs[worker.job].status \in Terminal

Inv == /\ TypeOK
       /\ QueueOnce /\ FreshJobs /\ WaitingJobs /\ PlannedJobs /\ HeldJob
       /\ ProcessingIsOwned /\ InputKeptWhileActive /\ CompletedHasResult
-----------------------------------------------------------------------------
\* A message pushed at the end of the list.
LEMMA Pushed ==
    ASSUME queue \in Seq(Jobs), NEW j \in Jobs, queue' = Append(queue, j)
    PROVE  /\ queue' \in Seq(Jobs)
           /\ \A k : InQueue(k)' <=> InQueue(k) \/ k = j
           /\ QueueOnce /\ ~InQueue(j) => QueueOnce'
<1>1. /\ queue' \in Seq(Jobs)
      /\ DOMAIN queue = 1..Len(queue) /\ Len(queue) \in Nat
      /\ DOMAIN queue' = 1..(Len(queue) + 1)
      /\ \A i \in 1..Len(queue) : queue'[i] = queue[i]
      /\ queue'[Len(queue) + 1] = j
  BY AppendProperties, LenProperties
<1>2. \A k : InQueue(k)' <=> InQueue(k) \/ k = j
  BY <1>1 DEF InQueue
<1>3. QueueOnce /\ ~InQueue(j) => QueueOnce'
  BY <1>1 DEF QueueOnce, InQueue
<1>4. QED
  BY <1>1, <1>2, <1>3

\* The message popped from the front of a list without repetitions.
LEMMA Popped ==
    ASSUME queue \in Seq(Jobs), queue # <<>>, queue' = Tail(queue), QueueOnce
    PROVE  /\ Head(queue) \in Jobs /\ InQueue(Head(queue))
           /\ queue' \in Seq(Jobs) /\ QueueOnce'
           /\ \A k : InQueue(k)' => InQueue(k) /\ k # Head(queue)
<1>1. /\ Head(queue) \in Jobs /\ Head(queue) = queue[1]
      /\ queue' \in Seq(Jobs)
      /\ DOMAIN queue = 1..Len(queue) /\ Len(queue) \in Nat /\ Len(queue) # 0
      /\ DOMAIN queue' = 1..(Len(queue) - 1)
      /\ \A i \in 1..(Len(queue) - 1) : queue'[i] = queue[i + 1]
  BY HeadTailProperties, LenProperties, EmptySeq
<1>2. InQueue(Head(queue))
  BY <1>1 DEF InQueue
<1>3. QueueOnce'
  BY <1>1 DEF QueueOnce
<1>4. \A k : InQueue(k)' => InQueue(k) /\ k # Head(queue)
  BY <1>1 DEF InQueue, QueueOnce
<1>5. QED
  BY <1>1, <1>2, <1>3, <1>4

\* The list is left alone.
LEMMA QueueKept ==
    ASSUME queue' = queue
    PROVE  /\ \A k : InQueue(k)' <=> InQueue(k)
           /\ QueueOnce => QueueOnce'
  BY DEF InQueue, QueueOnce

\* It holds initially.
LEMMA InitInv == ASSUME Init PROVE Inv
<1>1. \A k : ~InQueue(k)
  BY DEF Init, InQueue
<1>2. QueueOnce
  BY DEF Init, QueueOnce
<1>3. QED
  BY <1>1, <1>2, BoundsAssumption, NoJobAssumption
     DEF Init, Inv, TypeOK, Job, FreshJobs, WaitingJobs, PlannedJobs, HeldJob, Holds, Busy,
         Before, Attempt, ProcessingIsOwned, InputKeptWhileActive, ActiveJobs,
         CompletedHasResult, Terminal

\* EnsureCapacity keeps the invariant.
LEMMA EnsureCapacityInv == ASSUME Inv, NEW j \in Jobs, EnsureCapacity(j) PROVE Inv'
  BY QueueKept, BoundsAssumption, NoJobAssumption
     DEF Inv, EnsureCapacity, UploadMoves, TypeOK, Job, FreshJobs, WaitingJobs, PlannedJobs,
         HeldJob, Holds, Busy, Before, Attempt, ProcessingIsOwned, InputKeptWhileActive,
         ActiveJobs, CompletedHasResult, Terminal

\* SaveUpload keeps the invariant.
LEMMA SaveUploadInv == ASSUME Inv, NEW j \in Jobs, SaveUpload(j) PROVE Inv'
  BY QueueKept, BoundsAssumption, NoJobAssumption
     DEF Inv, SaveUpload, UploadMoves, TypeOK, Job, FreshJobs, WaitingJobs, PlannedJobs,
         HeldJob, Holds, Busy, Before, Attempt, ProcessingIsOwned, InputKeptWhileActive,
         ActiveJobs, CompletedHasResult, Terminal

\* CreateJob keeps the invariant.
LEMMA CreateJobInv == ASSUME Inv, NEW j \in Jobs, NEW s \in BOOLEAN, CreateJob(j, s) PROVE Inv'
<1> DEFINE v == [jobs[j] EXCEPT !.status = "queued", !.speakers = s]
<1>1. /\ upload[j] = "saved" /\ upload' = [upload EXCEPT ![j] = "created"]
      /\ jobs' = [jobs EXCEPT ![j] = v]
      /\ UNCHANGED <<reading, queue, inputs, results, worker, plan, faults>>
  BY DEF CreateJob, UploadMoves, Inv, TypeOK
<1>2. /\ jobs \in [Jobs -> Job] /\ jobs[j] \in Job
      /\ worker \in [at : Busy \cup {"down", "recovering", "requeueing", "idle"}, job : Jobs \cup {None}]
  BY DEF Inv, TypeOK
<1>3. /\ v \in Job
      /\ v.status = "queued" /\ v.attempts = jobs[j].attempts
  BY <1>2 DEF Job, Terminal
<1>4. /\ jobs' \in [Jobs -> Job]
      /\ jobs'[j] = v
      /\ \A i \in Jobs \ {j} : jobs'[i] = jobs[i]
  BY <1>1, <1>2, <1>3
<1> HIDE DEF v
<1>5. TypeOK'
  BY <1>1, <1>2, <1>3, <1>4, QueueKept DEF Inv, TypeOK, Busy, Before, Attempt, Terminal
<1>6. FreshJobs'
  BY <1>1, <1>2, <1>3, <1>4, QueueKept
     DEF Inv, FreshJobs, TypeOK, Holds, Busy, Before, Attempt, Terminal
<1>7. WaitingJobs'
  BY <1>1, <1>2, <1>3, <1>4, QueueKept
     DEF Inv, WaitingJobs, Holds, Busy, Before, Attempt, Terminal
<1>8. PlannedJobs'
  BY <1>1, <1>2, <1>3, <1>4 DEF Inv, PlannedJobs, Busy, Before, Attempt, Terminal
<1>9. HeldJob'
  BY <1>1, <1>2, <1>3, <1>4 DEF Inv, HeldJob, FreshJobs, Holds, Busy, Before, Attempt, Terminal
<1>10. ProcessingIsOwned'
  BY <1>1, <1>2, <1>3, <1>4 DEF Inv, ProcessingIsOwned, Busy, Before, Attempt, Terminal
<1>11. InputKeptWhileActive'
  BY <1>1, <1>2, <1>3, <1>4
     DEF Inv, InputKeptWhileActive, ActiveJobs, FreshJobs, Busy, Before, Attempt, Terminal
<1>12. CompletedHasResult'
  BY <1>1, <1>2, <1>3, <1>4 DEF Inv, CompletedHasResult, Busy, Before, Attempt, Terminal
<1>13. QED
  BY <1>1, <1>5, <1>6, <1>7, <1>8, <1>9, <1>10, <1>11, <1>12, QueueKept DEF Inv

\* UploadBreaks keeps the invariant.
LEMMA UploadBreaksInv == ASSUME Inv, NEW j \in Jobs, UploadBreaks(j) PROVE Inv'
  BY QueueKept, BoundsAssumption, NoJobAssumption
     DEF Inv, UploadBreaks, UploadMoves, TypeOK, Job, FreshJobs, WaitingJobs, PlannedJobs,
         HeldJob, Holds, Busy, Before, Attempt, ProcessingIsOwned, InputKeptWhileActive,
         ActiveJobs, CompletedHasResult, Terminal

\* ReadForCancel keeps the invariant.
LEMMA ReadForCancelInv == ASSUME Inv, NEW j \in Jobs, ReadForCancel(j) PROVE Inv'
  BY QueueKept, BoundsAssumption, NoJobAssumption
     DEF Inv, ReadForCancel, UploadMoves, TypeOK, Job, FreshJobs, WaitingJobs, PlannedJobs,
         HeldJob, Holds, Busy, Before, Attempt, ProcessingIsOwned, InputKeptWhileActive,
         ActiveJobs, CompletedHasResult, Terminal

\* WriteCancel keeps the invariant.
LEMMA WriteCancelInv == ASSUME Inv, NEW j \in Jobs, WriteCancel(j) PROVE Inv'
<1> DEFINE v == [jobs[j] EXCEPT !.cancel = TRUE,
                               !.status = IF reading[j] = "queued" THEN "cancelled" ELSE @]
<1>1. /\ reading[j] # None /\ reading' = [reading EXCEPT ![j] = None]
      /\ jobs' = [jobs EXCEPT ![j] = v]
      /\ UNCHANGED <<upload, queue, inputs, results, worker, plan, faults>>
  BY DEF WriteCancel, UploadMoves, Inv, TypeOK
<1>2. /\ jobs \in [Jobs -> Job] /\ jobs[j] \in Job
      /\ worker \in [at : Busy \cup {"down", "recovering", "requeueing", "idle"}, job : Jobs \cup {None}]
  BY DEF Inv, TypeOK
<1>3. /\ v \in Job
      /\ v.status \in {jobs[j].status, "cancelled"} /\ v.attempts = jobs[j].attempts
      /\ v.result = jobs[j].result
  BY <1>2 DEF Job, Terminal
<1>4. /\ jobs' \in [Jobs -> Job]
      /\ jobs'[j] = v
      /\ \A i \in Jobs \ {j} : jobs'[i] = jobs[i]
  BY <1>1, <1>2, <1>3
<1> HIDE DEF v
<1>5. TypeOK'
  BY <1>1, <1>2, <1>3, <1>4, QueueKept DEF Inv, TypeOK, Busy, Before, Attempt, Terminal
<1>6. FreshJobs'
  BY <1>1, <1>2, <1>3, <1>4, QueueKept
     DEF Inv, FreshJobs, Holds, Busy, Before, Attempt, Terminal
<1>7. WaitingJobs'
  BY <1>1, <1>2, <1>3, <1>4, QueueKept
     DEF Inv, WaitingJobs, Holds, Busy, Before, Attempt, Terminal
<1>8. PlannedJobs'
  BY <1>1, <1>2, <1>3, <1>4 DEF Inv, PlannedJobs, Busy, Before, Attempt, Terminal
<1>9. HeldJob'
  BY <1>1, <1>2, <1>3, <1>4 DEF Inv, HeldJob, Busy, Before, Attempt, Terminal
<1>10. ProcessingIsOwned'
  BY <1>1, <1>2, <1>3, <1>4 DEF Inv, ProcessingIsOwned, Busy, Before, Attempt, Terminal
<1>11. InputKeptWhileActive'
  BY <1>1, <1>2, <1>3, <1>4
     DEF Inv, InputKeptWhileActive, ActiveJobs, Busy, Before, Attempt, Terminal
<1>12. CompletedHasResult'
  BY <1>1, <1>2, <1>3, <1>4 DEF Inv, CompletedHasResult, Busy, Before, Attempt, Terminal
<1>13. QED
  BY <1>1, <1>5, <1>6, <1>7, <1>8, <1>9, <1>10, <1>11, <1>12, QueueKept DEF Inv

\* RecoverRead keeps the invariant.
LEMMA RecoverReadInv == ASSUME Inv, RecoverRead PROVE Inv'
  BY QueueKept, BoundsAssumption, NoJobAssumption
     DEF Inv, RecoverRead, Continue, WorkerAt, CancelSeen, Decision, TypeOK, Job, FreshJobs,
         WaitingJobs, PlannedJobs, HeldJob, Holds, Busy, Before, Attempt, ProcessingIsOwned,
         InputKeptWhileActive, ActiveJobs, CompletedHasResult, Terminal

\* RecoverCommit keeps the invariant.
LEMMA RecoverCommitInv == ASSUME Inv, RecoverCommit PROVE Inv'
<1>1. /\ worker.at = "recovering" /\ worker' = [worker EXCEPT !.at = "requeueing"]
      /\ UNCHANGED <<upload, reading, queue, inputs, results, plan, faults>>
  BY DEF RecoverCommit
<1>2. worker' = [at |-> "requeueing", job |-> worker.job]
  BY <1>1 DEF Inv, TypeOK
<1>3. ASSUME NEW j \in Jobs
      PROVE  /\ jobs'[j] \in Job
             /\ jobs'[j].status = CASE plan[j] = "cancel" -> "cancelled"
                                    [] plan[j] = "fail" -> "failed"
                                    [] plan[j] = "requeue" -> "queued"
                                    [] OTHER -> jobs[j].status
             /\ jobs'[j].attempts = jobs[j].attempts
             /\ jobs'[j].result = jobs[j].result
  BY <1>3 DEF RecoverCommit, Inv, TypeOK, Job, Terminal
<1>4. jobs' \in [Jobs -> Job]
  BY <1>3 DEF RecoverCommit
<1>5. TypeOK'
  BY <1>1, <1>2, <1>3, <1>4, QueueKept DEF Inv, TypeOK, Busy, Before, Attempt, Terminal
<1>6. FreshJobs'
  BY <1>1, <1>2, <1>3, <1>4, QueueKept
     DEF Inv, FreshJobs, Holds, Busy, Before, Attempt, Terminal
<1>7. WaitingJobs'
  BY <1>1, <1>2, <1>3, <1>4, QueueKept
     DEF Inv, WaitingJobs, Holds, Busy, Before, Attempt, Terminal
<1>8. PlannedJobs'
  BY <1>1, <1>2, <1>3, <1>4 DEF Inv, PlannedJobs, Busy, Before, Attempt, Terminal
<1>9. HeldJob'
  BY <1>1, <1>2, <1>3, <1>4 DEF Inv, HeldJob, Busy, Before, Attempt, Terminal
<1>10. ProcessingIsOwned'
  BY <1>1, <1>2, <1>3, <1>4 DEF Inv, ProcessingIsOwned, TypeOK, Busy, Before, Attempt, Terminal
<1>11. InputKeptWhileActive'
  BY <1>1, <1>2, <1>3, <1>4
     DEF Inv, InputKeptWhileActive, ActiveJobs, PlannedJobs, TypeOK, Busy, Before, Attempt,
         Terminal
<1>12. CompletedHasResult'
  BY <1>1, <1>2, <1>3, <1>4 DEF Inv, CompletedHasResult, Busy, Before, Attempt, Terminal
<1>13. QED
  BY <1>1, <1>5, <1>6, <1>7, <1>8, <1>9, <1>10, <1>11, <1>12, QueueKept DEF Inv

\* StartLoop keeps the invariant.
LEMMA StartLoopInv == ASSUME Inv, StartLoop PROVE Inv'
  BY QueueKept, BoundsAssumption, NoJobAssumption
     DEF Inv, StartLoop, Continue, WorkerAt, CancelSeen, Decision, TypeOK, Job, FreshJobs,
         WaitingJobs, PlannedJobs, HeldJob, Holds, Busy, Before, Attempt, ProcessingIsOwned,
         InputKeptWhileActive, ActiveJobs, CompletedHasResult, Terminal

\* The worker goes on with its job: what the new position relies on must hold.
LEMMA Moved ==
    ASSUME Inv, worker.at \in Busy, NEW to \in Attempt \cup {"loaded", "cleaning", "idle"},
           Continue(to),
           to = "loaded" => /\ worker.at \in Before
                            /\ worker.job \in inputs,
           to = "saved" => worker.job \in results,
           to = "cleaning" => jobs[worker.job].status \in Terminal,
           to \notin Attempt => jobs[worker.job].status # "processing"
    PROVE  Inv'
<1>1. UNCHANGED <<jobs, upload, reading, queue, inputs, results, plan, faults>>
  BY DEF Continue
<1>2. /\ worker \in [at : Busy \cup {"down", "recovering", "requeueing", "idle"}, job : Jobs \cup {None}]
      /\ worker.job \in Jobs
  BY DEF Inv, TypeOK, HeldJob
<1>3. worker' = [at |-> to, job |-> worker.job]
  BY <1>2 DEF Continue
<1>4. TypeOK'
  BY <1>1, <1>2, <1>3, QueueKept DEF Inv, TypeOK, Busy, Before, Attempt, Terminal
<1>5. FreshJobs'
  BY <1>1, <1>2, <1>3, QueueKept DEF Inv, FreshJobs, Holds, Busy, Before, Attempt, Terminal
<1>6. WaitingJobs'
  BY <1>1, <1>2, <1>3, QueueKept DEF Inv, WaitingJobs, Holds, Busy, Before, Attempt, Terminal
<1>7. PlannedJobs'
  BY <1>1, <1>2, <1>3 DEF Inv, PlannedJobs, Busy, Before, Attempt, Terminal
<1>8. HeldJob'
  BY <1>1, <1>2, <1>3 DEF Inv, HeldJob, Busy, Before, Attempt, Terminal
<1>9. ProcessingIsOwned'
  BY <1>1, <1>2, <1>3 DEF Inv, ProcessingIsOwned, Busy, Before, Attempt, Terminal
<1>10. InputKeptWhileActive'
  BY <1>1, <1>2, <1>3 DEF Inv, InputKeptWhileActive, ActiveJobs, Busy, Before, Attempt, Terminal
<1>11. CompletedHasResult'
  BY <1>1, <1>2, <1>3 DEF Inv, CompletedHasResult, Busy, Before, Attempt, Terminal
<1>12. QED
  BY <1>1, <1>4, <1>5, <1>6, <1>7, <1>8, <1>9, <1>10, <1>11, QueueKept DEF Inv

\* LoadJob keeps the invariant.
LEMMA LoadJobInv == ASSUME Inv, LoadJob PROVE Inv'
<1> DEFINE st == jobs[worker.job].status
<1>1. /\ worker.at = "popped" /\ worker.job \in Jobs
      /\ worker.at \in Busy /\ worker.at \in Before /\ worker.at \notin Attempt
  BY DEF Inv, LoadJob, WorkerAt, HeldJob, Busy, Before, Attempt
<1>2. CASE st \in {"completed", "failed"} /\ Continue("idle")
  BY <1>1, <1>2, Moved DEF Attempt
<1>3. CASE st = "cancelled" /\ Continue("cleaning")
  BY <1>1, <1>3, Moved DEF Attempt, Terminal
<1>4. CASE st \in {"queued", "processing"} /\ CancelSeen /\ Continue("cancelling")
  BY <1>1, <1>4, Moved DEF Attempt
<1>5. CASE st \in {"queued", "processing"} /\ ~CancelSeen /\ Continue("loaded")
  <2>1. worker.job \in inputs
    BY <1>1, <1>5 DEF Inv, InputKeptWhileActive, ActiveJobs
  <2>2. st # "processing"
    BY <1>1 DEF Inv, ProcessingIsOwned
  <2>3. QED
    BY <1>1, <1>5, <2>1, <2>2, Moved DEF Attempt
<1>6. QED
  BY <1>2, <1>3, <1>4, <1>5 DEF LoadJob

\* MarkProcessing keeps the invariant.
LEMMA MarkProcessingInv == ASSUME Inv, MarkProcessing PROVE Inv'
<1> DEFINE w == worker.job
           v == [jobs[w] EXCEPT !.status = "processing", !.attempts = @ + 1]
<1>1. /\ worker.at = "loaded" /\ worker.job \in Jobs
      /\ worker' = [worker EXCEPT !.at = "transcribing"]
      /\ jobs' = [jobs EXCEPT ![w].status = "processing", ![w].attempts = @ + 1]
      /\ UNCHANGED <<upload, reading, queue, inputs, results, plan, faults>>
  BY DEF Inv, MarkProcessing, WorkerAt, HeldJob, Busy, Before, Attempt
<1>2. worker' = [at |-> "transcribing", job |-> worker.job]
  BY <1>1 DEF Inv, TypeOK
<1>3. jobs \in [Jobs -> Job] /\ jobs[w] \in Job
  BY <1>1 DEF Inv, TypeOK
<1>4. /\ jobs[w].attempts < MaxAttempts /\ w \in inputs
      /\ jobs[w].attempts + 1 \in 0..MaxAttempts
  BY <1>1, <1>3, BoundsAssumption DEF Inv, HeldJob, Busy, Before, Job
<1>5. /\ v \in Job
      /\ v.status = "processing"
  BY <1>3, <1>4 DEF Job, Terminal
<1>6. jobs' = [jobs EXCEPT ![w] = v]
  BY <1>1, <1>3
<1>7. /\ jobs' \in [Jobs -> Job]
      /\ jobs'[w] = v
      /\ \A j \in Jobs \ {w} : jobs'[j] = jobs[j]
  BY <1>1, <1>3, <1>5, <1>6
<1> HIDE DEF v
<1>8. TypeOK'
  BY <1>1, <1>2, <1>5, <1>7, <1>4, QueueKept DEF Inv, TypeOK, Busy, Before, Attempt, Terminal
<1>9. FreshJobs'
  BY <1>1, <1>2, <1>5, <1>7, <1>4, QueueKept
     DEF Inv, FreshJobs, Holds, Busy, Before, Attempt, Terminal
<1>10. WaitingJobs'
  BY <1>1, <1>2, <1>5, <1>7, <1>4, QueueKept
     DEF Inv, WaitingJobs, Holds, Busy, Before, Attempt, Terminal
<1>11. PlannedJobs'
  BY <1>1, <1>2, <1>5, <1>7, <1>4 DEF Inv, PlannedJobs, Busy, Before, Attempt, Terminal
<1>12. HeldJob'
  BY <1>1, <1>2, <1>5, <1>7, <1>4 DEF Inv, HeldJob, Busy, Before, Attempt, Terminal
<1>13. ProcessingIsOwned'
  BY <1>1, <1>2, <1>5, <1>7, <1>4 DEF Inv, ProcessingIsOwned, Busy, Before, Attempt, Terminal
<1>14. InputKeptWhileActive'
  BY <1>1, <1>2, <1>5, <1>7, <1>4
     DEF Inv, InputKeptWhileActive, ActiveJobs, Busy, Before, Attempt, Terminal
<1>15. CompletedHasResult'
  BY <1>1, <1>2, <1>5, <1>7, <1>4 DEF Inv, CompletedHasResult, Busy, Before, Attempt, Terminal
<1>16. QED
  BY <1>1, <1>8, <1>9, <1>10, <1>11, <1>12, <1>13, <1>14, <1>15, QueueKept DEF Inv

\* Transcribe keeps the invariant.
LEMMA TranscribeInv == ASSUME Inv, Transcribe PROVE Inv'
<1>1. \E to \in {"failing", "cancelling", "transcribed"} : Continue(to)
  BY DEF Transcribe
<1>2. worker.at \in Busy
  BY DEF Transcribe, WorkerAt, Busy, Attempt
<1>3. QED
  BY <1>1, <1>2, Moved DEF Attempt

\* Validate keeps the invariant.
LEMMA ValidateInv == ASSUME Inv, Validate PROVE Inv'
<1>1. \E to \in {"failing", "diarizing", "saving"} : Continue(to)
  BY DEF Validate
<1>2. worker.at \in Busy
  BY DEF Validate, WorkerAt, Busy, Attempt
<1>3. QED
  BY <1>1, <1>2, Moved DEF Attempt

\* Diarize keeps the invariant.
LEMMA DiarizeInv == ASSUME Inv, Diarize PROVE Inv'
<1>1. \E to \in {"cancelling", "saving"} : Continue(to)
  BY DEF Diarize
<1>2. worker.at \in Busy
  BY DEF Diarize, WorkerAt, Busy, Attempt
<1>3. QED
  BY <1>1, <1>2, Moved DEF Attempt

\* WriteResult keeps the invariant.
LEMMA WriteResultInv == ASSUME Inv, WriteResult PROVE Inv'
  BY QueueKept, BoundsAssumption, NoJobAssumption
     DEF Inv, WriteResult, Continue, WorkerAt, CancelSeen, Decision, TypeOK, Job, FreshJobs,
         WaitingJobs, PlannedJobs, HeldJob, Holds, Busy, Before, Attempt, ProcessingIsOwned,
         InputKeptWhileActive, ActiveJobs, CompletedHasResult, Terminal

\* MarkCompleted keeps the invariant.
LEMMA MarkCompletedInv == ASSUME Inv, MarkCompleted PROVE Inv'
<1> DEFINE w == worker.job
           v == [jobs[w] EXCEPT !.status = "completed", !.result = TRUE]
<1>1. /\ worker.at = "saved" /\ worker.job \in Jobs
      /\ worker' = [worker EXCEPT !.at = "cleaning"]
      /\ jobs' = [jobs EXCEPT ![w].status = "completed", ![w].result = TRUE]
      /\ UNCHANGED <<upload, reading, queue, inputs, results, plan, faults>>
  BY DEF Inv, MarkCompleted, WorkerAt, HeldJob, Busy, Before, Attempt
<1>2. worker' = [at |-> "cleaning", job |-> worker.job]
  BY <1>1 DEF Inv, TypeOK
<1>3. jobs \in [Jobs -> Job] /\ jobs[w] \in Job
  BY <1>1 DEF Inv, TypeOK
<1>4. /\ v \in Job
      /\ v.status = "completed" /\ v.attempts = jobs[w].attempts
      /\ v.result
  BY <1>3 DEF Job, Terminal
<1>5. jobs' = [jobs EXCEPT ![w] = v]
  BY <1>1, <1>3
<1>6. /\ jobs' \in [Jobs -> Job]
      /\ jobs'[w] = v
      /\ \A j \in Jobs \ {w} : jobs'[j] = jobs[j]
  BY <1>1, <1>3, <1>4, <1>5
<1> HIDE DEF v
<1>7. TypeOK'
  BY <1>1, <1>2, <1>4, <1>6, QueueKept DEF Inv, TypeOK, Busy, Before, Attempt, Terminal
<1>8. FreshJobs'
  BY <1>1, <1>2, <1>4, <1>6, QueueKept
     DEF Inv, FreshJobs, Holds, Busy, Before, Attempt, Terminal
<1>9. WaitingJobs'
  BY <1>1, <1>2, <1>4, <1>6, QueueKept
     DEF Inv, WaitingJobs, Holds, Busy, Before, Attempt, Terminal
<1>10. PlannedJobs'
  BY <1>1, <1>2, <1>4, <1>6 DEF Inv, PlannedJobs, Busy, Before, Attempt, Terminal
<1>11. HeldJob'
  BY <1>1, <1>2, <1>4, <1>6 DEF Inv, HeldJob, Busy, Before, Attempt, Terminal
<1>12. ProcessingIsOwned'
  BY <1>1, <1>2, <1>4, <1>6 DEF Inv, ProcessingIsOwned, Busy, Before, Attempt, Terminal
<1>13. InputKeptWhileActive'
  BY <1>1, <1>2, <1>4, <1>6
     DEF Inv, InputKeptWhileActive, ActiveJobs, Busy, Before, Attempt, Terminal
<1>14. CompletedHasResult'
  BY <1>1, <1>2, <1>4, <1>6
     DEF Inv, CompletedHasResult, HeldJob, Busy, Before, Attempt, Terminal
<1>15. QED
  BY <1>1, <1>7, <1>8, <1>9, <1>10, <1>11, <1>12, <1>13, <1>14, QueueKept DEF Inv

\* MarkCancelled keeps the invariant.
LEMMA MarkCancelledInv == ASSUME Inv, MarkCancelled PROVE Inv'
<1> DEFINE w == worker.job
           v == [jobs[w] EXCEPT !.status = "cancelled"]
<1>1. /\ worker.at = "cancelling" /\ worker.job \in Jobs
      /\ worker' = [worker EXCEPT !.at = "cleaning"]
      /\ jobs' = [jobs EXCEPT ![w].status = "cancelled"]
      /\ UNCHANGED <<upload, reading, queue, inputs, results, plan, faults>>
  BY DEF Inv, MarkCancelled, WorkerAt, HeldJob, Busy, Before, Attempt
<1>2. worker' = [at |-> "cleaning", job |-> worker.job]
  BY <1>1 DEF Inv, TypeOK
<1>3. jobs \in [Jobs -> Job] /\ jobs[w] \in Job
  BY <1>1 DEF Inv, TypeOK
<1>4. /\ v \in Job
      /\ v.status = "cancelled" /\ v.attempts = jobs[w].attempts
  BY <1>3 DEF Job, Terminal
<1>5. jobs' = [jobs EXCEPT ![w] = v]
  BY <1>1, <1>3
<1>6. /\ jobs' \in [Jobs -> Job]
      /\ jobs'[w] = v
      /\ \A j \in Jobs \ {w} : jobs'[j] = jobs[j]
  BY <1>1, <1>3, <1>4, <1>5
<1> HIDE DEF v
<1>7. TypeOK'
  BY <1>1, <1>2, <1>4, <1>6, QueueKept DEF Inv, TypeOK, Busy, Before, Attempt, Terminal
<1>8. FreshJobs'
  BY <1>1, <1>2, <1>4, <1>6, QueueKept
     DEF Inv, FreshJobs, Holds, Busy, Before, Attempt, Terminal
<1>9. WaitingJobs'
  BY <1>1, <1>2, <1>4, <1>6, QueueKept
     DEF Inv, WaitingJobs, Holds, Busy, Before, Attempt, Terminal
<1>10. PlannedJobs'
  BY <1>1, <1>2, <1>4, <1>6 DEF Inv, PlannedJobs, Busy, Before, Attempt, Terminal
<1>11. HeldJob'
  BY <1>1, <1>2, <1>4, <1>6 DEF Inv, HeldJob, Busy, Before, Attempt, Terminal
<1>12. ProcessingIsOwned'
  BY <1>1, <1>2, <1>4, <1>6 DEF Inv, ProcessingIsOwned, Busy, Before, Attempt, Terminal
<1>13. InputKeptWhileActive'
  BY <1>1, <1>2, <1>4, <1>6
     DEF Inv, InputKeptWhileActive, ActiveJobs, Busy, Before, Attempt, Terminal
<1>14. CompletedHasResult'
  BY <1>1, <1>2, <1>4, <1>6 DEF Inv, CompletedHasResult, Busy, Before, Attempt, Terminal
<1>15. QED
  BY <1>1, <1>7, <1>8, <1>9, <1>10, <1>11, <1>12, <1>13, <1>14, QueueKept DEF Inv

\* MarkFailed keeps the invariant.
LEMMA MarkFailedInv == ASSUME Inv, MarkFailed PROVE Inv'
<1> DEFINE w == worker.job
           v == [jobs[w] EXCEPT !.status = "failed"]
<1>1. /\ worker.at = "failing" /\ worker.job \in Jobs
      /\ worker' = [worker EXCEPT !.at = "idle"]
      /\ jobs' = [jobs EXCEPT ![w].status = "failed"]
      /\ UNCHANGED <<upload, reading, queue, inputs, results, plan, faults>>
  BY DEF Inv, MarkFailed, WorkerAt, HeldJob, Busy, Before, Attempt
<1>2. worker' = [at |-> "idle", job |-> worker.job]
  BY <1>1 DEF Inv, TypeOK
<1>3. jobs \in [Jobs -> Job] /\ jobs[w] \in Job
  BY <1>1 DEF Inv, TypeOK
<1>4. /\ v \in Job
      /\ v.status = "failed" /\ v.attempts = jobs[w].attempts
  BY <1>3 DEF Job, Terminal
<1>5. jobs' = [jobs EXCEPT ![w] = v]
  BY <1>1, <1>3
<1>6. /\ jobs' \in [Jobs -> Job]
      /\ jobs'[w] = v
      /\ \A j \in Jobs \ {w} : jobs'[j] = jobs[j]
  BY <1>1, <1>3, <1>4, <1>5
<1> HIDE DEF v
<1>7. TypeOK'
  BY <1>1, <1>2, <1>4, <1>6, QueueKept DEF Inv, TypeOK, Busy, Before, Attempt, Terminal
<1>8. FreshJobs'
  BY <1>1, <1>2, <1>4, <1>6, QueueKept
     DEF Inv, FreshJobs, Holds, Busy, Before, Attempt, Terminal
<1>9. WaitingJobs'
  BY <1>1, <1>2, <1>4, <1>6, QueueKept
     DEF Inv, WaitingJobs, Holds, Busy, Before, Attempt, Terminal
<1>10. PlannedJobs'
  BY <1>1, <1>2, <1>4, <1>6 DEF Inv, PlannedJobs, Busy, Before, Attempt, Terminal
<1>11. HeldJob'
  BY <1>1, <1>2, <1>4, <1>6 DEF Inv, HeldJob, Busy, Before, Attempt, Terminal
<1>12. ProcessingIsOwned'
  BY <1>1, <1>2, <1>4, <1>6 DEF Inv, ProcessingIsOwned, Busy, Before, Attempt, Terminal
<1>13. InputKeptWhileActive'
  BY <1>1, <1>2, <1>4, <1>6
     DEF Inv, InputKeptWhileActive, ActiveJobs, Busy, Before, Attempt, Terminal
<1>14. CompletedHasResult'
  BY <1>1, <1>2, <1>4, <1>6 DEF Inv, CompletedHasResult, Busy, Before, Attempt, Terminal
<1>15. QED
  BY <1>1, <1>7, <1>8, <1>9, <1>10, <1>11, <1>12, <1>13, <1>14, QueueKept DEF Inv

\* CleanupInput keeps the invariant.
LEMMA CleanupInputInv == ASSUME Inv, CleanupInput PROVE Inv'
  BY QueueKept, BoundsAssumption, NoJobAssumption
     DEF Inv, CleanupInput, Continue, WorkerAt, CancelSeen, Decision, TypeOK, Job,
         FreshJobs, WaitingJobs, PlannedJobs, HeldJob, Holds, Busy, Before, Attempt,
         ProcessingIsOwned, InputKeptWhileActive, ActiveJobs, CompletedHasResult, Terminal

\* Crash keeps the invariant.
LEMMA CrashInv == ASSUME Inv, Crash PROVE Inv'
  BY QueueKept, BoundsAssumption, NoJobAssumption
     DEF Inv, Crash, Continue, WorkerAt, CancelSeen, Decision, TypeOK, Job, FreshJobs,
         WaitingJobs, PlannedJobs, HeldJob, Holds, Busy, Before, Attempt, ProcessingIsOwned,
         InputKeptWhileActive, ActiveJobs, CompletedHasResult, Terminal

\* Enqueue keeps the invariant.
LEMMA EnqueueInv == ASSUME Inv, NEW j \in Jobs, Enqueue(j) PROVE Inv'
<1>1. /\ upload[j] = "created" /\ upload' = [upload EXCEPT ![j] = "acknowledged"]
      /\ queue' = Append(queue, j)
      /\ UNCHANGED <<jobs, reading, inputs, results, worker, plan, faults>>
  BY DEF Enqueue, UploadMoves
<1>2. /\ queue' \in Seq(Jobs) /\ QueueOnce'
      /\ \A k : InQueue(k)' <=> InQueue(k) \/ k = j
  BY <1>1, Pushed DEF Inv, TypeOK, FreshJobs
<1>3. /\ ~Holds(j) /\ plan[j] = "none" /\ jobs[j].status # "processing"
      /\ jobs[j].attempts < MaxAttempts
  BY <1>1, BoundsAssumption DEF Inv, FreshJobs
<1>4. QED
  BY <1>1, <1>2, <1>3, NoJobAssumption
     DEF Inv, TypeOK, FreshJobs, WaitingJobs, PlannedJobs, HeldJob, Holds, Busy, Before,
         Attempt, ProcessingIsOwned, InputKeptWhileActive, ActiveJobs, CompletedHasResult,
         Terminal

\* Requeue keeps the invariant.
LEMMA RequeueInv == ASSUME Inv, NEW j \in Jobs, Requeue(j) PROVE Inv'
  BY Pushed, BoundsAssumption, NoJobAssumption
     DEF Inv, Requeue, UploadMoves, TypeOK, Job, FreshJobs, WaitingJobs, PlannedJobs,
         HeldJob, Holds, Busy, Before, Attempt, ProcessingIsOwned, InputKeptWhileActive,
         ActiveJobs, CompletedHasResult, Terminal

\* Pop keeps the invariant.
LEMMA PopInv == ASSUME Inv, Pop PROVE Inv'
  BY Popped, BoundsAssumption, NoJobAssumption
     DEF Inv, Pop, TypeOK, Job, FreshJobs, WaitingJobs, PlannedJobs, HeldJob, Holds, Busy,
         Before, Attempt, ProcessingIsOwned, InputKeptWhileActive, ActiveJobs,
         CompletedHasResult, Terminal


\* A step that changes nothing.
LEMMA StutterInv == ASSUME Inv, UNCHANGED vars PROVE Inv'
  BY QueueKept
     DEF vars, Inv, TypeOK, FreshJobs, WaitingJobs, PlannedJobs, HeldJob, Holds, ProcessingIsOwned,
         InputKeptWhileActive, ActiveJobs, CompletedHasResult

\* Every step, whoever takes it, keeps the invariant.
LEMMA NextInv == ASSUME Inv, [Next]_vars PROVE Inv'
<1>1. CASE UNCHANGED vars
  BY <1>1, StutterInv
<1>2. ASSUME NEW j \in Jobs, UploadStep(j) PROVE Inv'
  BY <1>2, EnsureCapacityInv, SaveUploadInv, CreateJobInv, EnqueueInv DEF UploadStep
<1>3. ASSUME NEW j \in Jobs, UploadBreaks(j) \/ ReadForCancel(j) \/ WriteCancel(j) PROVE Inv'
  BY <1>3, UploadBreaksInv, ReadForCancelInv, WriteCancelInv
<1>4. CASE Recovery
  BY <1>4, RecoverReadInv, RecoverCommitInv, RequeueInv, StartLoopInv DEF Recovery
<1>5. CASE Processing
  BY <1>5, PopInv, LoadJobInv, MarkProcessingInv, TranscribeInv, ValidateInv, DiarizeInv,
     WriteResultInv, MarkCompletedInv, MarkCancelledInv, MarkFailedInv, CleanupInputInv
     DEF Processing
<1>6. CASE Crash
  BY <1>6, CrashInv
<1>7. QED
  BY <1>1, <1>2, <1>3, <1>4, <1>5, <1>6 DEF Next

\* The inductive invariant holds in every reachable state.
THEOREM InvHolds == Spec => []Inv
<1>1. Init => Inv
  BY InitInv
<1>2. Inv /\ [Next]_vars => Inv'
  BY NextInv
<1>3. QED
  BY <1>1, <1>2, PTL DEF Spec
-----------------------------------------------------------------------------
\* Every variable keeps its type; in particular mark_job_processing never counts
\* an attempt past MaxAttempts, however often the worker dies.
THEOREM TypeCorrect == Spec => []TypeOK
<1>1. Inv => TypeOK
  BY DEF Inv
<1>2. QED
  BY <1>1, InvHolds, PTL

\* recover_processing_jobs never pushes a job that is still in the Redis list or
\* held by the worker, nor does the list ever name a job twice.
THEOREM JobsHandedOutOnce == Spec => []HandedOutOnce
<1>1. ASSUME Inv PROVE HandedOutOnce
  <2>1. \A a \in DOMAIN queue : queue[a] \in Jobs
    BY <1>1, ElementOfSeq, LenProperties DEF Inv, TypeOK
  <2>2. \A a \in DOMAIN queue : ~Holds(queue[a]) /\ plan[queue[a]] # "requeue"
    BY <1>1, <2>1 DEF Inv, WaitingJobs, InQueue
  <2>3. QED
    BY <1>1, <2>2 DEF Inv, QueueOnce, HandedOutOnce
<1>2. QED
  BY <1>1, InvHolds, PTL

\* A row says "processing" only while process_audio_job runs it, or until the
\* next recovery.
THEOREM ProcessingOwned == Spec => []ProcessingIsOwned
<1>1. Inv => ProcessingIsOwned
  BY DEF Inv
<1>2. QED
  BY <1>1, InvHolds, PTL

\* cleanup_input_file never removes the audio of a job that may yet be
\* transcribed, also when the worker dies between the commit and the removal.
THEOREM InputKept == Spec => []InputKeptWhileActive
<1>1. Inv => InputKeptWhileActive
  BY DEF Inv
<1>2. QED
  BY <1>1, InvHolds, PTL

\* mark_job_completed is only reached with the transcript file written, and
\* nothing removes the file of a completed job.
THEOREM ResultIsThere == Spec => []CompletedHasResult
<1>1. Inv => CompletedHasResult
  BY DEF Inv
<1>2. QED
  BY <1>1, InvHolds, PTL
-----------------------------------------------------------------------------
\* A cancellation recorded in time: j cannot complete any more.
Doomed(j) == jobs[j].cancel /\ jobs[j].status # "completed" /\ ~PastLastCheck(j)

\* Uploads and cancel requests leave the worker where it is.
LEMMA DoomedByGateway ==
    ASSUME Inv, NEW j \in Jobs, Doomed(j), NEW k \in Jobs,
           UploadStep(k) \/ UploadBreaks(k) \/ ReadForCancel(k) \/ WriteCancel(k)
    PROVE  Doomed(j)'
<1>1. jobs \in [Jobs -> Job] /\ worker' = worker
  BY DEF Inv, TypeOK, UploadStep, EnsureCapacity, SaveUpload, CreateJob, Enqueue, UploadBreaks,
         ReadForCancel, WriteCancel
<1>2. CASE jobs' = jobs
  BY <1>1, <1>2 DEF Doomed, PastLastCheck
<1>3. ASSUME NEW s \in BOOLEAN, CreateJob(k, s) PROVE Doomed(j)'
  <2>1. jobs' = [jobs EXCEPT ![k].status = "queued", ![k].speakers = s]
    BY <1>3 DEF CreateJob
  <2>2. jobs'[j].cancel /\ jobs'[j].status # "completed"
    BY <1>1, <2>1 DEF Doomed, Job
  <2>3. CASE k = j
    BY <1>1, <1>3, <2>2, <2>3
       DEF Inv, FreshJobs, CreateJob, UploadMoves, Holds, Busy, Attempt, Doomed, PastLastCheck
  <2>4. CASE k # j
    BY <1>1, <2>1, <2>2, <2>4 DEF Doomed, PastLastCheck
  <2>5. QED
    BY <2>3, <2>4
<1>4. ASSUME WriteCancel(k) PROVE Doomed(j)'
  <2>1. /\ jobs'[j].cancel /\ jobs'[j].status # "completed"
        /\ jobs'[j].speakers = jobs[j].speakers
    BY <1>1, <1>4 DEF WriteCancel, Doomed, Job
  <2>2. QED
    BY <1>1, <2>1 DEF Doomed, PastLastCheck
<1>5. QED
  BY <1>2, <1>3, <1>4
     DEF UploadStep, EnsureCapacity, SaveUpload, Enqueue, UploadBreaks, ReadForCancel

\* Recovery and a crash leave the worker at no check at all.
LEMMA DoomedByRecovery ==
    ASSUME Inv, NEW j \in Jobs, Doomed(j), Recovery \/ Crash
    PROVE  Doomed(j)'
<1>1. CASE RecoverCommit
  <2>1. jobs'[j].cancel /\ jobs'[j].status # "completed"
    BY <1>1 DEF RecoverCommit, Inv, TypeOK, Job, Doomed
  <2>2. worker'.at = "requeueing"
    BY <1>1 DEF RecoverCommit, Inv, TypeOK
  <2>3. QED
    BY <2>1, <2>2 DEF Doomed, PastLastCheck
<1>2. CASE RecoverRead \/ (\E k \in Jobs : Requeue(k)) \/ StartLoop \/ Crash
  <2>1. jobs' = jobs /\ worker'.at \notin {"saving", "saved", "transcribed"}
    BY <1>2 DEF Inv, TypeOK, RecoverRead, Requeue, StartLoop, Crash
  <2>2. QED
    BY <2>1 DEF Doomed, PastLastCheck
<1>3. QED
  BY <1>1, <1>2 DEF Recovery

\* Each check the worker still has to pass sees the cancellation.
LEMMA DoomedByWorker ==
    ASSUME Inv, NEW j \in Jobs, Doomed(j), Processing
    PROVE  Doomed(j)'
<1>1. /\ jobs \in [Jobs -> Job]
      /\ worker \in [at : Busy \cup {"down", "recovering", "requeueing", "idle"},
                     job : Jobs \cup {None}]
      /\ worker.at \in Busy => worker.job \in Jobs
  BY DEF Inv, TypeOK, HeldJob
<1>2. ASSUME NEW to, Continue(to), worker.job = j =>
                to \notin {"saving", "saved", "transcribed"}
      PROVE  Doomed(j)'
  <2>1. jobs' = jobs /\ worker'.job = worker.job /\ worker'.at = to
    BY <1>1, <1>2 DEF Continue
  <2>2. QED
    BY <1>2, <2>1 DEF Doomed, PastLastCheck
<1>3. ASSUME worker'.at \notin {"saving", "saved", "transcribed"},
             jobs'[j].cancel, jobs'[j].status # "completed"
      PROVE  Doomed(j)'
  BY <1>3 DEF Doomed, PastLastCheck
<1>4. CASE Pop
  BY <1>3, <1>4 DEF Pop, Doomed
<1>5. CASE LoadJob
  BY <1>2, <1>5 DEF LoadJob
<1>6. CASE MarkProcessing
  <2>1. jobs'[j].cancel /\ jobs'[j].status # "completed"
    BY <1>1, <1>6 DEF MarkProcessing, Doomed, Job
  <2>2. worker'.at = "transcribing"
    BY <1>1, <1>6 DEF MarkProcessing
  <2>3. QED
    BY <1>3, <2>1, <2>2
<1>7. CASE Transcribe
  BY <1>2, <1>7 DEF Transcribe, CancelSeen, Doomed
<1>8. CASE Validate
  <2>1. worker.job = j => jobs[worker.job].speakers
    BY <1>8 DEF Validate, WorkerAt, Doomed, PastLastCheck
  <2>2. QED
    BY <1>2, <1>8, <2>1 DEF Validate
<1>9. CASE Diarize
  BY <1>2, <1>9 DEF Diarize, CancelSeen, Doomed
<1>10. CASE WriteResult
  <2>1. worker.job # j
    BY <1>10 DEF WriteResult, WorkerAt, Doomed, PastLastCheck
  <2>2. jobs' = jobs /\ worker'.job = worker.job
    BY <1>1, <1>10 DEF WriteResult, Continue
  <2>3. QED
    BY <2>1, <2>2 DEF Doomed, PastLastCheck
<1>11. CASE MarkCompleted
  <2>1. worker.job # j
    BY <1>11 DEF MarkCompleted, WorkerAt, Doomed, PastLastCheck
  <2>2. jobs'[j] = jobs[j] /\ worker'.at = "cleaning"
    BY <1>1, <1>11, <2>1 DEF MarkCompleted
  <2>3. QED
    BY <1>3, <2>2 DEF Doomed
<1>12. CASE MarkCancelled
  <2>1. jobs'[j].cancel /\ jobs'[j].status # "completed" /\ worker'.at = "cleaning"
    BY <1>1, <1>12 DEF MarkCancelled, Doomed, Job
  <2>2. QED
    BY <1>3, <2>1
<1>13. CASE MarkFailed
  <2>1. jobs'[j].cancel /\ jobs'[j].status # "completed" /\ worker'.at = "idle"
    BY <1>1, <1>13 DEF MarkFailed, Doomed, Job
  <2>2. QED
    BY <1>3, <2>1
<1>14. CASE CleanupInput
  BY <1>1, <1>3, <1>14 DEF CleanupInput, Doomed
<1>15. QED
  BY <1>4, <1>5, <1>6, <1>7, <1>8, <1>9, <1>10, <1>11, <1>12, <1>13, <1>14 DEF Processing

\* Whoever takes the next step, the job stays doomed.
LEMMA DoomedStays == ASSUME Inv, NEW j \in Jobs, Doomed(j), [Next]_vars PROVE Doomed(j)'
<1>1. CASE UNCHANGED vars
  BY <1>1 DEF vars, Doomed, PastLastCheck
<1>2. CASE Next
  BY <1>2, DoomedByGateway, DoomedByRecovery, DoomedByWorker DEF Next
<1>3. QED
  BY <1>1, <1>2

\* request_job_cancellation before the worker's last cancellation check is final:
\* no crash, recovery, retry or stale write ever completes the job.
THEOREM CancellationsAreHonoured == Spec => CancelIsHonoured
<1>1. ASSUME NEW j \in Jobs
      PROVE  Spec => [](/\ jobs[j].cancel /\ jobs[j].status # "completed" /\ ~PastLastCheck(j)
                        => [](jobs[j].status # "completed"))
  <2>1. Inv /\ Doomed(j) /\ [Next]_vars => Doomed(j)'
    BY DoomedStays
  <2>2. Doomed(j) <=> jobs[j].cancel /\ jobs[j].status # "completed" /\ ~PastLastCheck(j)
    BY DEF Doomed
  <2>3. Doomed(j) => jobs[j].status # "completed"
    BY DEF Doomed
  <2>4. QED
    BY <2>1, <2>2, <2>3, InvHolds, PTL DEF Spec
<1>2. QED
  BY <1>1 DEF CancelIsHonoured
=============================================================================

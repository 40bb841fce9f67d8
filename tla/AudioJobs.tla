-------------------------------- MODULE AudioJobs --------------------------------
(*****************************************************************************)
(* Audio transcription: the gateway's upload and cancel routes (main.py,     *)
(* jobs.py), the Redis list between them, and the whisper worker (one        *)
(* process) with its recovery at startup.  The gateway and the worker share  *)
(* the rows of the jobs table without any lock, so every action is one       *)
(* statement sequence between two commits, reads or queue operations, and    *)
(* what a request or the worker has read may be stale when it writes.        *)
(*                                                                           *)
(* Progress, phase, messages and timestamps other than cancel_requested_at   *)
(* decide nothing and are left out; the transcript is its file.              *)
(*****************************************************************************)
EXTENDS Integers, Sequences, FiniteSets

CONSTANTS
    Jobs,            \* uploads, each making one job
    MaxActiveJobs,   \* max_active_audio_jobs_per_user
    MaxAttempts,     \* job_max_attempts
    MaxFaults,       \* bound: worker crashes and broken-off uploads
    None

ASSUME BoundsAssumption == /\ MaxActiveJobs \in Nat \ {0}
                           /\ MaxAttempts \in Nat \ {0}
                           /\ MaxFaults \in Nat

ASSUME NoJobAssumption == None \notin Jobs

VARIABLES
    jobs,      \* the jobs table
    upload,    \* where each upload request stands
    reading,   \* the status an unfinished cancel request has read
    queue,     \* the Redis list
    inputs,    \* audio files on disk
    results,   \* transcript files on disk
    worker,    \* where the worker stands, and the job it popped
    plan,      \* what recovery decided for each interrupted job
    faults     \* how many faults have happened

vars == <<jobs, upload, reading, queue, inputs, results, worker, plan, faults>>

Terminal == {"completed", "failed", "cancelled"}

Job == [status : {"absent", "queued", "processing"} \cup Terminal,
        cancel : BOOLEAN,                \* cancel_requested_at is set
        attempts : 0..MaxAttempts,
        speakers : BOOLEAN,              \* diarization_enabled
        result : BOOLEAN]                \* result_path is set

\* Worker positions at which it holds a job: before, in, and after the attempt.
Before == {"popped", "loaded"}
Attempt == {"transcribing", "transcribed", "diarizing", "saving", "saved", "cancelling", "failing"}
Busy == Before \cup Attempt \cup {"cleaning"}

TypeOK ==
    /\ jobs \in [Jobs -> Job]
    /\ upload \in [Jobs -> {"none", "checked", "saved", "created", "acknowledged", "broken"}]
    /\ reading \in [Jobs -> {"queued", "processing", None}]
    /\ queue \in Seq(Jobs)
    /\ inputs \subseteq Jobs /\ results \subseteq Jobs
    /\ worker \in [at : Busy \cup {"down", "recovering", "requeueing", "idle"},
                   job : Jobs \cup {None}]
    /\ plan \in [Jobs -> {"none", "requeue", "cancel", "fail"}]
    /\ faults \in 0..MaxFaults

Init ==
    /\ jobs = [j \in Jobs |-> [status |-> "absent", cancel |-> FALSE, attempts |-> 0,
                               speakers |-> FALSE, result |-> FALSE]]
    /\ upload = [j \in Jobs |-> "none"]
    /\ reading = [j \in Jobs |-> None]
    /\ queue = <<>>
    /\ inputs = {} /\ results = {}
    /\ worker = [at |-> "down", job |-> None]
    /\ plan = [j \in Jobs |-> "none"]
    /\ faults = 0

-----------------------------------------------------------------------------
\* transcribe_audio ----------------------------------------------------------

ActiveJobs == {j \in Jobs : jobs[j].status \in {"queued", "processing"}}

UploadMoves(j, from, to) == upload[j] = from /\ upload' = [upload EXCEPT ![j] = to]

EnsureCapacity(j) ==
    /\ Cardinality(ActiveJobs) < MaxActiveJobs
    /\ UploadMoves(j, "none", "checked")
    /\ UNCHANGED <<jobs, reading, queue, inputs, results, worker, plan, faults>>

SaveUpload(j) ==
    /\ UploadMoves(j, "checked", "saved")
    /\ inputs' = inputs \cup {j}
    /\ UNCHANGED <<jobs, reading, queue, results, worker, plan, faults>>

CreateJob(j, speakers) ==
    /\ UploadMoves(j, "saved", "created")
    /\ jobs' = [jobs EXCEPT ![j].status = "queued", ![j].speakers = speakers]
    /\ UNCHANGED <<reading, queue, inputs, results, worker, plan, faults>>

Enqueue(j) ==
    /\ UploadMoves(j, "created", "acknowledged")
    /\ queue' = Append(queue, j)
    /\ UNCHANGED <<jobs, reading, inputs, results, worker, plan, faults>>

\* The gateway stops, or Redis refuses the message, before the answer: what is
\* committed stays.
UploadBreaks(j) ==
    /\ faults < MaxFaults
    /\ upload[j] \in {"saved", "created"}
    /\ upload' = [upload EXCEPT ![j] = "broken"]
    /\ faults' = faults + 1
    /\ UNCHANGED <<jobs, reading, queue, inputs, results, worker, plan>>

\* cancel_job: require_job_for_user, then the commit of request_job_cancellation.
ReadForCancel(j) ==
    /\ reading[j] = None
    /\ jobs[j].status \in {"queued", "processing"}
    /\ reading' = [reading EXCEPT ![j] = jobs[j].status]
    /\ UNCHANGED <<jobs, upload, queue, inputs, results, worker, plan, faults>>

WriteCancel(j) ==
    /\ reading[j] # None
    /\ jobs' = [jobs EXCEPT ![j].cancel = TRUE,
                            ![j].status = IF reading[j] = "queued" THEN "cancelled" ELSE @]
    /\ reading' = [reading EXCEPT ![j] = None]
    /\ UNCHANGED <<upload, queue, inputs, results, worker, plan, faults>>

-----------------------------------------------------------------------------
\* The worker: recovery at startup (recover_processing_jobs, run_worker_loop) --

\* Mutant of Decision: queued jobs are pushed again as well.
MutantRequeueQueued(j) ==
    IF jobs[j].status \in {"queued", "processing"} /\ jobs[j].attempts < MaxAttempts
    THEN "requeue" ELSE "none"

\* Mutant of Decision: nothing is recovered.
MutantNoRecovery(j) == "none"

Decision(j) ==
    CASE jobs[j].status # "processing" -> "none"
      [] jobs[j].status = "processing" /\ jobs[j].cancel -> "cancel"
      [] jobs[j].status = "processing" /\ ~jobs[j].cancel /\ jobs[j].attempts >= MaxAttempts -> "fail"
      [] OTHER -> "requeue"

RecoverRead ==
    /\ worker.at = "down"
    /\ worker' = [at |-> "recovering", job |-> None]
    /\ plan' = [j \in Jobs |-> Decision(j)]
    /\ UNCHANGED <<jobs, upload, reading, queue, inputs, results, faults>>

RecoverCommit ==
    /\ worker.at = "recovering"
    /\ worker' = [worker EXCEPT !.at = "requeueing"]
    /\ jobs' = [j \in Jobs |->
                  CASE plan[j] = "cancel"  -> [jobs[j] EXCEPT !.status = "cancelled"]
                    [] plan[j] = "fail"    -> [jobs[j] EXCEPT !.status = "failed"]
                    [] plan[j] = "requeue" -> [jobs[j] EXCEPT !.status = "queued"]
                    [] OTHER -> jobs[j]]
    /\ UNCHANGED <<upload, reading, queue, inputs, results, plan, faults>>

Requeue(j) ==
    /\ worker.at = "requeueing" /\ plan[j] = "requeue"
    /\ queue' = Append(queue, j)
    /\ plan' = [plan EXCEPT ![j] = "none"]
    /\ UNCHANGED <<jobs, upload, reading, inputs, results, worker, faults>>

StartLoop ==
    /\ worker.at = "requeueing"
    /\ \A j \in Jobs : plan[j] # "requeue"
    /\ worker' = [worker EXCEPT !.at = "idle"]
    /\ plan' = [j \in Jobs |-> "none"]
    /\ UNCHANGED <<jobs, upload, reading, queue, inputs, results, faults>>

\* The worker: one job (process_audio_job) -------------------------------------

\* BLPOP removes the message: from here only this process knows of it.
Pop ==
    /\ worker.at = "idle" /\ queue # <<>>
    /\ worker' = [at |-> "popped", job |-> Head(queue)]
    /\ queue' = Tail(queue)
    /\ UNCHANGED <<jobs, upload, reading, inputs, results, plan, faults>>

WorkerAt(from) == worker.at = from

\* job_cancellation_requested
CancelSeen == jobs[worker.job].status = "cancelled" \/ jobs[worker.job].cancel

\* The worker moves on without touching what it shares with the gateway.
Continue(to) == /\ worker' = [worker EXCEPT !.at = to]
                /\ UNCHANGED <<jobs, upload, reading, queue, inputs, results, plan, faults>>

\* get_job and the refresh of the first cancellation check, read together.
LoadJob ==
    /\ WorkerAt("popped")
    /\ LET st == jobs[worker.job].status IN
       \/ st \in {"completed", "failed"} /\ Continue("idle")
       \/ st = "cancelled" /\ Continue("cleaning")
       \/ st \in {"queued", "processing"} /\ CancelSeen /\ Continue("cancelling")
       \/ st \in {"queued", "processing"} /\ ~CancelSeen /\ Continue("loaded")

MarkProcessing ==
    /\ WorkerAt("loaded")
    /\ jobs' = [jobs EXCEPT ![worker.job].status = "processing", ![worker.job].attempts = @ + 1]
    /\ worker' = [worker EXCEPT !.at = "transcribing"]
    /\ UNCHANGED <<upload, reading, queue, inputs, results, plan, faults>>

\* Mutant of Transcribe: no cancellation check is made.
MutantTranscribe ==
    /\ WorkerAt("transcribing")
    /\ \/ Continue("failing")
       \/ worker.job \in inputs /\ Continue("transcribed")

\* engine.transcribe with its cancellation checks, and the one that follows it.
Transcribe ==
    /\ WorkerAt("transcribing")
    /\ \/ Continue("failing")
       \/ CancelSeen /\ Continue("cancelling")
       \/ ~CancelSeen /\ worker.job \in inputs /\ Continue("transcribed")

\* validate_transcript_has_speech; speakers are optional.
Validate ==
    /\ WorkerAt("transcribed")
    /\ \/ Continue("failing")
       \/ Continue(IF jobs[worker.job].speakers THEN "diarizing" ELSE "saving")

\* Mutant of Diarize: no cancellation check follows it.
MutantDiarize == WorkerAt("diarizing") /\ Continue("saving")

\* A failed diarization only marks the transcript, so it changes nothing here.
Diarize ==
    /\ WorkerAt("diarizing")
    /\ Continue(IF CancelSeen THEN "cancelling" ELSE "saving")

\* Mutant of WriteResult: the file is left for after the commit.
MutantWriteResult == WorkerAt("saving") /\ Continue("saved")

WriteResult ==
    /\ WorkerAt("saving")
    /\ \/ Continue("failing")
       \/ /\ results' = results \cup {worker.job}
          /\ worker' = [worker EXCEPT !.at = "saved"]
          /\ UNCHANGED <<jobs, upload, reading, queue, inputs, plan, faults>>

MarkCompleted ==
    /\ WorkerAt("saved")
    /\ jobs' = [jobs EXCEPT ![worker.job].status = "completed", ![worker.job].result = TRUE]
    /\ worker' = [worker EXCEPT !.at = "cleaning"]
    /\ UNCHANGED <<upload, reading, queue, inputs, results, plan, faults>>

\* Mutant of MarkCancelled: the input is removed, the status forgotten.
MutantMarkCancelled == WorkerAt("cancelling") /\ Continue("cleaning")

MarkCancelled ==
    /\ WorkerAt("cancelling")
    /\ jobs' = [jobs EXCEPT ![worker.job].status = "cancelled"]
    /\ worker' = [worker EXCEPT !.at = "cleaning"]
    /\ UNCHANGED <<upload, reading, queue, inputs, results, plan, faults>>

\* Mutant of MarkFailed: the error is swallowed.
MutantMarkFailed == WorkerAt("failing") /\ Continue("idle")

MarkFailed ==
    /\ WorkerAt("failing")
    /\ jobs' = [jobs EXCEPT ![worker.job].status = "failed"]
    /\ worker' = [worker EXCEPT !.at = "idle"]
    /\ UNCHANGED <<upload, reading, queue, inputs, results, plan, faults>>

\* cleanup_input_file; an OSError leaves the file.
CleanupInput ==
    /\ WorkerAt("cleaning")
    /\ inputs' \in {inputs, inputs \ {worker.job}}
    /\ worker' = [worker EXCEPT !.at = "idle"]
    /\ UNCHANGED <<jobs, upload, reading, queue, results, plan, faults>>

\* The process dies, or an error outside the try block ends it; its container
\* is restarted (restart: unless-stopped).
Crash ==
    /\ faults < MaxFaults
    /\ worker.at # "down"
    /\ worker' = [at |-> "down", job |-> None]
    /\ plan' = [j \in Jobs |-> "none"]
    /\ faults' = faults + 1
    /\ UNCHANGED <<jobs, upload, reading, queue, inputs, results>>

-----------------------------------------------------------------------------
UploadStep(j) == \/ EnsureCapacity(j)
                 \/ SaveUpload(j)
                 \/ \E speakers \in BOOLEAN : CreateJob(j, speakers)
                 \/ Enqueue(j)

Recovery == RecoverRead \/ RecoverCommit \/ (\E j \in Jobs : Requeue(j)) \/ StartLoop

Processing == \/ Pop \/ LoadJob \/ MarkProcessing \/ Transcribe \/ Validate \/ Diarize
              \/ WriteResult \/ MarkCompleted \/ MarkCancelled \/ MarkFailed \/ CleanupInput

Next == \/ \E j \in Jobs : UploadStep(j) \/ UploadBreaks(j) \/ ReadForCancel(j) \/ WriteCancel(j)
        \/ Recovery \/ Processing \/ Crash

Spec == Init /\ [][Next]_vars

\* The worker runs until it dies and is restarted; a transcription or a
\* diarization request ends (the latter by its timeout); a request that
\* reached the gateway is served.
FairSpec == /\ Spec
            /\ WF_vars(Recovery \/ Processing)
            /\ \A j \in Jobs : WF_vars(UploadStep(j)) /\ WF_vars(WriteCancel(j))

-----------------------------------------------------------------------------
\* Invariants ------------------------------------------------------------------

Holds(j) == worker.at \in Busy /\ worker.job = j

\* No job is ever handed out twice: whatever crashes and recoveries requeue, a
\* job is at most once in the Redis list, and is not there while the worker
\* still holds it or recovery still has to push it.
HandedOutOnce ==
    /\ \A a, b \in DOMAIN queue : queue[a] = queue[b] => a = b
    /\ \A a \in DOMAIN queue : ~Holds(queue[a]) /\ plan[queue[a]] # "requeue"

\* A job is only shown as processing while the worker is working on it, or is
\* down and will find it when it recovers.
ProcessingIsOwned ==
    \A j \in Jobs : jobs[j].status = "processing" =>
        \/ worker.at \in Attempt /\ worker.job = j
        \/ worker.at = "down"
        \/ worker.at = "recovering" /\ plan[j] # "none"

\* The audio of a job that may still be transcribed is on disk, whichever of a
\* cancellation, a completion and a retry comes first.
InputKeptWhileActive == ActiveJobs \subseteq inputs

\* A completed job has the result that get_job_result reads, in particular when
\* the worker died between writing the file and the commit.
CompletedHasResult ==
    \A j \in Jobs : jobs[j].status = "completed" => jobs[j].result /\ j \in results

\* Temporal properties ------------------------------------------------------------

PastLastCheck(j) == /\ worker.job = j
                    /\ \/ worker.at \in {"saving", "saved"}
                       \/ worker.at = "transcribed" /\ ~jobs[j].speakers

\* A cancellation recorded before the worker's last check is honoured: the job
\* never completes any more, through crashes, recoveries and retries.
CancelIsHonoured ==
    \A j \in Jobs :
        [](/\ jobs[j].cancel /\ jobs[j].status # "completed" /\ ~PastLastCheck(j)
           => [](jobs[j].status # "completed"))

NoFault == [](faults = 0)

\* Unless there is a fault, every acknowledged upload ends in a final state.
EveryUploadEndsUnlessFault ==
    NoFault => \A j \in Jobs : upload[j] = "acknowledged" ~> jobs[j].status \in Terminal

\* Unless there is a fault, a cancellation recorded before the worker's last
\* check stops the job.
CancelTakesEffect ==
    NoFault =>
        \A j \in Jobs :
            jobs[j].cancel /\ jobs[j].status # "completed" /\ ~PastLastCheck(j)
                ~> jobs[j].status \in {"cancelled", "failed"}

\* Whatever crashes, no job stays processing for ever.
ProcessingEnds ==
    \A j \in Jobs : jobs[j].status = "processing" ~> jobs[j].status # "processing"

\* What the documentation says, and the code does not do ----------------------------

\* docs/api.md:600: "Completed, failed, or already cancelled jobs keep their
\* terminal state."
TerminalStateKept ==
    [][\A j \in Jobs : jobs[j].status \in Terminal => jobs'[j].status = jobs[j].status]_vars

\* docs/architecture.md:28, of the worker: "Maintains progress and heartbeat
\* state, supports cancellation, and recovers interrupted jobs".
InterruptedJobsEnd ==
    \A j \in Jobs : upload[j] = "acknowledged" ~> jobs[j].status \in Terminal
=============================================================================

# A verification project for the local AI platform of Obsidian

The platform lets an Obsidian plugin use AI services hosted at home: a FastAPI
gateway (`apps/ai-gateway`), a Whisper worker (`apps/whisper-worker`), a
diarization service that shares the GPU with Ollama
(`apps/diarization-service`), and the plugin itself (`apps/obsidian-plugin`).
PostgreSQL holds the durable state, Redis a list of audio jobs and the quota
counters.  This directory holds TLA+ models of the parts whose correctness
depends on the order of steps or on an algorithm, the TLC configurations that
check them, and proofs for TLAPS.

How to run: `tlc -config GenerationSteps.cfg MCGenerationStore`,
`tlapm GenerationProofs.tla`.  `PROJECT.json` names every run with its module and
configuration, the source lines behind every definition, the mutants that show
that a property can fail, the findings and the hazards.

## 1. Inventory

| component | state | operations | shares with | modules |
|---|---|---|---|---|
| **Durable generation store** (`generation_store.py`, `generation_routes.py`, `generation_maintenance.py`) | rows of `generation_user_state`, `relay_sessions`, `generation_runs`, `generation_steps` | create and revoke relay sessions; submit, list, read, cancel, resume a generation; claim, heartbeat, answer, refuse a step; maintenance | relay clients of several devices, the maintenance service; everything of one user goes through `lock_user` | `GenerationRuns`, `GenerationStore`, `GenerationContract` |
| **Generation submission** (`generation_routes.py` 85-149, `generation_plans.py`) | request-local, and the embedding quota | preflight, quota, plan preparation, persist | the store, the vault index, the quota | `GenerationSubmission` |
| **Authentication, quotas** (`auth.py`, `quota.py`) | token rows, Redis counters | check scope, consume one or more buckets | every route | `UsageQuota` (the counters) |
| **Enterprise relay client** (`enterprise-relay.ts`, `enterprise-transport.ts`) | session, token, followed runs, pump, call in progress | connect, start, resume, poll, cancel, disconnect, quit; claim, call the provider, heartbeat, deliver | the durable store, the enterprise provider | `RelayClient` |
| **Audio routes and queue** (`jobs.py`, `audio.py`, `queue.py`, `main.py`) | `jobs` rows, uploaded files, Redis list | upload, list, status, cancel, result | the worker, through the rows and the list, with no lock | `AudioJobs` |
| **Whisper worker** | the job it holds; result files | recovery at startup, pop, transcribe, diarize, complete, cancel, fail | the gateway (see above), the diarization service | `AudioJobs`, `LlmRequests` |
| **Transcription engine, speaker alignment** (`engines.py`, `diarization_client.py`) | none | transcribe with cancellation checks, assign speakers | the worker | `SpeakerTurns` (the assignment) |
| **GPU coordinator** (`diarization_service/main.py`) | one lock, temporary files, models loaded in Ollama | diarize, unload Ollama, proxy Ollama calls | the worker, the gateway | `GpuCoordinator`, `SpeakerTurns` |
| **LLM requests** (`services/`, `assistant.py`, `notes.py`, `meetings.py`) | a semaphore | chat, notes, meeting reports, embeddings | the GPU coordinator | `LlmRequests`, `MeetingPlan` |
| **Vault index** (`vault_rag.py`, `vault_chunking.py`) | `vault_documents`, `vault_chunks` | index a note, delete a note or the index, search, ask | the plugin, the embedding service, the event loop | `VaultIndex`, `VaultText`, `VaultSearch` |
| **Vault auto-index** (plugin `main.ts` 2024-2437) | indexed-file states, queue, timers, cancel flag | on create/modify/rename/delete, flush the queue, scan, index all | the vault index | `VaultSync` |
| **Meeting and recording workflows** (`main.ts`) | active recording, recovery notes, jobs followed | record, upload, follow, generate | audio routes, generation | none |
| **Task progress** (`task-progress.ts`) | tasks and their phases | start, phase, heartbeat, finish, cancel | the workflows | none |
| configuration, schemas, CLI, migrations, settings dialogs | static | | | none |

What is hard, and what makes each component correct:

* **Durable store.** Several devices, relays that fall silent, answers that are
  late or repeated, leases, user consent before a call whose outcome is unknown
  is repeated, five ways for a generation to end while steps are in flight.
  Correct when: one upstream call per user, steps in order, answers only from
  the attempt in flight, no silent repetition, texts erased exactly at the end,
  final outcomes, limits kept, no generation open for ever.
* **Submission.** The preflight, the quota and the plan are done before the lock
  is taken, with awaits between them. Correct when one key is one generation, and
  what is begun is what was prepared, for the request that is answered.
* **Relay client.** Its requests and their answers get lost, and the user acts in
  the middle of a call. Correct when it never calls the provider again without
  consent, and when it lets go of what it cannot do.
* **Audio jobs.** Two programs write the same row from earlier reads; the
  message is removed from Redis before the job is marked; either process may
  stop between two commits. Correct when: no job is handed out twice, the audio
  and the transcript are where the status says, a timely cancellation wins,
  attempts are bounded, and every job ends.
* **GPU and LLM requests.** A proxy that waits without a timeout under the only
  lock, clients that give up while their handler stays in the line, a limiter
  whose slot must come back. Correct when the GPU is exclusive, nothing is left
  behind, reports are whole, and every request ends.
* **Vault index.** A transaction stays open over the awaits of the embeddings
  while other requests work on the same rows from threads or from the loop.
  Correct when: a note is skipped only if the index has it, a deletion is not
  undone, no lock is left behind, and the loop never waits for itself.
* **Auto-index.** Event handlers, timers, a queue and manual runs share one local
  record over awaits. Correct when a note at rest is indexed.
* **Texts.** Splitting, selecting and labelling at their boundaries. Correct when
  nothing is lost, repeated or attributed to the wrong heading or speaker.

`PROJECT.json` "hazards" has each of these at its line, with the property that
covers it, or the reason why none does.

## 2. Plan and status

| order | modules | status |
|---|---|---|
| 1 | `GenerationRuns` (rows and their transitions), `GenerationStore` (the transactions of a user), `GenerationProofs`, `StoreProofs` | done; every safety property proved |
| 2 | `AudioJobs` (gateway, Redis list, worker), `AudioProofs` | done; every safety property proved |
| 3 | `VaultIndex` (index, deletions, locks, event loop), `VaultProofs` | done for one workspace; its safety properties proved |
| 4 | `GenerationContract`: what the store promises to the user, implemented by `GenerationStore` | done; the refinement proved (`StoreProofs`) |
| 5 | `GenerationSubmission` with `UsageQuota`, `SubmissionProofs` | done; every safety property proved, and that it implements `GenerationStore` |
| 6 | `RelayClient` composed with `GenerationStore`, `ClientProofs` | done; its safety property proved, and that it implements `GenerationStore` |
| 7 | `VaultSync` | done; against the content the gateway has, not the whole `VaultIndex` |
| 8 | `GpuCoordinator`, `LlmRequests`, `LlmProofs` | done; every invariant and the refinement proved |
| 9 | `MeetingPlan`, `VaultSearch`, `VaultText`, `SpeakerTurns`, `TextProofs` | done; every invariant proved |
| open | the recording workflow of the plugin |

What extends what: `GenerationStore` EXTENDS `GenerationRuns`;
`GenerationSubmission` EXTENDS `GenerationStore` and `UsageQuota`; `RelayClient`
EXTENDS `GenerationStore`; `LlmRequests` EXTENDS `GpuCoordinator`; the `MC...` modules
give the constants their small values; a `...Proofs` module EXTENDS the module it
is about. `StoreProofs` EXTENDS `GenerationProofs`; `SubmissionProofs` and
`ClientProofs` EXTEND `StoreProofs`, so that what is proved of the store is used where
other components drive it.

## 3. The modules and the code

### GenerationRuns, GenerationStore, GenerationContract

`gen[r]` is a row of `generation_runs` with its steps, `relays[x]` a relay
session.  A step has the columns that decide something: status, attempt, the
relay that holds it, its lease, whether a prompt is prepared, and the accepted
answer with its hash.  `GenerationRuns` has the transitions of one row, under
the names of the code (`RefreshRun`, `EraseIntermediate`, `Advance`,
`ClaimStep`, ...); `GenerationStore` has one action per route and one for a
round of the maintenance service.

Why one action is one transaction: every route calls `lock_user` first, which
locks the row of the user, and commits at the end.  Other users share no row.
A transaction that raises is rolled back and is no step; in particular a
refresh made before a refusal is undone, as in the code.

Abstractions:

* time is in flags: `due` (`expires_at` is past), `today` (created on this UTC
  day), `aged` (retention is over), and a lease is `none`, `live` or `lapsed`.
  The clock actions set them at any moment, so every order of deadlines occurs;
* a purged session row answers as an expired one (`LiveSession`);
* a prompt is "there" or not, an answer is a model value, a result is the
  sequence of the accepted answers; `fits` stands for the outcome of the length
  check of a prompt built from earlier answers;
* one claim looks at its runs in an order the model leaves open (`earlier`);
* `error_code`, `heartbeat_at` and the views decide nothing and are left out;
  authentication, and the switches in the configuration, gate no step that
  matters here and are left out too;
* `grants` is a history variable: how often the current step may be called
  again with the consent of the user or after a refusal by the provider.

`GenerationContract` is what remains for the user: a generation is a row of
questions, answered in order and once each, by one call at a time; it completes
with all its answers or is ended without, and the way it ended is final. It knows
no session, lease, attempt, prompt or key. `GenerationStore` implements it under
the mapping `phase`/`answers`/`result`/`calls`, read off the rows
(`ImplementsContract`).

### GenerationSubmission, UsageQuota

`subs[q]` is one `POST /v1/generations`: preflight without the mutex, embedding
quota, preparation of the plan, and `Persist` under the mutex, where everything is
looked at again. Between these steps the whole of `GenerationStore` may act, other
routes may use the same quota, the day may end and the gateway may restart.
`made[r]` is `request_hash`; the fingerprint of a request is its body.
`UsageQuota` keeps the counters as the Lua script does: a refused request stays
counted, and a route with several buckets counts them one after the other.

### RelayClient

`device` is the client on one device: token, session, followed runs, and where its
pump stands (claiming, granted a step, calling, delivering). A request to the
gateway is one action of the store together with the client's reaction, or without
it when the answer is lost (`ClaimLost`, `DeliveryLost`); a request that never
arrives only has the reaction. The provider's outcomes are an answer, a refused
token, a refusal, or anything whose outcome is unknown. The other devices of
the user take any step of a relay at any time (`OtherDevices`). `paid` is a history
variable: the calls made from here for each step. A token refused by the provider is
cleared unless another one was set while the call was under way (`renewed`). A session lives as long as the
gateway says; the minute of margin in `createSession` is left out.

### AudioJobs

`jobs`, `queue`, `inputs` and `results` are the table, the Redis list and the
two directories; `upload` and `reading` say where a request stands, `worker`
where the worker stands and which job it holds, `plan` what recovery decided.
Nothing is locked between the gateway and the worker, so an action is what
happens between two commits, reads or queue operations, and a value read may be
stale when it is used: `ReadForCancel`/`WriteCancel` are the two halves of the
cancel route, `LoadJob`/`MarkProcessing` of the start of an attempt,
`RecoverRead`/`RecoverCommit`/`Requeue` of the recovery.

`Crash` ends the worker anywhere and `UploadBreaks` an upload after its file or
its row is stored; `MaxFaults` bounds both.  There is one worker process, as in
the compose files.  Progress, phases, heartbeats and messages decide nothing and
are left out.  A failed diarization only marks the transcript, so `Diarize` has
the same outcome for the job in either case.

### GpuCoordinator, LlmRequests

`line` is `gpu_lock`: its holder and those that wait, in order, since
`asyncio.Lock` is fair. `stage` is where the handler of each request stands; a
client that gives up does not cancel it, but a proxied call whose client is gone when
its turn comes may end there without being forwarded (`DropCall`; the composition lets
only calls end so that nobody awaits any more). `loaded` are the models in the memory of
the GPU (external: Ollama keeps a model until it is unloaded or its keep-alive
ends), `files` the temporary audio of each upload.

`LlmRequests` adds the clients: the gateway's routes, each with the calls of its
plan (`RoutePlans`: one chat, a chat per section or chunk of a meeting, an
embedding per chunk of a note, a search, a search and an answer), the shared
`OllamaRequestLimiter` (`turn`, a fair semaphore), the timeouts, and the worker
that waits for its speakers. That it implements `GpuCoordinator!GpuSpec`, so that
the invariants of the coordinator hold in the composition, is a theorem.

### MeetingPlan, VaultSearch, VaultText, SpeakerTurns

Algorithms over texts. `MeetingPlan` and `VaultSearch` run one loop iteration per
step, so that their invariants can be proved for inputs of every length.

* `MeetingPlan` splits a transcript (`SplitOnce`); a text is a sequence of character
  classes and a chunk is a set of positions. The threshold from which a transcript is
  split is an input like the transcript (`minChars`, from `Thresholds`): config.py:30
  bounds it neither way, and a setting that is off is a threshold nothing reaches.
* `VaultSearch` starts from the hits of a search and their ranking (`SearchInit`; a
  score is a given number, and the two backends differ in what they do when no hit
  reaches `rag_min_score`, see `Eligible`). `FirstPass` and `SecondPass` are the two
  loops of `select_diverse_hits`, `Quote` the loop of `build_vault_answer_prompt`;
  `pass` says which loop runs and `next` is its index. `SelectionIsFair` judges the
  outcome without the order in which it came about.
* `VaultText` cuts a note (`body`, with its settings in `chunking`): sections under
  headings (`ReadLine`), paragraphs (`ReadText`), pieces of them (`Place`) and the
  overlapping windows of a long one (`Slide`). Every character has its own number, so
  that a chunk tells what it holds. `ChunksKeepTheNote` compares the chunks with the
  note alone: which headings are over a line (`Over`) is defined without a stack.
* `SpeakerTurns` sorts and names the turns of the diarization service (`found`) and
  gives the words of a transcript (`segments`) to speakers. `SpeakersAreRight` is
  `TurnsAreNamed` (the worker's turns are those that last, one number for one speaker)
  and `WordsAreLabelled` (every word is kept, under whom most of it belongs to).

The last two are computations over a fixed input, so their specifications only choose
the input; each loop of the code is a fold over what it runs through.

### VaultIndex, VaultSync

`docs[p]` is the committed row of a note with its chunks, named by the content
they were made from; `held[p]` is the request whose open transaction has locked
it; `loop` is the request that waits for such a lock *on the event loop*: an
index request is a coroutine whose database calls are synchronous.  The two
deletion routes are plain functions, run in threads, and wait there.  So
`IndexNote`, `CommitChunks` and `EmbeddingFails` need `loop = None`, the
deletions do not.

External parts, from how the code uses them: row locks and the unique
constraint (`LockGranted`), the deadlocks PostgreSQL resolves
(`DeadlockVictim`), a restart of the gateway (`Restart`).  The several awaits of
one index request are one, since nothing else of the request is visible between
them; the refresh after the commit is left out; searches only read.  A note may
have been indexed before the run begins (`Init`), which makes longer histories
reachable with few requests.

`VaultSync` is the plugin's side. `file` is the vault with one number per
modification time (the code compares time and size), `local` the record of what
was indexed, `call` the two callers of `indexVaultNote` (the loop of the queue and
the user), `removal` the requests to delete a path. JavaScript runs a handler
until it awaits, so an action is what happens between two awaits. Bounds of the
model: one manual run and one removal per path at a time. `remote` is the content
the gateway has, which `VaultIndex` models in full.

## 4. The runs

| run | module | shows |
|---|---|---|
| `generation_steps` | `MCGenerationStore` | one generation of two steps, two relays of which one may lack the model, two answers, three attempts: order, fencing, consent, erasure, binding, status, and the refinement of `GenerationContract` |
| `generation_live` | `MCGenerationStore` | two generations, two relays: at most one upstream call; with only maintenance fair, a silent relay stops blocking its user, and with real time every generation ends |
| `submission` | `MCGenerationSubmission` | two submissions, three bodies over two keys, beside everything else the user does: keys, limits, quota, and what is answered |
| `relay_client` | `MCRelayClient` | a generation of two calls on this device and another: no call is paid for twice without consent, no run is followed for ever |
| `audio` | `MCAudioJobs` | two uploads, two attempts, a fault at any point: ownership, files, cancellation, and that everything ends |
| `vault_index` | `MCVaultIndex` | three requests, two notes: rows are kept, a skip is justified, every request ends unless the loop waits for itself |
| `llm_gpu` | `MCLlmRequests` | two routes and a diarization before one GPU: exclusion, files, slots, whole reports, and that everything ends |
| `texts` | `MCTexts` | all small transcripts, notes, search results and speaker turns; the loops of the first and the third step by step |
| `audio_terminal`, `audio_lost`, `vault_sync`, `vault_loop` | | statements of the documentation the code does not keep, see section 5 |

Why the bounds are enough to be interesting.

* Generations: two steps are the least with an "earlier" and a "later" one, and
  the transitions only look at the first step without an answer; three attempts
  allow a call, a repetition with consent and a repetition after a refusal, and
  reach the limit; two runs and two relays are what mutual exclusion and moving a
  run to another relay need.
* Submission: two requests that share a key, with the same body or another one,
  and limits of one make every refusal and every conflict happen.
* Relay client: two attempts of two calls let a call be lost, consented to and
  repeated, on either device; the second device has a session of its own, so a
  step can be taken away and given back.
* Audio: one fault is enough for each of them to hit each step; the safety
  invariants are proved for any number of faults, jobs and attempts.
* LLM and GPU: two routes of up to two calls and one slot make the limiter and the
  lock contended while one call's client gave up; the invariants are proved for
  any number.
* Vault index: three requests let two meet at a row while the third deletes or
  wipes it. `VaultSync`: the counterexample needs one note and one edit.
* Texts: transcripts of up to eight characters (several chunks, boundaries in
  and out of the searched range) with thresholds of 0 and 5, notes of up to four lines (nested headings,
  paragraphs longer than a chunk, white space before or within a line, an overlap
  larger than a chunk), four hits of two documents, three turns with one word or one
  turn with two; the invariants are proved for any number. Of two voices, the first
  one heard is called s1.

`CHECK_DEADLOCK FALSE` stands where requests are finite in number: after the last
one the system rests.

A type invariant that TLAPS has proved is not checked again by a run; `VaultSync!TypeOK`,
which has no proof, documents the types and can be added to the configuration.

Fairness:

* `MaintainedSpec` only assumes the maintenance service, which loops every minute
  (`generation_maintenance.py --loop`, `restart: unless-stopped`); `EveryRunEnds`
  takes "real time passes" (`TimePasses`) as its premise, and nothing is assumed
  of users or relays.
* `RelayClient!FairClientSpec` assumes that the pump runs (its requests and calls end by
  their timeouts) and the same maintenance. `RunsAreLetGo` has as premises
  that a request repeated without end is answered at last, and that leases lapse.
* `AudioJobs!FairSpec` assumes that the worker process runs and is restarted, that
  a transcription ends, that a diarization request ends by its timeout, and that
  a request that reached the gateway is served.
* `LlmRequests!FairSpec` assumes that the event loops run their ready tasks, that the
  clients' timeouts fire (every client sets one), and that a pipeline ends. That
  Ollama answers is no assumption but the premise of `UploadsAreServed`, since the
  proxy sets no timeout.
* `VaultIndex!FairSpec` assumes that an embedding request ends by its timeout and
  that a free lock is granted; it does not assume that anyone restarts a gateway
  that hangs, which is why `RequestsEnd` has the premise that the loop never
  waits for itself.

Every property of a passing run has a mutant in `PROJECT.json`: an operator
`Mutant...` that changes one definition as a plausible mistake in the code would
and under which TLC finds the property violated.

## 5. Findings

* `audio_terminal`: a job that was cancelled (or completed, or failed) can leave
  that state. The worker and the cancel route both write a status derived from
  an earlier read. docs/api.md:600 promises that terminal states are kept.
* `audio_lost`: a worker that dies between the pop and the commit that marks the
  job leaves the job queued for ever; recovery only looks at jobs in processing.
* `vault_loop`: two overlapping index requests for one note stop the gateway.
* `vault_sync`: in automatic mode a created or modified note is never indexed: the
  event handler records it under its new time as pending, and the queue and the scan
  take a record with the current time for an indexed note, whatever its status but
  error. docs/deployment.md:274 promises the opposite.

What else does not hold, and is stated by a passing property that says exactly
how much does:

* a note that returns to an earlier version, or is no longer excluded, may be
  skipped while the index has other content, because the hash of an existing row
  is never updated (second alternative of `SkipJustified`);
* two uploads that overlap pass the capacity check together, so a user may have
  more active jobs than the setting of docs/security.md:147 (`AudioJobs` keeps the
  check and the creation apart, and nothing is claimed of the bound);
* two repeats of one submission that pass the preflight together both consume the
  embedding quota, while docs/enterprise-llm-relay-plan.md:233 asks for one
  consumption per creation (`WithinQuota` bounds the total, `LimitsHold` the number
  of generations);
* a token that is refused while the plugin lists the models stops its pump, and a
  new token alone does not start it (second alternative of `RunsAreLetGo`);
* a cancelled or completed job may change its status, but `CancelIsHonoured` and
  `ProcessingEnds` hold.

## 6. What is proved

All for every value of the constants.

**`GenerationProofs`.** `TypeCorrect`: `TypeOK` is inductive; its interesting part
is that `attempt` never exceeds `MaxStepAttempts`, which rests on the guard of
`ClaimOne`. `OneUpstreamCall`: `SingleUpstreamCall` is inductive together with
`TypeOK`: no operator but `ClaimStep` adds to the running steps of a run (one lemma
each), and `ClaimOne` only takes a step when, after the reconciliation of the user,
no run has a running step.

**`StoreProofs`.** `PartsInOrder`, `StatusIsTrue`, `TextsErased`, `AnswersFenced`,
`NothingRetriedSilently`, `RelayIsBound`, `KeysAreUsedOnce` and `LimitsAreKept`: the
other safety properties of the store. First, what holds of one generation by itself
(`RunOK`: its steps are in order, its status tells them, its texts are there exactly
while needed, a running step has a lease and the relay of its run) is kept by each
operator of `GenerationRuns`; none of these four parts is inductive alone, since
`Advance` relies on the order to know that it found the last step, and the order
relies on `Claimable` to name the first open one. Then `EveryStepMoves` shows that any
transaction of the store, seen from one generation, is one of twelve moves, or its
submission. The history properties follow by cases on the moves: `Counted` ties
`grants` to the attempts of the current step, `Bound` the model of a run to its relay.

`ContractIsKept`, at the end: `GenerationStore!Spec => ImplementsContract`. All moves but
two are a rest of the contract (`QuietIsRest`); a step is handed out only while no other
is running (`OneCallAtATime`), which is the contract's call; and an accepted answer is
one to the first open question (`AnswerIsAnswer`). What this needs beyond `RunOK` is
`Recorded`: a step has a hash exactly when it is completed, and the text from which the
result is assembled is still the answer with that hash.

**`SubmissionProofs`.** `SubmissionsUseTheStore`: `SubmissionSpec => Spec`, every step of
the submissions, the quota and the rest of the user's actions is a step of the store or a
stutter. So all of `StoreProofs` holds with them (`SubmissionsWithinLimits`,
`SubmissionsKeepContract`). `QuotasAreKept` is inductive with the types of the calls.
`AnswersStayTrue` follows one key through the race of two submissions that both passed the
preflight: the invariant says that a generation which exists has the key of the body it was
made from (`MadeOK`), and that an accepted request names a generation that was made from
its body, which stays so until it is purged (`AcceptedOK`); both rest on `BegunByRequest`, that
any new generation is the one request's that holds the lock. `GenerationsBeginAsPrepared` is
the action property `BegunAsPrepared`, from `RequestOK`: what is planned for a vault answer
was paid for, at each stage of the request.

**`ClientProofs`.** `DevicesUseTheStore`: `ClientSpec => Spec`, likewise for the pump of a
device, its lost requests and answers, and the other devices; `DevicesKeepContract`.
`ClientTypeCorrect`: the device has what its next request needs in each of its phases
(`DeviceIs`): no claim without a session and runs, no call without a step and its attempt,
no delivery without an answer or a failure. `EachCallIsPaidWithConsent`: the device calls the provider at most once per attempt. Not
inductive alone: between the claim and the call everything else may happen, in particular
may the step be taken back and handed to another device under a new attempt. So `PaidOnce`
says of the step in hand that its attempt is not paid for and not beyond the store's, and of
every step that the calls paid for never exceed the attempts; that attempts only grow is
`MoveAttempts` of `StoreProofs`. `NoSilentRetry`, proved of the store, turns attempts into
consent.

**`AudioProofs`.** `TypeCorrect`, `JobsHandedOutOnce`, `ProcessingOwned`, `InputKept`
and `ResultIsThere`: the four safety invariants of `audio`, and `CancellationsAreHonoured`. None is inductive alone.
`HandedOutOnce` breaks in the step that pushes a job again after a crash unless a
job that recovery plans to requeue is not in the list; that rests on a job in the
list never being in processing, which rests on the worker having taken its message
before it marks it. So the invariant follows a job through its places: before
`enqueue_audio_job` only the gateway knows of it (`FreshJobs`); in the list it is
not processing and has an attempt left (`WaitingJobs`); in recovery's plan likewise,
with its audio on disk (`PlannedJobs`); and at each position of the worker there is
what its next step relies on (`HeldJob`). That is why the audio of an active job is
never removed: the worker only cleans up what is in a final state, and only the
worker itself writes an active status to an existing row. `CancellationsAreHonoured` is a
temporal property without fairness: once a job is `Doomed` (cancelled in time), every
step of everybody keeps it so, since each check in front of the worker sees the
cancellation, and a new attempt passes them all again.

**`VaultProofs`.** `TypeCorrect`, `RowsAreKept` (the row of a note is not pulled from
under the request that rewrites it) and `NoLockIsLeft`. The invariant gives each row
lock an owner that is still at work (`Owned`: a deletion of the index, or the index
request of that note while it awaits its embeddings) and says that the loop only waits
for a blocked request (`LoopBlocked`); `WriteRowInv` carries it through every way of
writing a row. `SkipsAreJustified` is the action property `SkipJustified`: it needs that the
chunks of a row are those of its hash, or the content of a request that was answered
`indexed` (`Explained`), and that an answer is never given twice (`AnswerGiven`).

**`LlmProofs`**, of the coordinator alone: `GpuIsExclusive`, `NoAudioStaysBehind` and `GpuLockIsSound`. The
invariant says that the line of the lock has every waiting or working handler once and
nobody else, that only its head works, and that a diarization that has passed the
unloading finds no model loaded; the last part holds because loading a model needs
the lock.

Of the composition: `ImplementsCoordinator`: `LlmRequests!Spec => GpuSpec`, every step of
the composition is a step of the coordinator or a stutter; hence
`GpuIsExclusiveInSystem`. `SlotsAreAlwaysReturned` and `ReportsAreWhole`: the
invariant ties the line of the limiter to the state of the routes, and every answer
counted by a route to an answered call.

**`TextProofs`.** `NothingIsLost` (the chunks so far hold each word up to the cursor
once, in order, are at most `MaxChunks`, and none is longer than `TargetSize`) and
`PlansAreServable`, that a transcript of any length needs at most `MaxChunks + 1` calls,
and that the first of them can be made, for every threshold, except exactly when manual
notes alone meet a threshold of 0 or below. The invariant for the number: what is left of
the transcript fits into the chunks that are left, since a chunk is at least a share of
the length, its boundary search taking at most `Slack` off. `SelectionsAreFair`, of any hits and any
settings. Its invariant (`SearchInv`) says of the first pass that `counts` is the share
each note has, at most `cap`, and that every hit passed over is selected or of a note
that has its share (`Served`); so all are `Served` when the second pass begins, which is
why a note may exceed its share then. That all hits are selected when that pass ends
makes the length right (`NoRepetition`: a sequence without repetition that covers a
finite set is as long as the set has members), and the ranking is without repetition
because `Before` is irreflexive.

`SpeakersAreAlwaysRight` and `NotesAreAlwaysKept` are about folds over inputs of any
length. A fold is defined as a CHOOSE of a function that obeys its equations;
`FoldsExist` shows that there is one, so each fold has a trace, the values after each
element (`NameTrace`, `SectionsTrace` and their like), and what holds of the empty trace
and survives one element more holds of the result (`Induction`, which looks at the least
counterexample; it is about a set of numbers, so it needs no operator parameter). The
invariants of these loops: the best speaker so far is one whose turn shares most of the word, or
holds its middle (`BestSoFar`); the names given so far are those of the speakers
heard, in order (`NamedSoFar`; that the turns can be sorted at all is `RanksAreUnique`);
the lines so far have the words so far (`AreLines`). Of a note: the closed sections and
the open one have the characters of the lines so far, and the stack is the path of
headings over the last line (`SectionsSoFar`); paragraphs, pieces and windows have what was
read, in order (`ParagraphsSoFar`, `PiecesSoFar`, `WindowsSoFar`); the chunks of the first
sections have their characters (`ChunksSoFar`). Windows overlap, so a chunk is not simply
after the one before it; it reaches at least as far (`Reaches`), which is what survives
the overlap.

Assumptions, named in the modules and evaluated by the runs: `None` is neither a
session nor an answer, a plan prepares all its prompts but the last
(`PlansAssumption`, which `PlansAreServable` shows of meetings, but for the one plan it
names: notes alone under a `MEETING_PREDIGEST_MIN_CHARS` of 0 or below, of which every
claim fails, generation_store.py:216, until it expires), limits are positive
(`AttemptsAssumption` and its like); plans have at most `MaxSteps` steps
(`HereAssumption`); calls and uploads are different tasks
(`TasksAssumption`); the routes are those of the code (`GatewayAssumption`); the settings of
meetings and searches are what their schema allows (`SettingsAssumption`: the threshold and
the number of sections may be anything) or positive (`SearchAssumption`); `Nobody` is not a speaker's number (`SpeechAssumption`); the characters of a
note are numbered in its order, the size of a chunk is positive and its overlap not
negative (`ChunkingAssumption`: `RAG_CHUNK_SIZE` and `RAG_CHUNK_OVERLAP` have no bounds in
config.py, and with a size of 0 a long paragraph would lose its text).

Only model-checked: all liveness (leads-to under fairness is out of the prover's reach):
`EveryRunEnds`, `LapsedLeaseIsNoticed`, `EveryUploadEndsUnlessFault`, `CancelTakesEffect`,
`ProcessingEnds`, both `RequestsEnd`, `DiarizationEnds`, `UploadsAreServed` and `RunsAreLetGo`.
`VaultSync` has no theorem: its run refutes a claim of the documentation.

## 7. Not modelled, and why

* The recording and meeting workflows of the plugin and its task display:
  dialogs, files of the vault and the browser's recorder. Their one race
  (`activeRecording`, main.ts:1126) is listed as a hazard. `AudioJobs` lets the
  requests of a user arrive in any order instead.
* Loading and calling a transcription or diarization model: library calls, whose
  outcomes are choices in `AudioJobs` and `GpuCoordinator`.
* Prompt wording, rendering and cleaning of texts, progress figures, notices,
  settings dialogs and modals: layout and wording.
* Configuration, schemas, CLI and migrations: static declarations or one-off
  administration; their limits are the CONSTANTS of the modules. The token look-up
  is one read.
* A second workspace of one user in the vault index: the plugin sends one.
* Keyword and vector scores, and the query with its tag filter, which run in
  PostgreSQL.
* Traefik and the compose files (deployment), except for the restart policies that
  fairness uses.

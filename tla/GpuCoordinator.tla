------------------------------ MODULE GpuCoordinator ------------------------------
(*****************************************************************************)
(* The GPU coordinator, apps/diarization-service: one process and one event  *)
(* loop that runs speaker diarization and proxies Ollama behind gpu_lock.    *)
(* A task is the handler of one request.  An action is what a handler does   *)
(* between two awaits; a client that gives up does not cancel its handler.   *)
(*                                                                           *)
(* External: Ollama keeps the models it has loaded in GPU memory until they  *)
(* are unloaded or their keep_alive is over.                                 *)
(*****************************************************************************)
EXTENDS Integers, Sequences

CONSTANTS
    Calls,     \* requests to proxy_ollama
    Uploads,   \* requests to diarize
    Models     \* models of Ollama

ASSUME TasksAssumption == Calls \cap Uploads = {}

VARIABLES
    line,      \* gpu_lock: the task that holds it, then those that wait for it
    stage,     \* where the handler of each task stands
    unload,    \* names of /api/ps that the holder has still to unload
    loaded,    \* models in GPU memory
    files      \* temp_path and normalized_path of each upload

gpuVars == <<line, stage, unload, loaded, files>>

Tasks == Calls \cup Uploads
Working == {"forwarded", "unloading", "pipeline"}
Answered == {"answered", "failed"}

GpuTypeOK ==
    /\ line \in Seq(Tasks)
    /\ stage \in [Tasks -> {"none", "received", "queued"} \cup Working \cup Answered]
    /\ unload \subseteq Models
    /\ loaded \subseteq Models
    /\ files \in [Uploads -> SUBSET {"upload", "normalized"}]

GpuInit ==
    /\ line = <<>>
    /\ stage = [t \in Tasks |-> "none"]
    /\ unload = {}
    /\ loaded = {}
    /\ files = [u \in Uploads |-> {}]

-----------------------------------------------------------------------------
\* asyncio.Lock is fair: release wakes the task that has waited longest.
HoldsGpu(t) == line # <<>> /\ Head(line) = t

\* Proxied calls -----------------------------------------------------------

ReceiveCall(c) ==
    /\ stage[c] = "none"
    /\ stage' = [stage EXCEPT ![c] = "queued"]
    /\ line' = Append(line, c)
    /\ UNCHANGED <<unload, loaded, files>>

\* forward_ollama_request: Ollama loads the model the call names.  The client may
\* be gone when its turn comes, without the handler knowing it.
Forward(c, m) ==
    /\ stage[c] = "queued" /\ HoldsGpu(c)
    /\ stage' = [stage EXCEPT ![c] = "forwarded"]
    /\ loaded' = loaded \cup {m}
    /\ UNCHANGED <<line, unload, files>>

\* The client is gone and the handler learns it, under the lock, from
\* request.body(), which raises: nothing is forwarded.
DropCall(c) ==
    /\ stage[c] = "queued" /\ HoldsGpu(c)
    /\ stage' = [stage EXCEPT ![c] = "failed"]
    /\ line' = Tail(line)
    /\ UNCHANGED <<unload, loaded, files>>

\* Mutant of AnswerCall: an error keeps the lock.
MutantAnswerCall(c, outcome) ==
    /\ stage[c] = "forwarded"
    /\ outcome \in Answered
    /\ stage' = [stage EXCEPT ![c] = outcome]
    /\ line' = IF outcome = "failed" THEN line ELSE Tail(line)
    /\ UNCHANGED <<unload, loaded, files>>

\* Ollama answers, with success or with an error status, or the connection to
\* it breaks (an unhandled httpx error, HTTP 500).  There is no timeout.
AnswerCall(c, outcome) ==
    /\ stage[c] = "forwarded"
    /\ outcome \in Answered
    /\ stage' = [stage EXCEPT ![c] = outcome]
    /\ line' = Tail(line)
    /\ UNCHANGED <<unload, loaded, files>>

\* keep_alive of an idle model is over.
ModelExpires(m) ==
    /\ m \in loaded
    /\ \A c \in Calls : stage[c] # "forwarded"
    /\ loaded' = loaded \ {m}
    /\ UNCHANGED <<line, stage, unload, files>>

\* Diarization -------------------------------------------------------------

ReceiveUpload(u) ==
    /\ stage[u] = "none"
    /\ stage' = [stage EXCEPT ![u] = "received"]
    /\ files' = [files EXCEPT ![u] = {"upload"}]
    /\ UNCHANGED <<line, unload, loaded>>

\* The upload is converted in a thread, then its handler asks for the lock.
ConvertAudio(u) ==
    /\ stage[u] = "received"
    /\ stage' = [stage EXCEPT ![u] = "queued"]
    /\ files' = [files EXCEPT ![u] = @ \cup {"normalized"}]
    /\ line' = Append(line, u)
    /\ UNCHANGED <<unload, loaded>>

\* Mutant of RemoveFiles: only the uploaded file is removed.
MutantRemoveFiles(u) == files' = [files EXCEPT ![u] = @ \ {"upload"}]

\* The finally clause of diarize.
RemoveFiles(u) == files' = [files EXCEPT ![u] = {}]

\* Too large, empty, or not decodable.
RefuseUpload(u) ==
    /\ stage[u] = "received"
    /\ stage' = [stage EXCEPT ![u] = "failed"]
    /\ RemoveFiles(u)
    /\ UNCHANGED <<line, unload, loaded>>

\* unload_ollama_models asks Ollama for the models it runs ...
ListModels(u) ==
    /\ stage[u] = "queued" /\ HoldsGpu(u)
    /\ stage' = [stage EXCEPT ![u] = "unloading"]
    /\ unload' = loaded
    /\ UNCHANGED <<line, loaded, files>>

\* ... and unloads them one after the other.
UnloadModel(u, m) ==
    /\ stage[u] = "unloading" /\ m \in unload
    /\ unload' = unload \ {m}
    /\ loaded' = loaded \ {m}
    /\ UNCHANGED <<line, stage, files>>

\* The handler leaves the lock and the function.
EndUpload(u, outcome) ==
    /\ stage' = [stage EXCEPT ![u] = outcome]
    /\ line' = Tail(line)
    /\ RemoveFiles(u)

\* Ollama cannot be asked, or refuses: no diarization without its GPU memory.
UnloadFails(u) ==
    /\ \/ stage[u] = "queued" /\ HoldsGpu(u)
       \/ stage[u] = "unloading" /\ unload # {}
    /\ EndUpload(u, "failed")
    /\ unload' = {}
    /\ UNCHANGED loaded

\* Mutant of StartPipeline: one unloaded model is taken for all of them.
MutantStartPipeline(u) ==
    /\ stage[u] = "unloading"
    /\ stage' = [stage EXCEPT ![u] = "pipeline"]
    /\ unload' = {}
    /\ UNCHANGED <<line, loaded, files>>

StartPipeline(u) ==
    /\ stage[u] = "unloading" /\ unload = {}
    /\ stage' = [stage EXCEPT ![u] = "pipeline"]
    /\ UNCHANGED <<line, unload, loaded, files>>

\* run_diarization_pipeline returns turns, or raises (no CUDA, no turns, ...).
PipelineEnds(u, outcome) ==
    /\ stage[u] = "pipeline"
    /\ outcome \in Answered
    /\ EndUpload(u, outcome)
    /\ UNCHANGED <<unload, loaded>>

-----------------------------------------------------------------------------
\* What the coordinator does by itself once it has received a request, except
\* for waiting for Ollama.
ServeUpload(u) ==
    \/ ConvertAudio(u)
    \/ RefuseUpload(u)
    \/ ListModels(u)
    \/ \E m \in Models : UnloadModel(u, m)
    \/ UnloadFails(u)
    \/ StartPipeline(u)
    \/ \E outcome \in Answered : PipelineEnds(u, outcome)

GpuNext ==
    \/ \E c \in Calls : \/ ReceiveCall(c)
                        \/ \E m \in Models : Forward(c, m)
                        \/ DropCall(c)
                        \/ \E outcome \in Answered : AnswerCall(c, outcome)
    \/ \E u \in Uploads : ReceiveUpload(u) \/ ServeUpload(u)
    \/ \E m \in Models : ModelExpires(m)

GpuSpec == GpuInit /\ [][GpuNext]_gpuVars

-----------------------------------------------------------------------------
\* Invariants ----------------------------------------------------------------

\* "Both workloads cannot occupy the RTX 2070 at once" (README): while the
\* diarization pipeline runs, no other pipeline runs, no model of Ollama is in
\* GPU memory and no call is with Ollama, whatever failed or was abandoned
\* before.
GpuExclusive ==
    \A u \in Uploads : stage[u] = "pipeline" =>
        /\ loaded = {}
        /\ \A t \in Tasks \ {u} : stage[t] \notin Working

\* Private audio does not stay behind: an upload has its files exactly while
\* its handler runs, on every path out of it, and the pipeline has its input.
AudioIsRemoved ==
    \A u \in Uploads :
        /\ files[u] = {} <=> stage[u] \in {"none"} \cup Answered
        /\ stage[u] = "pipeline" => "normalized" \in files[u]

\* The lock is neither lost nor leaked: a task is in its line, once, exactly
\* while its handler waits for it or works under it, and only the first works.
LockIsSound ==
    /\ \A i, j \in DOMAIN line : line[i] = line[j] => i = j
    /\ \A t \in Tasks : (\E i \in DOMAIN line : line[i] = t)
                            <=> stage[t] \in {"queued"} \cup Working
    /\ \A t \in Tasks : stage[t] \in Working => HoldsGpu(t)
=============================================================================

------------------------------- MODULE LlmRequests -------------------------------
(*****************************************************************************)
(* The users of the GPU coordinator: the gateway routes that call a language *)
(* or an embedding model through the shared OllamaRequestLimiter, and the    *)
(* worker that asks for a diarization.  A route makes the calls of its plan  *)
(* one after the other; every call waits for a slot of the limiter, then for *)
(* an answer of the coordinator or for its own timeout.                      *)
(*****************************************************************************)
EXTENDS GpuCoordinator, SequencesExt, FiniteSets

CONSTANTS
    Requests,        \* requests to the gateway
    Chat, Embed,     \* the chat model and the embedding model
    Plans,           \* the calls of the routes that are used
    MaxCalls,        \* bound on the calls of one request
    MaxConcurrent    \* ollama_max_concurrent_requests

\* The calls of the routes, in order.
\* summarize_note and assistant_chat: one chat.
OneChatPlans == {<<Chat>>}

\* run_meeting_generation: a chat per section of a deep think report, or per
\* chunk of a long transcript and a last one for the report.
MeetingPlans == {[i \in 1..n |-> Chat] : n \in 1..MaxCalls}

\* index_note: an embedding per chunk.
IndexPlans == {[i \in 1..n |-> Embed] : n \in 1..MaxCalls}

\* vault_search, and the preparation of a vault_answer generation.
SearchPlans == {<<Embed>>}

\* vault_ask: the search, then the answer.
AskPlans == IF MaxCalls > 1 THEN {<<Embed, Chat>>} ELSE {}

RoutePlans == OneChatPlans \cup MeetingPlans \cup IndexPlans \cup SearchPlans \cup AskPlans

ASSUME GatewayAssumption ==
    /\ Models = {Chat, Embed}
    /\ Plans \subseteq RoutePlans
    /\ MaxCalls \in Nat \ {0}
    /\ MaxConcurrent \in Nat \ {0}
    /\ Calls = Requests \X (1..MaxCalls)

VARIABLES
    req,            \* the gateway routes in progress
    turn,           \* the limiter's semaphore: its holders, then its waiters
    diarization     \* what the worker knows of the speakers of each audio file

clientVars == <<req, turn, diarization>>
vars == <<gpuVars, clientVars>>

\* How a route ends: HTTP 200, 503 (OllamaUnavailableError), 502 (OllamaResponseError).
Ended == {"done", "unavailable", "bad_response"}

TypeOK ==
    /\ GpuTypeOK
    /\ req \in [Requests -> [status : {"none", "waiting", "calling"} \cup Ended,
                             plan : Plans \cup {<<>>}, answers : 0..MaxCalls]]
    /\ turn \in Seq(Requests)
    /\ diarization \in [Uploads -> {"none", "asked", "labelled", "failed"}]

Init ==
    /\ GpuInit
    /\ req = [r \in Requests |-> [status |-> "none", plan |-> <<>>, answers |-> 0]]
    /\ turn = <<>>
    /\ diarization = [u \in Uploads |-> "none"]

-----------------------------------------------------------------------------
\* OllamaRequestLimiter: asyncio.Semaphore is fair, so that its holders are the
\* first of those that have not left.
\* Mutant of HoldsSlot: the limit is off by one.
MutantHoldsSlot(r) == \E i \in DOMAIN turn : turn[i] = r /\ i <= MaxConcurrent + 1

HoldsSlot(r) == \E i \in DOMAIN turn : turn[i] = r /\ i <= MaxConcurrent

\* The call that request r has to make next.
Call(r) == <<r, req[r].answers + 1>>

\* Mutant of Leave: the slot of a call that timed out is not given back.
MutantLeave(r, st) ==
    /\ req' = [req EXCEPT ![r].status = st]
    /\ \E i \in DOMAIN turn : /\ turn[i] = r
                             /\ turn' = IF st = "unavailable" THEN turn ELSE RemoveAt(turn, i)

\* The slot is given back when the call is over.
Leave(r, st) ==
    /\ req' = [req EXCEPT ![r].status = st]
    /\ \E i \in DOMAIN turn : turn[i] = r /\ turn' = RemoveAt(turn, i)

\* Gateway routes ----------------------------------------------------------

Arrive(r, p) ==
    /\ req[r].status = "none"
    /\ req' = [req EXCEPT ![r] = [status |-> "waiting", plan |-> p, answers |-> 0]]
    /\ turn' = Append(turn, r)
    /\ UNCHANGED <<gpuVars, diarization>>

\* summarize_markdown, embed_text: post once there is a slot.
SendCall(r) ==
    /\ req[r].status = "waiting" /\ HoldsSlot(r)
    /\ req' = [req EXCEPT ![r].status = "calling"]
    /\ ReceiveCall(Call(r))
    /\ UNCHANGED <<turn, diarization>>

\* The coordinator cannot be reached (ConnectError and other transport errors).
Unreachable(r) ==
    /\ req[r].status = "waiting" /\ HoldsSlot(r)
    /\ Leave(r, "unavailable")
    /\ UNCHANGED <<gpuVars, diarization>>

\* Is the answer to call i of plan p the last one?  vault_ask answers without
\* the chat model when the search has found too little.
MayStopAfter(p, i, enough) ==
    \/ i = Len(p)
    \/ p = <<Embed, Chat>> /\ ~enough

\* The route is done, or asks for a slot again, behind those that wait already.
GoOn(r, enough) ==
    LET g == req[r]
        n == g.answers + 1
    IN  \E i \in DOMAIN turn :
            /\ turn[i] = r
            /\ \/ /\ MayStopAfter(g.plan, n, enough)
                  /\ req' = [req EXCEPT ![r] = [status |-> "done", plan |-> g.plan, answers |-> n]]
                  /\ turn' = RemoveAt(turn, i)
               \/ /\ ~MayStopAfter(g.plan, n, enough)
                  /\ req' = [req EXCEPT ![r] = [status |-> "waiting", plan |-> g.plan, answers |-> n]]
                  /\ turn' = Append(RemoveAt(turn, i), r)

\* Mutant of AcceptAnswer: an error counts as an empty section.
MutantAcceptAnswer(r, enough) ==
    /\ req[r].status = "calling" /\ stage[Call(r)] \in Answered
    /\ GoOn(r, enough)
    /\ UNCHANGED <<gpuVars, diarization>>

AcceptAnswer(r, enough) ==
    /\ req[r].status = "calling" /\ stage[Call(r)] = "answered"
    /\ GoOn(r, enough)
    /\ UNCHANGED <<gpuVars, diarization>>

\* An error status, no JSON, or an empty content or embedding.
RejectAnswer(r) ==
    /\ req[r].status = "calling" /\ stage[Call(r)] \in Answered
    /\ Leave(r, "bad_response")
    /\ UNCHANGED <<gpuVars, diarization>>

\* ollama_timeout_seconds have passed; the handler of the coordinator goes on.
TimeOut(r) ==
    /\ req[r].status = "calling" /\ stage[Call(r)] \notin Answered
    /\ Leave(r, "unavailable")
    /\ UNCHANGED <<gpuVars, diarization>>

\* The worker --------------------------------------------------------------

\* One audio file at a time (diarize_with_heartbeat).
AskForSpeakers(u) ==
    /\ \A v \in Uploads : diarization[v] # "asked"
    /\ diarization[u] = "none"
    /\ diarization' = [diarization EXCEPT ![u] = "asked"]
    /\ ReceiveUpload(u)
    /\ UNCHANGED <<req, turn>>

\* apply_speaker_turns, or mark_diarization_failed: the transcript is kept.
TurnsArrive(u, usable) ==
    /\ diarization[u] = "asked" /\ stage[u] \in Answered
    /\ diarization' = [diarization EXCEPT ![u] = IF stage[u] = "answered" /\ usable
                                                 THEN "labelled" ELSE "failed"]
    /\ UNCHANGED <<gpuVars, req, turn>>

\* Mutant of WorkerTimesOut: the worker only gives up once it is served.
MutantWorkerTimesOut(u) ==
    /\ diarization[u] = "asked" /\ stage[u] = "pipeline"
    /\ diarization' = [diarization EXCEPT ![u] = "failed"]
    /\ UNCHANGED <<gpuVars, req, turn>>

WorkerTimesOut(u) ==
    /\ diarization[u] = "asked" /\ stage[u] \notin Answered
    /\ diarization' = [diarization EXCEPT ![u] = "failed"]
    /\ UNCHANGED <<gpuVars, req, turn>>

\* The coordinator ---------------------------------------------------------

\* The gateway is still there for the answer.
Awaited(c) == \E r \in Requests : req[r].status = "calling" /\ Call(r) = c

\* The first call in line is forwarded, or dropped if it was given up.
CoordinatorForwards ==
    /\ \E r \in Requests, n \in 1..MaxCalls :
          /\ n \in DOMAIN req[r].plan
          /\ \/ Forward(<<r, n>>, req[r].plan[n])
             \/ ~Awaited(<<r, n>>) /\ DropCall(<<r, n>>)
    /\ UNCHANGED clientVars

OllamaAnswers(c) == /\ \E outcome \in Answered : AnswerCall(c, outcome)
                    /\ UNCHANGED clientVars

CoordinatorDiarizes(u) == ServeUpload(u) /\ UNCHANGED clientVars

KeepAliveEnds == /\ \E m \in Models : ModelExpires(m)
                 /\ UNCHANGED clientVars

-----------------------------------------------------------------------------
EndCall(r) == \/ \E enough \in BOOLEAN : AcceptAnswer(r, enough)
              \/ RejectAnswer(r)
              \/ TimeOut(r)

StartCall(r) == SendCall(r) \/ Unreachable(r)

EndDiarization(u) == (\E usable \in BOOLEAN : TurnsArrive(u, usable)) \/ WorkerTimesOut(u)

Next ==
    \/ \E r \in Requests : (\E p \in Plans : Arrive(r, p)) \/ StartCall(r) \/ EndCall(r)
    \/ \E u \in Uploads : AskForSpeakers(u) \/ EndDiarization(u) \/ CoordinatorDiarizes(u)
    \/ \E c \in Calls : OllamaAnswers(c)
    \/ CoordinatorForwards
    \/ KeepAliveEnds

Spec == Init /\ [][Next]_vars

\* The event loops run their ready tasks, the clients' timeouts fire, and the
\* diarization of a file ends.  Nothing is assumed of Ollama, nor of new work.
FairSpec ==
    /\ Spec
    /\ \A r \in Requests : WF_vars(StartCall(r)) /\ WF_vars(EndCall(r))
    /\ \A u \in Uploads : WF_vars(EndDiarization(u)) /\ WF_vars(CoordinatorDiarizes(u))
    /\ WF_vars(CoordinatorForwards)

\* Ollama answers what is forwarded to it, sooner or later.
OllamaIsAlive == \A c \in Calls : WF_vars(OllamaAnswers(c))

-----------------------------------------------------------------------------
\* Invariants ----------------------------------------------------------------

\* OLLAMA_MAX_CONCURRENT_REQUESTS: never more routes than that have a call
\* under way, and no slot is lost: the limiter's line is exactly the routes
\* that wait for a slot or an answer, each once.
SlotsAreReturned ==
    /\ Cardinality({r \in Requests : req[r].status = "calling"}) <= MaxConcurrent
    /\ \A i, j \in DOMAIN turn : turn[i] = turn[j] => i = j
    /\ \A r \in Requests : (\E i \in DOMAIN turn : turn[i] = r)
                               <=> req[r].status \in {"waiting", "calling"}

\* A route answers 200 only with an answer of Ollama for every call of its
\* plan, in order: no meeting report misses a section because one call failed
\* or timed out.  Only vault_ask may stop after its search.
ReportIsWhole ==
    \A r \in Requests :
        /\ \A n \in 1..req[r].answers : stage[<<r, n>>] = "answered"
        /\ req[r].status = "done" =>
              \/ req[r].answers = Len(req[r].plan)
              \/ req[r].plan = <<Embed, Chat>> /\ req[r].answers = 1

-----------------------------------------------------------------------------
\* Liveness ------------------------------------------------------------------

\* Every request to the gateway is answered, even while a hanging Ollama keeps
\* the lock of the coordinator for ever.
RequestsEnd == \A r \in Requests : req[r].status = "waiting" ~> req[r].status \in Ended

\* The worker always gets on with its job, with speakers or without
\* ("diarization failure does not discard a valid transcript", docs/api.md).
DiarizationEnds == \A u \in Uploads : diarization[u] = "asked" ~> diarization[u] # "asked"

\* As long as Ollama answers, every upload is diarized or refused in its turn,
\* and so removed, also when nobody waits for it any more.
UploadsAreServed ==
    OllamaIsAlive => \A u \in Uploads : stage[u] = "received" ~> stage[u] \in Answered
=============================================================================

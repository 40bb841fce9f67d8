------------------------------- MODULE LlmProofs -------------------------------
(*****************************************************************************)
(* Proofs about GpuCoordinator and LlmRequests, for any number of calls,     *)
(* uploads, models, requests and slots.  First the coordinator: the GPU is   *)
(* never shared by the two workloads, the lock is never lost, and no audio   *)
(* file stays behind; they follow from one inductive invariant.  Then the    *)
(* composition: its steps are steps of the coordinator, so that what is      *)
(* proved of gpu_lock holds for the gateway and the worker together; the     *)
(* limiter loses no slot and hands out no more than it has; and a route      *)
(* answers only with all its parts.                                          *)
(*****************************************************************************)
EXTENDS LlmRequests, SequenceTheorems, FiniteSetTheorems, TLAPS


InLine(t) == \E i \in DOMAIN line : line[i] = t

LineOnce == \A i, j \in DOMAIN line : line[i] = line[j] => i = j

\* A task is in the line exactly while it waits for the lock or works under it.
Waiters == \A t \in Tasks : InLine(t) <=> stage[t] \in {"queued"} \cup Working

\* Only the holder works.
Holder == \A t \in Tasks : stage[t] \in Working => HoldsGpu(t)

\* Each kind of task has its own stages.
Kinds == /\ \A c \in Calls : stage[c] \notin {"received", "unloading", "pipeline"}
         /\ \A u \in Uploads : stage[u] # "forwarded"

\* What is loaded while the models are unloaded was loaded when they were listed.
Unloading == \A u \in Uploads : /\ stage[u] = "unloading" => loaded \subseteq unload
                                /\ stage[u] = "pipeline" => loaded = {}

\* The handler of an upload waits for the lock once its audio is converted.
Converted == \A u \in Uploads : stage[u] \in {"queued", "unloading", "pipeline"} =>
                                    "normalized" \in files[u]

Inv == /\ GpuTypeOK /\ LineOnce /\ Waiters /\ Holder /\ Kinds /\ Unloading
       /\ AudioIsRemoved /\ Converted

-----------------------------------------------------------------------------
\* A task joins the line.
LEMMA Joined ==
    ASSUME line \in Seq(Tasks), NEW t \in Tasks, line' = Append(line, t)
    PROVE  /\ line' \in Seq(Tasks)
           /\ \A s : InLine(s)' <=> InLine(s) \/ s = t
           /\ LineOnce /\ ~InLine(t) => LineOnce'
           /\ line # <<>> => line' # <<>> /\ Head(line') = Head(line)
<1>1. /\ line' \in Seq(Tasks)
      /\ DOMAIN line = 1..Len(line) /\ Len(line) \in Nat
      /\ DOMAIN line' = 1..(Len(line) + 1)
      /\ \A i \in 1..Len(line) : line'[i] = line[i]
      /\ line'[Len(line) + 1] = t
  BY AppendProperties, LenProperties
<1>2. \A s : InLine(s)' <=> InLine(s) \/ s = t
  BY <1>1 DEF InLine
<1>3. LineOnce /\ ~InLine(t) => LineOnce'
  BY <1>1 DEF LineOnce, InLine
<1>4. line # <<>> => line' # <<>> /\ Head(line') = Head(line)
  BY <1>1, EmptySeq, HeadTailProperties, AppendProperties
<1>5. QED
  BY <1>1, <1>2, <1>3, <1>4

\* The holder leaves the line.
LEMMA Left ==
    ASSUME line \in Seq(Tasks), NEW t \in Tasks, HoldsGpu(t), line' = Tail(line), LineOnce
    PROVE  /\ line' \in Seq(Tasks) /\ LineOnce'
           /\ \A s : InLine(s)' <=> InLine(s) /\ s # t
<1>1. /\ Head(line) = t /\ Head(line) = line[1]
      /\ line' \in Seq(Tasks)
      /\ DOMAIN line = 1..Len(line) /\ Len(line) \in Nat /\ Len(line) # 0
      /\ DOMAIN line' = 1..(Len(line) - 1)
      /\ \A i \in 1..(Len(line) - 1) : line'[i] = line[i + 1]
  BY HeadTailProperties, LenProperties, EmptySeq DEF HoldsGpu
<1>2. LineOnce'
  BY <1>1 DEF LineOnce
<1>3. \A s : InLine(s)' => InLine(s) /\ s # t
  BY <1>1 DEF InLine, LineOnce
<1>4. ASSUME NEW s, InLine(s), s # t PROVE InLine(s)'
  <2>1. PICK i \in 1..Len(line) : line[i] = s
    BY <1>1, <1>4 DEF InLine
  <2>2. i - 1 \in 1..(Len(line) - 1) /\ line'[i - 1] = s
    BY <2>1, <1>1, <1>4
  <2>3. QED
    BY <2>2, <1>1 DEF InLine
<1>5. QED
  BY <1>1, <1>2, <1>3, <1>4

\* The line is left alone.
LEMMA LineKept ==
    ASSUME line' = line
    PROVE  /\ \A s : (InLine(s)' <=> InLine(s)) /\ (HoldsGpu(s)' <=> HoldsGpu(s))
           /\ LineOnce' <=> LineOnce
  BY DEF InLine, LineOnce, HoldsGpu

\* No one else works while t holds the lock.
LEMMA Alone ==
    ASSUME Holder, NEW t, HoldsGpu(t)
    PROVE  \A s \in Tasks \ {t} : stage[s] \notin Working
  BY DEF Holder, HoldsGpu

\* It holds initially.
LEMMA InitInv == ASSUME GpuInit PROVE Inv
<1>1. \A t : ~InLine(t)
  BY DEF GpuInit, InLine
<1>2. QED
  BY <1>1 DEF GpuInit, Inv, GpuTypeOK, LineOnce, Waiters, Holder, Kinds, Unloading,
              AudioIsRemoved, Converted, Working, Answered, Tasks

\* ReceiveCall keeps the invariant.
LEMMA ReceiveCallInv == ASSUME Inv, NEW c \in Calls, ReceiveCall(c) PROVE Inv'
<1> USE DEF Working, Answered
<1>1. c \in Tasks /\ ~InLine(c)
  BY DEF Inv, Waiters, ReceiveCall, Tasks
<1>2. GpuTypeOK'
  BY <1>1, Joined DEF Inv, GpuTypeOK, ReceiveCall, Tasks
<1>3. LineOnce' /\ Waiters'
  BY <1>1, Joined DEF Inv, GpuTypeOK, Waiters, ReceiveCall
<1>4. Holder'
  BY <1>1, Joined DEF Inv, GpuTypeOK, Holder, HoldsGpu, ReceiveCall
<1>5. Kinds' /\ Unloading' /\ AudioIsRemoved' /\ Converted'
  BY <1>1, TasksAssumption DEF Inv, GpuTypeOK, Kinds, Unloading, AudioIsRemoved, Converted, ReceiveCall, Tasks
<1>6. QED
  BY <1>2, <1>3, <1>4, <1>5 DEF Inv

\* Forward keeps the invariant.
LEMMA ForwardInv ==
    ASSUME Inv, NEW c \in Calls, NEW m \in Models, Forward(c, m) PROVE Inv'
<1> USE DEF Working, Answered
<1>1. c \in Tasks /\ HoldsGpu(c) /\ \A s \in Tasks \ {c} : stage[s] \notin Working
  BY Alone DEF Inv, Forward, Tasks
<1>2. GpuTypeOK'
  BY <1>1 DEF Inv, GpuTypeOK, Forward
<1>3. LineOnce' /\ Waiters' /\ Holder'
  BY <1>1, LineKept DEF Inv, GpuTypeOK, Waiters, Holder, Forward
<1>4. Kinds' /\ AudioIsRemoved' /\ Converted'
  BY <1>1, TasksAssumption DEF Inv, GpuTypeOK, Kinds, AudioIsRemoved, Converted, Forward, Tasks
<1>5. Unloading'
  BY <1>1, TasksAssumption DEF Inv, GpuTypeOK, Unloading, Forward, Tasks
<1>6. QED
  BY <1>2, <1>3, <1>4, <1>5 DEF Inv

\* The end of a task that holds the lock.
LEMMA EndInv ==
    ASSUME Inv, NEW t \in Tasks, HoldsGpu(t), NEW outcome \in Answered,
           stage' = [stage EXCEPT ![t] = outcome], line' = Tail(line)
    PROVE  /\ line' \in Seq(Tasks)
           /\ stage' \in [Tasks -> {"none", "received", "queued"} \cup Working \cup Answered]
           /\ LineOnce' /\ Waiters' /\ Holder' /\ Kinds'
<1> USE DEF Working, Answered
<1>1. \A s \in Tasks \ {t} : stage[s] \notin Working
  BY Alone DEF Inv
<1>2. /\ line' \in Seq(Tasks)
      /\ stage' \in [Tasks -> {"none", "received", "queued"} \cup Working \cup Answered]
  BY Left DEF Inv, GpuTypeOK
<1>3. LineOnce' /\ Waiters'
  BY Left DEF Inv, GpuTypeOK, Waiters
<1>4. Holder' /\ Kinds'
  BY <1>1 DEF Inv, GpuTypeOK, Holder, Kinds, Tasks
<1>5. QED
  BY <1>2, <1>3, <1>4

\* AnswerCall keeps the invariant.
LEMMA AnswerCallInv ==
    ASSUME Inv, NEW c \in Calls, NEW outcome \in Answered, AnswerCall(c, outcome) PROVE Inv'
<1>1. c \in Tasks /\ HoldsGpu(c)
  BY DEF Inv, Holder, AnswerCall, Tasks, Working
<1>2. GpuTypeOK' /\ LineOnce' /\ Waiters' /\ Holder' /\ Kinds'
  BY <1>1, EndInv DEF Inv, GpuTypeOK, AnswerCall
<1>3. Unloading' /\ AudioIsRemoved' /\ Converted'
  BY <1>1, TasksAssumption DEF Inv, GpuTypeOK, Unloading, AudioIsRemoved, Converted, AnswerCall, Tasks
<1>4. QED
  BY <1>2, <1>3 DEF Inv

\* DropCall keeps the invariant.
LEMMA DropCallInv == ASSUME Inv, NEW c \in Calls, DropCall(c) PROVE Inv'
<1>1. c \in Tasks /\ HoldsGpu(c) /\ "failed" \in Answered
  BY DEF DropCall, Tasks, Answered
<1>2. GpuTypeOK' /\ LineOnce' /\ Waiters' /\ Holder' /\ Kinds'
  BY <1>1, EndInv DEF Inv, GpuTypeOK, DropCall
<1>3. Unloading' /\ AudioIsRemoved' /\ Converted'
  BY <1>1, TasksAssumption DEF Inv, GpuTypeOK, Unloading, AudioIsRemoved, Converted, DropCall, Tasks
<1>4. QED
  BY <1>2, <1>3 DEF Inv

\* ModelExpires keeps the invariant.
LEMMA ModelExpiresInv == ASSUME Inv, NEW m \in Models, ModelExpires(m) PROVE Inv'
<1>1. LineOnce' /\ Waiters' /\ Holder'
  BY LineKept DEF Inv, Waiters, Holder, ModelExpires
<1>2. QED
  BY <1>1 DEF Inv, GpuTypeOK, Kinds, Unloading, AudioIsRemoved, Converted, ModelExpires

\* ReceiveUpload keeps the invariant.
LEMMA ReceiveUploadInv == ASSUME Inv, NEW u \in Uploads, ReceiveUpload(u) PROVE Inv'
<1> USE DEF Working, Answered
<1>1. LineOnce' /\ Waiters' /\ Holder'
  BY LineKept DEF Inv, GpuTypeOK, Waiters, Holder, ReceiveUpload, Tasks
<1>2. GpuTypeOK' /\ AudioIsRemoved' /\ Converted'
  BY DEF Inv, GpuTypeOK, AudioIsRemoved, Converted, ReceiveUpload, Tasks
<1>3. Kinds' /\ Unloading'
  BY TasksAssumption DEF Inv, GpuTypeOK, Kinds, Unloading, ReceiveUpload, Tasks
<1>4. QED
  BY <1>1, <1>2, <1>3 DEF Inv

\* ConvertAudio keeps the invariant.
LEMMA ConvertAudioInv == ASSUME Inv, NEW u \in Uploads, ConvertAudio(u) PROVE Inv'
<1> USE DEF Working, Answered
<1>1. u \in Tasks /\ ~InLine(u)
  BY DEF Inv, Waiters, ConvertAudio, Tasks
<1>2. GpuTypeOK' /\ AudioIsRemoved' /\ Converted'
  BY <1>1, Joined DEF Inv, GpuTypeOK, AudioIsRemoved, Converted, ConvertAudio, Tasks
<1>3. LineOnce' /\ Waiters'
  BY <1>1, Joined DEF Inv, GpuTypeOK, Waiters, ConvertAudio
<1>4. Holder'
  BY <1>1, Joined DEF Inv, GpuTypeOK, Holder, HoldsGpu, ConvertAudio
<1>5. Kinds' /\ Unloading'
  BY <1>1, TasksAssumption DEF Inv, GpuTypeOK, Kinds, Unloading, ConvertAudio, Tasks
<1>6. QED
  BY <1>2, <1>3, <1>4, <1>5 DEF Inv

\* RefuseUpload keeps the invariant.
LEMMA RefuseUploadInv == ASSUME Inv, NEW u \in Uploads, RefuseUpload(u) PROVE Inv'
<1> USE DEF Working, Answered, RemoveFiles
<1>1. LineOnce' /\ Waiters' /\ Holder'
  BY LineKept DEF Inv, GpuTypeOK, Waiters, Holder, RefuseUpload, Tasks
<1>2. GpuTypeOK' /\ AudioIsRemoved' /\ Converted'
  BY DEF Inv, GpuTypeOK, AudioIsRemoved, Converted, RefuseUpload, Tasks
<1>3. Kinds' /\ Unloading'
  BY TasksAssumption DEF Inv, GpuTypeOK, Kinds, Unloading, RefuseUpload, Tasks
<1>4. QED
  BY <1>1, <1>2, <1>3 DEF Inv

\* ListModels keeps the invariant.
LEMMA ListModelsInv == ASSUME Inv, NEW u \in Uploads, ListModels(u) PROVE Inv'
<1> USE DEF Working, Answered
<1>1. u \in Tasks /\ HoldsGpu(u) /\ \A s \in Tasks \ {u} : stage[s] \notin Working
  BY Alone DEF Inv, ListModels, Tasks
<1>2. GpuTypeOK' /\ AudioIsRemoved' /\ Converted'
  BY <1>1 DEF Inv, GpuTypeOK, AudioIsRemoved, Converted, ListModels, Tasks
<1>3. LineOnce' /\ Waiters' /\ Holder'
  BY <1>1, LineKept DEF Inv, GpuTypeOK, Waiters, Holder, ListModels
<1>4. Kinds' /\ Unloading'
  BY <1>1, TasksAssumption DEF Inv, GpuTypeOK, Kinds, Unloading, ListModels, Tasks
<1>5. QED
  BY <1>2, <1>3, <1>4 DEF Inv

\* UnloadModel keeps the invariant.
LEMMA UnloadModelInv ==
    ASSUME Inv, NEW u \in Uploads, NEW m \in Models, UnloadModel(u, m) PROVE Inv'
<1>1. LineOnce' /\ Waiters' /\ Holder'
  BY LineKept DEF Inv, Waiters, Holder, UnloadModel
<1>2. QED
  BY <1>1 DEF Inv, GpuTypeOK, Kinds, Unloading, AudioIsRemoved, Converted, UnloadModel

\* The end of an upload that holds the lock.
LEMMA EndUploadInv ==
    ASSUME Inv, NEW u \in Uploads, HoldsGpu(u), NEW outcome \in Answered,
           EndUpload(u, outcome), unload' \subseteq Models, loaded' = loaded
    PROVE  Inv'
<1>1. u \in Tasks /\ \A s \in Tasks \ {u} : stage[s] \notin Working
  BY Alone DEF Inv, Tasks
<1>2. /\ line' \in Seq(Tasks) /\ LineOnce' /\ Waiters' /\ Holder' /\ Kinds'
      /\ stage' \in [Tasks -> {"none", "received", "queued"} \cup Working \cup Answered]
  BY <1>1, EndInv DEF EndUpload
<1>3. GpuTypeOK' /\ AudioIsRemoved' /\ Converted'
  BY <1>1, <1>2 DEF Inv, GpuTypeOK, AudioIsRemoved, Converted, EndUpload, RemoveFiles, Answered, Tasks
<1>4. Unloading'
  BY <1>1 DEF Inv, GpuTypeOK, Unloading, EndUpload, Working, Answered, Tasks
<1>5. QED
  BY <1>2, <1>3, <1>4 DEF Inv

\* UnloadFails keeps the invariant.
LEMMA UnloadFailsInv == ASSUME Inv, NEW u \in Uploads, UnloadFails(u) PROVE Inv'
<1>1. HoldsGpu(u) /\ "failed" \in Answered
  BY DEF Inv, Holder, UnloadFails, Working, Answered, Tasks
<1>2. QED
  BY <1>1, EndUploadInv DEF UnloadFails

\* StartPipeline keeps the invariant.
LEMMA StartPipelineInv == ASSUME Inv, NEW u \in Uploads, StartPipeline(u) PROVE Inv'
<1> USE DEF Working, Answered
<1>1. u \in Tasks /\ HoldsGpu(u) /\ \A s \in Tasks \ {u} : stage[s] \notin Working
  BY Alone DEF Inv, Holder, StartPipeline, Tasks
<1>2. GpuTypeOK' /\ AudioIsRemoved' /\ Converted'
  BY <1>1 DEF Inv, GpuTypeOK, AudioIsRemoved, Converted, StartPipeline, Tasks
<1>3. LineOnce' /\ Waiters' /\ Holder'
  BY <1>1, LineKept DEF Inv, GpuTypeOK, Waiters, Holder, StartPipeline
<1>4. Kinds' /\ Unloading'
  BY <1>1, TasksAssumption DEF Inv, GpuTypeOK, Kinds, Unloading, StartPipeline, Tasks
<1>5. QED
  BY <1>2, <1>3, <1>4 DEF Inv

\* PipelineEnds keeps the invariant.
LEMMA PipelineEndsInv ==
    ASSUME Inv, NEW u \in Uploads, NEW outcome \in Answered, PipelineEnds(u, outcome) PROVE Inv'
<1>1. HoldsGpu(u)
  BY DEF Inv, Holder, PipelineEnds, Working, Tasks
<1>2. QED
  BY <1>1, EndUploadInv DEF PipelineEnds, Inv, GpuTypeOK

\* Every step keeps it.
LEMMA NextInv == ASSUME Inv, [GpuNext]_gpuVars PROVE Inv'
<1>1. CASE UNCHANGED gpuVars
  <2>1. LineOnce' /\ Waiters' /\ Holder'
    BY <1>1, LineKept DEF Inv, Waiters, Holder, gpuVars
  <2>2. QED
    BY <1>1, <2>1 DEF Inv, GpuTypeOK, Kinds, Unloading, AudioIsRemoved, Converted, gpuVars
<1>2. CASE \E c \in Calls : \/ ReceiveCall(c)
                            \/ \E m \in Models : Forward(c, m)
                            \/ DropCall(c)
                            \/ \E outcome \in Answered : AnswerCall(c, outcome)
  BY <1>2, ReceiveCallInv, ForwardInv, DropCallInv, AnswerCallInv
<1>3. CASE \E u \in Uploads : ReceiveUpload(u) \/ ServeUpload(u)
  BY <1>3, ReceiveUploadInv, ConvertAudioInv, RefuseUploadInv, ListModelsInv, UnloadModelInv,
     UnloadFailsInv, StartPipelineInv, PipelineEndsInv DEF ServeUpload
<1>4. CASE \E m \in Models : ModelExpires(m)
  BY <1>4, ModelExpiresInv
<1>5. QED
  BY <1>1, <1>2, <1>3, <1>4 DEF GpuNext

\* The invariant of the coordinator.
LEMMA Invariance == GpuSpec => []Inv
<1>1. GpuInit => Inv
  BY InitInv
<1>2. Inv /\ [GpuNext]_gpuVars => Inv'
  BY NextInv
<1>3. QED
  BY <1>1, <1>2, PTL DEF GpuSpec

-----------------------------------------------------------------------------
\* The state of the coordinator is always well formed.
THEOREM GpuTypeCorrect == GpuSpec => []GpuTypeOK
<1>1. Inv => GpuTypeOK
  BY DEF Inv
<1>2. QED
  BY <1>1, Invariance, PTL

\* Diarization and Ollama are never on the GPU together, for any number of
\* uploads, calls and models and whatever fails: gpu_lock of main.py.
THEOREM GpuIsExclusive == GpuSpec => []GpuExclusive
<1>1. Inv => GpuExclusive
  <2>1. SUFFICES ASSUME Inv, NEW u \in Uploads, stage[u] = "pipeline"
                 PROVE  loaded = {} /\ \A t \in Tasks \ {u} : stage[t] \notin Working
    BY DEF GpuExclusive
  <2>2. HoldsGpu(u)
    BY <2>1 DEF Inv, Holder, Working, Tasks
  <2>3. QED
    BY <2>1, <2>2, Alone DEF Inv, Unloading
<1>2. QED
  BY <1>1, Invariance, PTL

\* gpu_lock is held by one task that works or by none, and no waiter is lost.
THEOREM GpuLockIsSound == GpuSpec => []LockIsSound
<1>1. Inv => LockIsSound
  BY DEF Inv, LockIsSound, LineOnce, Waiters, Holder, InLine
<1>2. QED
  BY <1>1, Invariance, PTL

\* No path through diarize leaves an audio file behind.
THEOREM NoAudioStaysBehind == GpuSpec => []AudioIsRemoved
<1>1. Inv => AudioIsRemoved
  BY DEF Inv
<1>2. QED
  BY <1>1, Invariance, PTL

-----------------------------------------------------------------------------
\* The gateway and the worker.

InTurn(r) == \E i \in DOMAIN turn : turn[i] = r

TurnOnce == \A i, j \in DOMAIN turn : turn[i] = turn[j] => i = j

\* Who is in the semaphore's line, and who may call.
Limiter == /\ TurnOnce
           /\ \A r \in Requests : InTurn(r) <=> req[r].status \in {"waiting", "calling"}
           /\ \A r \in Requests : req[r].status = "calling" => HoldsSlot(r)

\* A route in progress has a call to make, and its earlier ones were answered.
Progress ==
    \A r \in Requests :
        /\ req[r].status \in {"waiting", "calling"} => req[r].answers < Len(req[r].plan)
        /\ \A n \in 1..req[r].answers : stage[<<r, n>>] = "answered"
        /\ req[r].status = "done" => \/ req[r].answers = Len(req[r].plan)
                                     \/ req[r].plan = <<Embed, Chat>> /\ req[r].answers = 1

ClientTypeOK ==
    /\ req \in [Requests -> [status : {"none", "waiting", "calling"} \cup Ended,
                             plan : Plans \cup {<<>>}, answers : 0..MaxCalls]]
    /\ turn \in Seq(Requests)
    /\ diarization \in [Uploads -> {"none", "asked", "labelled", "failed"}]

CInv == ClientTypeOK /\ Limiter /\ Progress

-----------------------------------------------------------------------------
\* A plan has at least one and at most MaxCalls calls.
LEMMA PlanFacts ==
    \A p \in Plans : p \in Seq(Models) /\ Len(p) \in 1..MaxCalls /\ \A n \in DOMAIN p : p[n] \in Models
<1>1. SUFFICES ASSUME NEW p \in RoutePlans
               PROVE  p \in Seq(Models) /\ Len(p) \in 1..MaxCalls
  BY GatewayAssumption, LenProperties, ElementOfSeq
<1>2. CASE \E n \in 1..MaxCalls : p = [i \in 1..n |-> Chat] \/ p = [i \in 1..n |-> Embed]
  <2>1. PICK n \in 1..MaxCalls : p = [i \in 1..n |-> Chat] \/ p = [i \in 1..n |-> Embed]
    BY <1>2
  <2>2. n \in Nat /\ DOMAIN p = 1..n
    BY <2>1, GatewayAssumption
  <2>3. p \in Seq({Chat, Embed})
    <3>1. p \in [1..n -> {Chat, Embed}]
      BY <2>1
    <3>2. QED
      BY <3>1, <2>2, SeqDef
  <2>4. Len(p) = n
    BY <2>2, <2>3, LenProperties
  <2>5. QED
    BY <2>1, <2>3, <2>4, GatewayAssumption
<1>3. CASE MaxCalls > 1 /\ p = <<Embed, Chat>>
  BY <1>3, GatewayAssumption
<1>4. CASE p \in OneChatPlans \cup SearchPlans
  <2>1. p = <<Chat>> \/ p = <<Embed>>
    BY <1>4 DEF OneChatPlans, SearchPlans
  <2>2. Chat \in Models /\ Embed \in Models /\ 1 \in 1..MaxCalls
    BY GatewayAssumption
  <2>3. ASSUME NEW m \in Models PROVE <<m>> \in Seq(Models) /\ Len(<<m>>) = 1
    BY <2>3
  <2>4. QED
    BY <2>1, <2>2, <2>3
<1>5. QED
  BY <1>1, <1>2, <1>3, <1>4 DEF RoutePlans, MeetingPlans, IndexPlans, AskPlans

\* The line without its element i.
LEMMA RemoveFacts ==
    ASSUME turn \in Seq(Requests), NEW i \in DOMAIN turn
    PROVE  LET s == RemoveAt(turn, i)
           IN  /\ s \in Seq(Requests) /\ Len(s) = Len(turn) - 1
               /\ \A j \in 1..(Len(turn) - 1) : s[j] = IF j < i THEN turn[j] ELSE turn[j + 1]
<1> DEFINE a == SubSeq(turn, 1, i - 1)
           b == SubSeq(turn, i + 1, Len(turn))
<1>1. DOMAIN turn = 1..Len(turn) /\ Len(turn) \in Nat /\ i \in 1..Len(turn)
  BY LenProperties
<1>2. \A j \in 1..Len(turn) : turn[j] \in Requests
  BY <1>1, ElementOfSeq
<1>3. /\ a \in Seq(Requests) /\ Len(a) = i - 1
      /\ \A j \in 1..(i - 1) : a[j] = turn[j]
  <2>1. \A j \in 1..(i - 1) : turn[j] \in Requests
    BY <1>1, <1>2
  <2>2. QED
    BY <1>1, <2>1, SubSeqProperties
<1>4. /\ b \in Seq(Requests) /\ Len(b) = Len(turn) - i
      /\ \A j \in 1..(Len(turn) - i) : b[j] = turn[j + i]
  <2>1. \A j \in (i + 1)..Len(turn) : turn[j] \in Requests
    BY <1>1, <1>2
  <2>2. QED
    BY <1>1, <2>1, SubSeqProperties
<1> HIDE DEF a, b
<1>5. /\ a \o b \in Seq(Requests) /\ Len(a \o b) = Len(turn) - 1
      /\ \A j \in 1..(Len(turn) - 1) : (a \o b)[j] = IF j < i THEN a[j] ELSE b[j - (i - 1)]
  <2>1. /\ a \o b \in Seq(Requests) /\ Len(a \o b) = Len(a) + Len(b)
        /\ \A j \in 1..(Len(a) + Len(b)) : (a \o b)[j] = IF j <= Len(a) THEN a[j] ELSE b[j - Len(a)]
    BY <1>3, <1>4, ConcatProperties
  <2>2. Len(a) = i - 1 /\ Len(a) + Len(b) = Len(turn) - 1
    BY <1>1, <1>3, <1>4
  <2>3. ASSUME NEW j \in 1..(Len(turn) - 1)
        PROVE  (a \o b)[j] = IF j < i THEN a[j] ELSE b[j - (i - 1)]
    <3>1. (j <= Len(a)) = (j < i)
      BY <1>1, <2>2
    <3>2. QED
      BY <2>1, <2>2, <3>1
  <2>4. QED
    BY <2>1, <2>2, <2>3
<1>6. ASSUME NEW j \in 1..(Len(turn) - 1)
      PROVE  (a \o b)[j] = IF j < i THEN turn[j] ELSE turn[j + 1]
  <2>1. CASE j < i
    <3>1. j \in 1..(i - 1)
      BY <1>1, <2>1
    <3>2. QED
      BY <2>1, <3>1, <1>3, <1>5
  <2>2. CASE ~(j < i)
    <3>1. j - (i - 1) \in 1..(Len(turn) - i) /\ (j - (i - 1)) + i = j + 1
      BY <1>1, <2>2
    <3>2. b[j - (i - 1)] = turn[j + 1]
      BY <3>1, <1>4
    <3>3. QED
      BY <2>2, <3>1, <3>2, <1>5
  <2>3. QED
    BY <2>1, <2>2
<1>7. QED
  BY <1>5, <1>6 DEF a, b, RemoveAt

\* A request leaves the line.
LEMMA TurnLeft ==
    ASSUME turn \in Seq(Requests), TurnOnce, NEW r, NEW i \in DOMAIN turn, turn[i] = r,
           NEW s, s = RemoveAt(turn, i)
    PROVE  /\ s \in Seq(Requests)
           /\ \A j, k \in DOMAIN s : s[j] = s[k] => j = k
           /\ \A q : (\E k \in DOMAIN s : s[k] = q) <=> InTurn(q) /\ q # r
           /\ \A q : HoldsSlot(q) /\ q # r => \E k \in DOMAIN s : s[k] = q /\ k <= MaxConcurrent
<1>1. /\ s \in Seq(Requests) /\ DOMAIN s = 1..(Len(turn) - 1)
      /\ DOMAIN turn = 1..Len(turn) /\ Len(turn) \in Nat /\ i \in 1..Len(turn)
      /\ \A j \in 1..(Len(turn) - 1) : s[j] = IF j < i THEN turn[j] ELSE turn[j + 1]
  BY RemoveFacts, LenProperties
<1>2. ASSUME NEW j \in DOMAIN s, NEW k \in DOMAIN s, s[j] = s[k] PROVE j = k
  <2> DEFINE P(l) == IF l < i THEN l ELSE l + 1
  <2>1. P(j) \in DOMAIN turn /\ P(k) \in DOMAIN turn /\ turn[P(j)] = turn[P(k)]
    BY <1>1, <1>2
  <2>2. P(j) = P(k)
    BY <2>1 DEF TurnOnce
  <2>3. QED
    BY <1>1, <2>2
<1>3. ASSUME NEW q, NEW k \in DOMAIN s, s[k] = q PROVE InTurn(q) /\ q # r
  BY <1>1, <1>3 DEF InTurn, TurnOnce
<1>4. ASSUME NEW q, NEW j \in DOMAIN turn, turn[j] = q, q # r
      PROVE  \E k \in DOMAIN s : s[k] = q /\ k <= j
  <2>1. CASE j < i
    BY <1>1, <1>4, <2>1
  <2>2. CASE j > i
    <3>1. j - 1 \in 1..(Len(turn) - 1) /\ s[j - 1] = q /\ j - 1 <= j
      BY <1>1, <1>4, <2>2
    <3>2. QED
      BY <3>1, <1>1
  <2>3. QED
    BY <1>1, <1>4, <2>1, <2>2
<1>5. \A q : InTurn(q) /\ q # r => \E k \in DOMAIN s : s[k] = q
  BY <1>4 DEF InTurn
<1>6. ASSUME NEW q, HoldsSlot(q), q # r
      PROVE  \E k \in DOMAIN s : s[k] = q /\ k <= MaxConcurrent
  <2>1. PICK j \in DOMAIN turn : turn[j] = q /\ j <= MaxConcurrent
    BY <1>6 DEF HoldsSlot
  <2>2. PICK k \in DOMAIN s : s[k] = q /\ k <= j
    BY <2>1, <1>4, <1>6
  <2>3. k \in Nat /\ j \in Nat /\ MaxConcurrent \in Nat
    BY <1>1, GatewayAssumption
  <2>4. QED
    BY <2>1, <2>2, <2>3
<1>7. QED
  BY <1>1, <1>2, <1>3, <1>5, <1>6

\* A request that is not in the line joins it.
LEMMA TurnJoined ==
    ASSUME NEW s \in Seq(Requests), NEW r \in Requests, turn' = Append(s, r),
           \A i, j \in DOMAIN s : s[i] = s[j] => i = j,
           ~ \E i \in DOMAIN s : s[i] = r
    PROVE  /\ turn' \in Seq(Requests) /\ TurnOnce'
           /\ \A q : InTurn(q)' <=> (\E i \in DOMAIN s : s[i] = q) \/ q = r
           /\ \A q : (\E i \in DOMAIN s : s[i] = q /\ i <= MaxConcurrent) => HoldsSlot(q)'
<1>1. /\ turn' \in Seq(Requests)
      /\ DOMAIN s = 1..Len(s) /\ Len(s) \in Nat
      /\ DOMAIN turn' = 1..(Len(s) + 1)
      /\ \A i \in 1..Len(s) : turn'[i] = s[i]
      /\ turn'[Len(s) + 1] = r
  BY AppendProperties, LenProperties
<1>2. TurnOnce'
  BY <1>1 DEF TurnOnce
<1>3. \A q : InTurn(q)' <=> (\E i \in DOMAIN s : s[i] = q) \/ q = r
  BY <1>1 DEF InTurn
<1>4. \A q : (\E i \in DOMAIN s : s[i] = q /\ i <= MaxConcurrent) => HoldsSlot(q)'
  BY <1>1 DEF HoldsSlot
<1>5. QED
  BY <1>1, <1>2, <1>3, <1>4

\* The call of a route that calls or may call.
LEMMA CallInCalls ==
    ASSUME ClientTypeOK, Progress, NEW r \in Requests, req[r].status \in {"waiting", "calling"}
    PROVE  Call(r) \in Calls /\ req[r].answers + 1 \in 1..MaxCalls
<1>1. /\ req[r].answers \in Nat /\ req[r].answers < Len(req[r].plan)
      /\ req[r].plan \in Plans \cup {<<>>}
  BY DEF ClientTypeOK, Progress
<1>2. Len(req[r].plan) \in 1..MaxCalls
  <2>1. req[r].plan # <<>>
    BY <1>1, EmptySeq
  <2>2. QED
    BY <1>1, <2>1, PlanFacts
<1>3. req[r].answers + 1 \in 1..MaxCalls
  BY <1>1, <1>2, GatewayAssumption
<1>4. QED
  BY <1>3, GatewayAssumption DEF Call

\* The line is left alone.
LEMMA TurnKept ==
    ASSUME turn' = turn
    PROVE  /\ TurnOnce' <=> TurnOnce
           /\ \A q : (InTurn(q)' <=> InTurn(q)) /\ (HoldsSlot(q)' <=> HoldsSlot(q))
  BY DEF TurnOnce, InTurn, HoldsSlot

FInv == Inv /\ CInv

\* An answer stays: the coordinator answers a call once.
LEMMA AnsweredStays ==
    ASSUME GpuTypeOK, [GpuNext]_gpuVars, NEW c \in Calls, stage[c] = "answered"
    PROVE  stage'[c] = "answered"
<1>1. CASE UNCHANGED gpuVars
  BY <1>1 DEF gpuVars
<1>2. CASE \E d \in Calls : \/ ReceiveCall(d)
                            \/ \E m \in Models : Forward(d, m)
                            \/ DropCall(d)
                            \/ \E outcome \in Answered : AnswerCall(d, outcome)
  BY <1>2 DEF GpuTypeOK, Tasks, ReceiveCall, Forward, DropCall, AnswerCall
<1>3. CASE \E u \in Uploads : ReceiveUpload(u) \/ ServeUpload(u)
  <2>1. PICK u \in Uploads : ReceiveUpload(u) \/ ServeUpload(u)
    BY <1>3
  <2>2. u # c
    BY TasksAssumption
  <2>3. QED
    BY <2>1, <2>2 DEF GpuTypeOK, Tasks, ReceiveUpload, ServeUpload, ConvertAudio, RefuseUpload,
       ListModels, UnloadModel, UnloadFails, StartPipeline, PipelineEnds, EndUpload
<1>4. CASE \E m \in Models : ModelExpires(m)
  BY <1>4 DEF ModelExpires
<1>5. QED
  BY <1>1, <1>2, <1>3, <1>4 DEF GpuNext

\* The steps of this module are steps of the coordinator.
LEMMA GpuStep == ASSUME FInv, [Next]_vars PROVE [GpuNext]_gpuVars
<1>1. CASE UNCHANGED vars
  BY <1>1 DEF vars
<1>2. CASE \E r \in Requests : (\E p \in Plans : Arrive(r, p)) \/ StartCall(r) \/ EndCall(r)
  <2>1. PICK r \in Requests : (\E p \in Plans : Arrive(r, p)) \/ StartCall(r) \/ EndCall(r)
    BY <1>2
  <2>2. CASE SendCall(r)
    <3>1. Call(r) \in Calls
      BY <2>2, CallInCalls DEF FInv, CInv, SendCall
    <3>2. QED
      BY <2>2, <3>1 DEF SendCall, GpuNext
  <2>3. CASE UNCHANGED gpuVars
    BY <2>3
  <2>4. QED
    BY <2>1, <2>2, <2>3 DEF Arrive, StartCall, Unreachable, EndCall, AcceptAnswer, RejectAnswer, TimeOut
<1>3. CASE \E u \in Uploads : AskForSpeakers(u) \/ EndDiarization(u) \/ CoordinatorDiarizes(u)
  <2>1. PICK u \in Uploads : AskForSpeakers(u) \/ EndDiarization(u) \/ CoordinatorDiarizes(u)
    BY <1>3
  <2>2. CASE AskForSpeakers(u)
    BY <2>2 DEF AskForSpeakers, GpuNext
  <2>3. CASE EndDiarization(u)
    BY <2>3 DEF EndDiarization, TurnsArrive, WorkerTimesOut
  <2>4. CASE CoordinatorDiarizes(u)
    BY <2>4 DEF CoordinatorDiarizes, GpuNext
  <2>5. QED
    BY <2>1, <2>2, <2>3, <2>4
<1>4. CASE \E c \in Calls : OllamaAnswers(c)
  BY <1>4 DEF OllamaAnswers, GpuNext
<1>5. CASE CoordinatorForwards
  <2>1. PICK r \in Requests, n \in 1..MaxCalls :
               /\ n \in DOMAIN req[r].plan
               /\ Forward(<<r, n>>, req[r].plan[n]) \/ DropCall(<<r, n>>)
    BY <1>5 DEF CoordinatorForwards
  <2>2. <<r, n>> \in Calls
    BY GatewayAssumption
  <2>3. req[r].plan[n] \in Models
    <3>1. req[r].plan \in Plans \cup {<<>>}
      BY DEF FInv, CInv, ClientTypeOK
    <3>2. QED
      BY <2>1, <3>1, PlanFacts, EmptySeq, LenProperties
  <2>4. QED
    BY <2>1, <2>2, <2>3 DEF GpuNext
<1>6. CASE KeepAliveEnds
  BY <1>6 DEF KeepAliveEnds, GpuNext
<1>7. QED
  BY <1>1, <1>2, <1>3, <1>4, <1>5, <1>6 DEF Next

\* It holds initially.
LEMMA InitFInv == ASSUME Init PROVE FInv
<1>1. Inv
  BY InitInv DEF Init
<1>2. ClientTypeOK
  BY GatewayAssumption, EmptySeq DEF Init, ClientTypeOK
<1>3. Limiter /\ Progress
  BY GatewayAssumption DEF Init, Limiter, TurnOnce, InTurn, Progress, Ended
<1>4. QED
  BY <1>1, <1>2, <1>3 DEF FInv, CInv

\* The gateway's routes are left alone, whatever the coordinator does.
LEMMA OthersCInv ==
    ASSUME FInv, [GpuNext]_gpuVars, UNCHANGED <<req, turn>>,
           diarization' \in [Uploads -> {"none", "asked", "labelled", "failed"}]
    PROVE  CInv'
<1>1. ClientTypeOK'
  BY DEF FInv, CInv, ClientTypeOK
<1>2. Limiter'
  BY TurnKept DEF FInv, CInv, Limiter
<1>3. Progress'
  <2>1. ASSUME NEW r \in Requests, NEW n \in 1..req[r].answers PROVE stage'[<<r, n>>] = "answered"
    <3>1. <<r, n>> \in Calls
      BY GatewayAssumption DEF FInv, CInv, ClientTypeOK
    <3>2. QED
      BY <3>1, AnsweredStays DEF FInv, CInv, Progress, Inv
  <2>2. QED
    BY <2>1 DEF FInv, CInv, Progress
<1>4. QED
  BY <1>1, <1>2, <1>3 DEF CInv

\* Arrive keeps the invariant.
LEMMA ArriveCInv == ASSUME FInv, NEW r \in Requests, NEW p \in Plans, Arrive(r, p) PROVE CInv'
<1>1. ~InTurn(r)
  BY DEF FInv, CInv, Limiter, Arrive
<1>2. /\ turn' \in Seq(Requests) /\ TurnOnce'
      /\ \A q : InTurn(q)' <=> InTurn(q) \/ q = r
      /\ \A q : HoldsSlot(q) => HoldsSlot(q)'
  <2>1. /\ turn \in Seq(Requests) /\ turn' = Append(turn, r)
        /\ \A i, j \in DOMAIN turn : turn[i] = turn[j] => i = j
        /\ ~ \E i \in DOMAIN turn : turn[i] = r
    BY <1>1 DEF FInv, CInv, ClientTypeOK, Limiter, TurnOnce, InTurn, Arrive
  <2>2. /\ turn' \in Seq(Requests) /\ TurnOnce'
        /\ \A q : InTurn(q)' <=> (\E i \in DOMAIN turn : turn[i] = q) \/ q = r
        /\ \A q : (\E i \in DOMAIN turn : turn[i] = q /\ i <= MaxConcurrent) => HoldsSlot(q)'
    BY <2>1, TurnJoined
  <2>3. QED
    BY <2>2 DEF InTurn, HoldsSlot
<1>3. ClientTypeOK'
  BY <1>2, GatewayAssumption DEF FInv, CInv, ClientTypeOK, Arrive
<1>4. Limiter'
  BY <1>2 DEF FInv, CInv, ClientTypeOK, Limiter, Arrive
<1>5. Progress'
  BY PlanFacts, GatewayAssumption DEF FInv, CInv, ClientTypeOK, Progress, Arrive, gpuVars
<1>6. QED
  BY <1>3, <1>4, <1>5 DEF CInv

\* SendCall keeps the invariant.
LEMMA SendCallCInv == ASSUME FInv, NEW r \in Requests, SendCall(r) PROVE CInv'
<1>1. Call(r) \in Calls
  BY CallInCalls DEF FInv, CInv, SendCall
<1>2. [GpuNext]_gpuVars
  BY <1>1 DEF SendCall, GpuNext
<1>3. ClientTypeOK'
  BY DEF FInv, CInv, ClientTypeOK, SendCall
<1>4. Limiter'
  BY TurnKept DEF FInv, CInv, ClientTypeOK, Limiter, SendCall
<1>5. Progress'
  <2>1. ASSUME NEW q \in Requests
        PROVE  req'[q].answers = req[q].answers /\ req'[q].plan = req[q].plan
    BY DEF FInv, CInv, ClientTypeOK, SendCall
  <2>2. ASSUME NEW q \in Requests, NEW n \in 1..req[q].answers PROVE stage'[<<q, n>>] = "answered"
    <3>1. <<q, n>> \in Calls
      BY GatewayAssumption DEF FInv, CInv, ClientTypeOK
    <3>2. QED
      BY <1>2, <3>1, AnsweredStays DEF FInv, CInv, Progress, Inv
  <2>3. QED
    BY <2>1, <2>2 DEF FInv, CInv, ClientTypeOK, Progress, SendCall
<1>6. QED
  BY <1>3, <1>4, <1>5 DEF CInv

\* A route gives up.
LEMMA LeaveCInv ==
    ASSUME FInv, NEW r \in Requests, NEW st \in {"unavailable", "bad_response"}, Leave(r, st),
           UNCHANGED <<gpuVars, diarization>>
    PROVE  CInv'
<1>1. /\ turn' \in Seq(Requests) /\ TurnOnce'
      /\ \A q : InTurn(q)' <=> InTurn(q) /\ q # r
      /\ \A q : HoldsSlot(q) /\ q # r => HoldsSlot(q)'
  <2>1. PICK i \in DOMAIN turn : turn[i] = r /\ turn' = RemoveAt(turn, i)
    BY DEF Leave
  <2>2. QED
    <3>1. turn \in Seq(Requests) /\ TurnOnce
      BY DEF FInv, CInv, ClientTypeOK, Limiter
    <3>2. /\ turn' \in Seq(Requests)
          /\ \A j, k \in DOMAIN turn' : turn'[j] = turn'[k] => j = k
          /\ \A q : (\E k \in DOMAIN turn' : turn'[k] = q) <=> InTurn(q) /\ q # r
          /\ \A q : HoldsSlot(q) /\ q # r => \E k \in DOMAIN turn' : turn'[k] = q /\ k <= MaxConcurrent
      BY <2>1, <3>1, TurnLeft
    <3>3. TurnOnce'
      BY <3>2 DEF TurnOnce
    <3>4. \A q : InTurn(q)' <=> InTurn(q) /\ q # r
      BY <3>2 DEF InTurn
    <3>5. \A q : HoldsSlot(q) /\ q # r => HoldsSlot(q)'
      BY <3>2 DEF HoldsSlot
    <3>6. QED
      BY <3>2, <3>3, <3>4, <3>5
<1>2. ClientTypeOK'
  BY <1>1 DEF FInv, CInv, ClientTypeOK, Leave, Ended
<1>3. Limiter'
  BY <1>1 DEF FInv, CInv, ClientTypeOK, Limiter, Leave
<1>4. Progress'
  BY DEF FInv, CInv, ClientTypeOK, Progress, Leave, gpuVars
<1>5. QED
  BY <1>2, <1>3, <1>4 DEF CInv

\* AcceptAnswer keeps the invariant.
LEMMA AcceptAnswerCInv ==
    ASSUME FInv, NEW r \in Requests, NEW enough \in BOOLEAN, AcceptAnswer(r, enough) PROVE CInv'
<1> DEFINE n == req[r].answers + 1
           plan == req[r].plan
<1>1. /\ n \in 1..MaxCalls /\ req[r].answers \in Nat /\ n <= Len(plan) /\ Len(plan) \in Nat
      /\ stage[<<r, n>>] = "answered" /\ plan \in Plans \cup {<<>>}
  <2>1. n \in 1..MaxCalls
    BY CallInCalls DEF FInv, CInv, AcceptAnswer
  <2>2. /\ req[r].answers \in Nat /\ req[r].answers < Len(plan) /\ plan \in Plans \cup {<<>>}
        /\ stage[<<r, n>>] = "answered"
    BY DEF FInv, CInv, ClientTypeOK, Progress, AcceptAnswer, Call
  <2>3. Len(plan) \in Nat
    BY <2>2, PlanFacts, EmptySeq, GatewayAssumption
  <2>4. QED
    BY <2>1, <2>2, <2>3
<1>2. PICK i \in DOMAIN turn :
         /\ turn[i] = r
         /\ \/ /\ MayStopAfter(plan, n, enough)
               /\ req' = [req EXCEPT ![r] = [status |-> "done", plan |-> plan, answers |-> n]]
               /\ turn' = RemoveAt(turn, i)
            \/ /\ ~MayStopAfter(plan, n, enough)
               /\ req' = [req EXCEPT ![r] = [status |-> "waiting", plan |-> plan, answers |-> n]]
               /\ turn' = Append(RemoveAt(turn, i), r)
  BY DEF AcceptAnswer, GoOn
<1> DEFINE s == RemoveAt(turn, i)
<1>3. /\ s \in Seq(Requests)
      /\ \A j, k \in DOMAIN s : s[j] = s[k] => j = k
      /\ \A q : (\E k \in DOMAIN s : s[k] = q) <=> InTurn(q) /\ q # r
      /\ \A q : HoldsSlot(q) /\ q # r => \E k \in DOMAIN s : s[k] = q /\ k <= MaxConcurrent
  BY <1>2, TurnLeft DEF FInv, CInv, ClientTypeOK, Limiter
<1>4. UNCHANGED <<stage, diarization>>
  BY DEF AcceptAnswer, gpuVars
<1> HIDE DEF n, plan, s
<1>5. CASE /\ MayStopAfter(plan, n, enough)
           /\ req' = [req EXCEPT ![r] = [status |-> "done", plan |-> plan, answers |-> n]]
           /\ turn' = s
  <2>1. ClientTypeOK'
    BY <1>1, <1>3, <1>4, <1>5 DEF FInv, CInv, ClientTypeOK, Ended
  <2>2. Limiter'
    <3>1. TurnOnce'
      BY <1>3, <1>5 DEF TurnOnce
    <3>2. \A q : InTurn(q)' <=> InTurn(q) /\ q # r
      BY <1>3, <1>5 DEF InTurn
    <3>3. \A q : HoldsSlot(q) /\ q # r => HoldsSlot(q)'
      BY <1>3, <1>5 DEF HoldsSlot
    <3>4. QED
      BY <1>5, <3>1, <3>2, <3>3 DEF FInv, CInv, ClientTypeOK, Limiter
  <2>3. n = Len(plan) \/ (plan = <<Embed, Chat>> /\ n = 1)
    <3>1. CASE plan = <<Embed, Chat>>
      BY <1>1, <3>1
    <3>2. QED
      BY <1>5, <3>1 DEF MayStopAfter
  <2>4. Progress'
    <3>1. ASSUME NEW q \in Requests, q # r PROVE req'[q] = req[q]
      BY <1>5, <3>1 DEF FInv, CInv, ClientTypeOK
    <3>2. req'[r].status = "done" /\ req'[r].plan = plan /\ req'[r].answers = n
      BY <1>5 DEF FInv, CInv, ClientTypeOK
    <3>3. \A k \in 1..n : stage[<<r, k>>] = "answered"
      BY <1>1 DEF FInv, CInv, Progress, n
    <3>4. QED
      BY <1>4, <2>3, <3>1, <3>2, <3>3 DEF FInv, CInv, Progress
  <2>5. QED
    BY <2>1, <2>2, <2>4 DEF CInv
<1>6. CASE /\ ~MayStopAfter(plan, n, enough)
           /\ req' = [req EXCEPT ![r] = [status |-> "waiting", plan |-> plan, answers |-> n]]
           /\ turn' = Append(s, r)
  <2>1. /\ turn' \in Seq(Requests) /\ TurnOnce'
        /\ \A q : InTurn(q)' <=> (\E k \in DOMAIN s : s[k] = q) \/ q = r
        /\ \A q : (\E k \in DOMAIN s : s[k] = q /\ k <= MaxConcurrent) => HoldsSlot(q)'
    BY <1>3, <1>6, TurnJoined
  <2>2. ClientTypeOK'
    BY <1>1, <1>4, <1>6, <2>1 DEF FInv, CInv, ClientTypeOK
  <2>3. InTurn(r)
    BY <1>2 DEF InTurn
  <2>4. Limiter'
    BY <1>3, <1>6, <2>1, <2>3 DEF FInv, CInv, ClientTypeOK, Limiter
  <2>5. n < Len(plan)
    BY <1>1, <1>6 DEF MayStopAfter
  <2>6. Progress'
    <3>1. ASSUME NEW q \in Requests, q # r PROVE req'[q] = req[q]
      BY <1>6, <3>1 DEF FInv, CInv, ClientTypeOK
    <3>2. req'[r].status = "waiting" /\ req'[r].plan = plan /\ req'[r].answers = n
      BY <1>6 DEF FInv, CInv, ClientTypeOK
    <3>3. \A k \in 1..n : stage[<<r, k>>] = "answered"
      BY <1>1 DEF FInv, CInv, Progress, n
    <3>4. QED
      BY <1>4, <2>5, <3>1, <3>2, <3>3 DEF FInv, CInv, Progress
  <2>7. QED
    BY <2>2, <2>4, <2>6 DEF CInv
<1>7. QED
  BY <1>2, <1>5, <1>6 DEF s, n, plan

\* Every step keeps it.
LEMMA NextFInv == ASSUME FInv, [Next]_vars PROVE FInv'
<1>1. [GpuNext]_gpuVars
  BY GpuStep
<1>2. Inv'
  BY <1>1, NextInv DEF FInv
<1>3. CInv'
  <2>1. diarization \in [Uploads -> {"none", "asked", "labelled", "failed"}]
    BY DEF FInv, CInv, ClientTypeOK
  <2>2. CASE UNCHANGED <<req, turn>> /\ UNCHANGED diarization
    BY <1>1, <2>1, <2>2, OthersCInv
  <2>3. CASE \E r \in Requests : (\E p \in Plans : Arrive(r, p)) \/ StartCall(r) \/ EndCall(r)
    <3>1. PICK r \in Requests : (\E p \in Plans : Arrive(r, p)) \/ StartCall(r) \/ EndCall(r)
      BY <2>3
    <3>2. CASE StartCall(r)
      BY <3>2, SendCallCInv, LeaveCInv DEF StartCall, Unreachable
    <3>3. CASE EndCall(r)
      BY <3>3, AcceptAnswerCInv, LeaveCInv DEF EndCall, RejectAnswer, TimeOut
    <3>4. QED
      BY <3>1, <3>2, <3>3, ArriveCInv
  <2>4. CASE \E u \in Uploads : AskForSpeakers(u) \/ EndDiarization(u) \/ CoordinatorDiarizes(u)
    <3>1. UNCHANGED <<req, turn>>
      BY <2>4 DEF AskForSpeakers, EndDiarization, TurnsArrive, WorkerTimesOut,
         CoordinatorDiarizes, clientVars
    <3>2. diarization' \in [Uploads -> {"none", "asked", "labelled", "failed"}]
      BY <2>1, <2>4 DEF AskForSpeakers, EndDiarization, TurnsArrive, WorkerTimesOut,
         CoordinatorDiarizes, clientVars
    <3>3. QED
      BY <1>1, <3>1, <3>2, OthersCInv
  <2>5. QED
    BY <2>2, <2>3, <2>4 DEF Next, vars, clientVars, OllamaAnswers, CoordinatorForwards, KeepAliveEnds
<1>4. QED
  BY <1>2, <1>3 DEF FInv

\* The invariant of the composition.
LEMMA FInvariance == Spec => []FInv
<1>1. Init => FInv
  BY InitFInv
<1>2. FInv /\ [Next]_vars => FInv'
  BY NextFInv
<1>3. QED
  BY <1>1, <1>2, PTL DEF Spec

-----------------------------------------------------------------------------
\* The gateway and the worker only use the coordinator by its requests: the
\* composed system implements the coordinator alone.
THEOREM ImplementsCoordinator == Spec => GpuSpec
<1>1. Init => GpuInit
  BY DEF Init
<1>2. FInv /\ [Next]_vars => [GpuNext]_gpuVars
  BY GpuStep
<1>3. QED
  BY <1>1, <1>2, FInvariance, PTL DEF Spec, GpuSpec

\* The two workloads never share the GPU, whatever requests time out.
THEOREM GpuIsExclusiveInSystem == Spec => []GpuExclusive
BY ImplementsCoordinator, GpuIsExclusive

\* The state of the limiter, the routes and the worker is always well formed.
THEOREM TypeCorrect == Spec => []TypeOK
<1>1. FInv => TypeOK
  BY DEF FInv, CInv, ClientTypeOK, Inv, TypeOK
<1>2. QED
  BY <1>1, FInvariance, PTL

\* The limiter: at most MaxConcurrent calls of routes at a time, no slot is
\* lost, for any number of requests, whatever fails or times out.
THEOREM SlotsAreAlwaysReturned == Spec => []SlotsAreReturned
<1>1. ASSUME FInv PROVE SlotsAreReturned
  <2> DEFINE K == {r \in Requests : req[r].status = "calling"}
             position == [r \in K |-> CHOOSE i \in DOMAIN turn : turn[i] = r /\ i <= MaxConcurrent]
  <2>1. DOMAIN turn = 1..Len(turn) /\ Len(turn) \in Nat /\ MaxConcurrent \in Nat
    BY <1>1, LenProperties, GatewayAssumption DEF FInv, CInv, ClientTypeOK
  <2>2. ASSUME NEW r \in K
        PROVE  position[r] \in 1..MaxConcurrent /\ turn[position[r]] = r
    <3>1. \E i \in DOMAIN turn : turn[i] = r /\ i <= MaxConcurrent
      BY <1>1, <2>2 DEF FInv, CInv, Limiter, HoldsSlot
    <3>2. position[r] \in DOMAIN turn /\ turn[position[r]] = r /\ position[r] <= MaxConcurrent
      BY <3>1
    <3>3. QED
      BY <2>1, <3>2
  <2>3. position \in Injection(K, 1..MaxConcurrent)
    <3>1. position \in [K -> 1..MaxConcurrent]
      BY <2>2
    <3>2. \A q, r \in K : position[q] = position[r] => q = r
      BY <2>2
    <3>3. QED
      BY <3>1, <3>2 DEF Injection, IsInjective
  <2>4. Cardinality(K) <= MaxConcurrent
    <3>1. IsFiniteSet(1..MaxConcurrent) /\ Cardinality(1..MaxConcurrent) = MaxConcurrent
      BY <2>1, FS_Interval
    <3>2. QED
      BY <2>3, <3>1, FS_Injection
  <2>5. QED
    BY <1>1, <2>4 DEF FInv, CInv, Limiter, TurnOnce, InTurn, SlotsAreReturned
<1>2. QED
  BY <1>1, FInvariance, PTL

\* A route of the gateway answers 200 only with every part of its answer.
THEOREM ReportsAreWhole == Spec => []ReportIsWhole
<1>1. FInv => ReportIsWhole
  BY DEF FInv, CInv, Progress, ReportIsWhole
<1>2. QED
  BY <1>1, FInvariance, PTL
=============================================================================

----------------------------- MODULE GenerationContract ----------------------------
(*****************************************************************************)
(* What the durable relay promises to the user of a generation, without      *)
(* sessions, leases, attempts, prompts or idempotency keys.  A generation is *)
(* a fixed row of questions, put to the provider one call at a time for all  *)
(* generations of the user, and answered in order, once each.  It is open    *)
(* until all its questions have an answer, and then its result is these      *)
(* answers; or it is ended without one.  GenerationStore implements it.      *)
(*****************************************************************************)
EXTENDS Integers, Sequences

CONSTANTS Runs, Results, None

VARIABLES
    phase,      \* "none", "open", "completed", one of Endings, or "purged"
    answers,    \* for each question its answer, or None
    result,     \* what the user gets in the end, or None
    calls       \* the generations with a call to the provider in flight

vars == <<phase, answers, result, calls>>

Init == /\ phase = [r \in Runs |-> "none"]
        /\ answers = [r \in Runs |-> <<>>]
        /\ result = [r \in Runs |-> None]
        /\ calls = {}

-----------------------------------------------------------------------------
Endings == {"cancelled", "expired", "failed"}

NextQuestion(r, i) == /\ i \in DOMAIN answers[r] /\ answers[r][i] = None
                      /\ \A j \in 1..(i - 1) : answers[r][j] # None

\* Whoever acts, any generation may meanwhile be ended or purged, and any call be
\* given up.  The way a generation ended is never revised.
Rests(r) ==
    /\ \/ /\ \/ phase'[r] = phase[r]
             \/ phase[r] = "open" /\ phase'[r] \in Endings
          /\ answers'[r] = answers[r]
          /\ result'[r] = result[r]
       \/ /\ phase[r] \in Endings \cup {"completed"} /\ phase'[r] = "purged"
          /\ answers'[r] = <<>>
          /\ result'[r] = None
    /\ r \in calls' => r \in calls /\ phase'[r] = "open"

\* A generation without questions is completed at once.
Begin(r) ==
    /\ phase[r] = "none"
    /\ \A i \in DOMAIN answers'[r] : answers'[r][i] = None
    /\ \/ phase'[r] = "open" /\ result'[r] = None
       \/ answers'[r] = <<>> /\ phase'[r] = "completed" /\ result'[r] = <<>>
    /\ r \notin calls'

Call(r) ==
    /\ phase[r] = "open" /\ \E i \in DOMAIN answers[r] : NextQuestion(r, i)
    /\ r \notin calls /\ calls' = {r}
    /\ phase'[r] = phase[r] /\ answers'[r] = answers[r] /\ result'[r] = result[r]

Answer(r, i, a) ==
    /\ phase[r] = "open" /\ r \in calls /\ NextQuestion(r, i)
    /\ answers'[r] = [answers[r] EXCEPT ![i] = a]
    /\ \/ /\ phase'[r] \in {"open", "failed"} /\ i < Len(answers[r])
          /\ result'[r] = None
       \/ /\ phase'[r] = "completed" /\ i = Len(answers[r])
          /\ result'[r] = answers'[r]
    /\ r \notin calls'

Next ==
    \/ \A r \in Runs : Rests(r)
    \/ \E r \in Runs : /\ \/ Begin(r)
                          \/ Call(r)
                          \/ \E a \in Results : \E i \in DOMAIN answers[r] : Answer(r, i, a)
                       /\ \A s \in Runs \ {r} : Rests(s)

Spec == Init /\ [][Next]_vars
=============================================================================

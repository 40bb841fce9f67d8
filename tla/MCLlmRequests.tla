------------------------------ MODULE MCLlmRequests ------------------------------
(*****************************************************************************)
(* Small instances of LlmRequests for TLC.                                   *)
(*****************************************************************************)
EXTENDS LlmRequests, TLC

\* The calls of two requests.
CallsOfRequests == Requests \X (1..MaxCalls)

\* A short route, a report in two parts, a vault answer.
SomePlans == {<<Chat>>, <<Chat, Chat>>, <<Embed, Chat>>}
=============================================================================

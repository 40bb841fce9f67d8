-------------------------- MODULE MCGenerationSubmission ---------------------------
(*****************************************************************************)
(* Small instances of GenerationSubmission for TLC.                          *)
(*****************************************************************************)
EXTENDS GenerationSubmission, TLC

CONSTANTS k1, k2, x1, m

ShortPlans == {<<>>, <<TRUE>>}

\* Two bodies with one key, and one with another.
Body(k, vault) == [key |-> k, relay |-> x1, model |-> m, vault |-> vault]
ThreeBodies == {Body(k1, TRUE), Body(k1, FALSE), Body(k2, TRUE)}
TwoBodies == {Body(k1, TRUE), Body(k1, FALSE)}

AllBuckets == {"llm", "embedding"}
LimitOne == [b \in AllBuckets |-> 1]
AskRoute == {<<"embedding", "llm">>}

Symmetry == Permutations(Runs) \cup Permutations(Requests)
=============================================================================

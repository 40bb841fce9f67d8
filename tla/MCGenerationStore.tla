---------------------------- MODULE MCGenerationStore ----------------------------
(*****************************************************************************)
(* Small instances of GenerationStore for TLC.                               *)
(*****************************************************************************)
EXTENDS GenerationStore, TLC

\* The shapes of prepare_plan: a RAG answer without sources, one prompt, a deep
\* think report, a predigested transcript.
SinglePlans == {<<TRUE>>}
TwoStepPlans == {<<TRUE, TRUE>>, <<TRUE, FALSE>>}
ShortPlans == {<<>>, <<TRUE>>}

Symmetry == Permutations(Sessions) \cup Permutations(Runs) \cup Permutations(Keys)
                \cup Permutations(Results) \cup Permutations(Models)
=============================================================================

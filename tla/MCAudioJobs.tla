------------------------------- MODULE MCAudioJobs -------------------------------
(*****************************************************************************)
(* Small instances of AudioJobs for TLC.                                     *)
(*****************************************************************************)
EXTENDS AudioJobs, TLC

Symmetry == Permutations(Jobs)
=============================================================================

------------------------------- MODULE MCVaultIndex -------------------------------
(*****************************************************************************)
(* Small instances of VaultIndex for TLC.                                    *)
(*****************************************************************************)
EXTENDS VaultIndex, TLC

Symmetry == Permutations(Requests) \cup Permutations(Paths) \cup Permutations(Contents \ Blank)
=============================================================================

------------------------------- MODULE MCHKey -------------------------------
(* Two SSL objects and two cipher contexts, interchangeable, reused by the   *)
(* connections and keys of one process.                                      *)
EXTENDS HKey, TLC

Interchangeable == Permutations(Ssl) \cup Permutations(Ctx)
=============================================================================

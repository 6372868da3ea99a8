----------------------------- MODULE MCGitHooks -----------------------------
(***************************************************************************)
(* Instance of GitHooks for TLC: two files, so that one may be staged and  *)
(* the other not; three edits, so that a file may be staged in part and    *)
(* another be edited while the hook runs.                                  *)
(***************************************************************************)
EXTENDS GitHooks, TLC

CONSTANTS f1, f2

MCFile == {f1, f2}

Interchangeable == Permutations(MCFile)
=============================================================================

------------------------- MODULE MCBatchCompaction -------------------------
(* Model checking BatchCompaction on a few folders and batches. *)
EXTENDS BatchCompaction, TLC

\* Everything may fail.
AllFail == FailPoints

\* Everything but setting the timer.
AllButTimer == FailPoints \ {"timer"}

\* Batches are interchangeable, and so are the folders that can be compacted and
\* are kept offline.
Symmetric == Permutations(Batches) \cup Permutations(Compactable \cap Offline)
=============================================================================

------------------------ MODULE MCFolderCompaction ------------------------
(* Model checking FolderCompaction on small folders. *)
EXTENDS FolderCompaction, TLC

\* Everything may fail.
AllFail == FailPoints

\* Everything but the rename that installs the new database, whose failure
\* leaves the folder without one.
AllButDbInstall == FailPoints \ {"dbInstall"}

\* Of these, everything but the one failure MboxScanner does not notice.
AllNoticed == AllButDbInstall \ {"pump"}

\* Messages are interchangeable.
Symmetric == Permutations(Msgs)
=============================================================================

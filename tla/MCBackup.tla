------------------------------ MODULE MCBackup ------------------------------
(* The backup loop on small sets of projects. *)
EXTENDS BackupLoop, TLC

\* Projects are told apart only by name.
Symmetry == Permutations(Project)
=============================================================================

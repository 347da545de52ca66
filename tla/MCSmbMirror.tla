---------------------------- MODULE MCSmbMirror ----------------------------
(* Small instances of SmbMirror for TLC. *)
EXTENDS SmbMirror, TLC

\* Photographs differ in nothing but their names.
Photographs == Permutations(Name)

\* The instance for convergence has one folder, which the setting names throughout.
OneFolderNext == MirrorNext /\ UNCHANGED setFolder
OneFolderSpec == MirrorInit /\ [][OneFolderNext]_mirrorVars /\ MirrorFairness
=============================================================================

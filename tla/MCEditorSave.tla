----------------------------- MODULE MCEditorSave -----------------------------
(* Instances of EditorSave for TLC. *)
EXTENDS EditorSave, TLC

Symmetric == Permutations(Editor) \cup Permutations(File)
=============================================================================

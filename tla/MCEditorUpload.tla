--------------------------- MODULE MCEditorUpload ---------------------------
(***************************************************************************)
(* EditorUpload for TLC.  The files are interchangeable: a behaviour that  *)
(* selects another file first is one that selects FirstFile first with the *)
(* two files swapped, and no property names a file.  Unlike a symmetry set *)
(* this is sound for liveness, as it leaves out whole behaviours.          *)
(***************************************************************************)
EXTENDS EditorUpload

CONSTANT FirstFile

FirstChoice == chosen[1] \in {NoFile, FirstFile}
=============================================================================

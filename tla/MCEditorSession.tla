-------------------------- MODULE MCEditorSession ---------------------------
(* Two configurations; other programs write the first, as the loader       *)
(* reads it.                                                               *)
EXTENDS EditorSession

MCDocs == {"base", "edited"}
MCRead == [d \in MCDocs |-> d]
MCForeign == {[says |-> "base", style |-> Canonical]}
=============================================================================

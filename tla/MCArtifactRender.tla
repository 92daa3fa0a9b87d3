-------------------------- MODULE MCArtifactRender --------------------------
(* Instance of ArtifactRender for TLC. *)
EXTENDS ArtifactRender
=============================================================================

---------------------------- MODULE MCMeshFrames ----------------------------
(***************************************************************************)
(* Instances of MeshFrames for TLC.                                        *)
(***************************************************************************)
EXTENDS MeshFrames
=============================================================================

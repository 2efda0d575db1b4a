-------------------------- MODULE MCMirrorPipeline --------------------------
(* Instances of MirrorPipeline for TLC. *)
EXTENDS MirrorPipeline

(* Repo 1 has two challenges, repo 2 one whose archive path repo 1 also
   produces, repo 3 none. *)
MCArchives == [r \in Repos |-> CASE r = 1 -> {"a", "b"} [] r = 2 -> {"b"} [] OTHER -> {}]
=============================================================================

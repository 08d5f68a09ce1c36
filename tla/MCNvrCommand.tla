---------------------------- MODULE MCNvrCommand ----------------------------
(***************************************************************************)
(* Two NVRs, and a system that numbers sockets from a small set, so that a *)
(* number comes back soon.                                                 *)
(***************************************************************************)
EXTENDS NvrCommand
=============================================================================

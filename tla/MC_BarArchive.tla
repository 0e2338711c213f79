---------------------------- MODULE MC_BarArchive ----------------------------
(* The archive with days of three minutes, of which a run sees four. *)
EXTENDS BarArchive
=============================================================================

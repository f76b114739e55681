---------------------------- MODULE MCConfigReload ----------------------------
(* ConfigReload for TLC.  Each part has one version beside None, and the      *)
(* providers two, one with metadata in its row and one without: none of them  *)
(* is interchangeable with another.                                           *)
EXTENDS ConfigReload
==============================================================================

---------------------------- MODULE MCHandHistory ---------------------------
(* The instance of MCHandEngine with the history variable. *)
EXTENDS HandHistory, MCHandEngine
=============================================================================

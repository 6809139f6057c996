------------------------------- MODULE MCNode -------------------------------
(* The node for TLC: two boots to each trial, both trials of the same length. *)
EXTENDS Node
=============================================================================

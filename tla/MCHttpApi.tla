------------------------------ MODULE MCHttpApi ------------------------------
(* Two clients, one of them patient, for TLC.                                 *)
EXTENDS HttpApi

CONSTANTS alice, bob
==============================================================================

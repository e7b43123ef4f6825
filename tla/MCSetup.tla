------------------------------ MODULE MCSetup ------------------------------
(* A small instance of Setup for TLC.                                       *)
EXTENDS Setup
=============================================================================

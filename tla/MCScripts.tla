------------------------------- MODULE MCScripts ------------------------------
(* Scripts for TLC: the configurations give the two numbers.               *)
EXTENDS Scripts
=============================================================================

------------------------------- MODULE MCDisplay -------------------------------
(* Small instances of Display for TLC. *)
EXTENDS Display

CONSTANTS white, ink
================================================================================

----------------------------- MODULE MCImports ------------------------------
(* Instances of a student import for TLC: one row gives a student number,   *)
(* the other leaves it to be generated.                                     *)
EXTENDS ImportsProperties
=============================================================================

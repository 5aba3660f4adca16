------------------------------ MODULE MCModelHost ------------------------------
(***************************************************************************)
(* ModelHost with two or three calls.                                      *)
(***************************************************************************)
EXTENDS ModelHost

CONSTANTS c1, c2, c3
================================================================================

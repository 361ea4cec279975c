------------------------------- MODULE Absent -------------------------------
(* The value that stands for nothing: no row, no answer, NULL.              *)

CONSTANT None
=============================================================================

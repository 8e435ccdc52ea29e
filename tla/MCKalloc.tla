------------------------------- MODULE MCKalloc -------------------------------
(* Kalloc on three sections of two pages, counters modulo 4.               *)
EXTENDS Kalloc
=============================================================================

---------------------------- MODULE MCDocsBatch ----------------------------
(* A small instance of DocsBatch.                                          *)
EXTENDS DocsBatch

=============================================================================

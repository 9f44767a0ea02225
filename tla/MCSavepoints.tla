----------------------------- MODULE MCSavepoints -----------------------------
(* Savepoints on a small instance.                                          *)
EXTENDS Savepoints
=============================================================================

-------------------------- MODULE MCLockContention --------------------------
(* LockContention on a small instance: the timeout is clipped in the third *)
(* delay of the table.                                                     *)
EXTENDS LockContention

CONSTANTS c1, c2
=============================================================================

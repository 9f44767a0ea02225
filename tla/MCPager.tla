------------------------------- MODULE MCPager -------------------------------
(* Pager on a small instance.  The connections are alike: no definition     *)
(* tells one from another.                                                  *)
EXTENDS Pager, TLC

CONSTANTS c1, c2

Alike == Permutations(Conn)
=============================================================================

------------------------- MODULE MCSqliteStatement -------------------------
(***************************************************************************)
(* Small instances of SqliteStatement for TLC: one parameter, and queries  *)
(* with no row, one row and several rows, two of them equal.               *)
(***************************************************************************)
EXTENDS SqliteStatement

CONSTANTS v1, v2

MCRows ==
  [b \in [Param -> Value \cup {Nil}] |->
     IF \E p \in Param : b[p] = v1 THEN <<"a", "b", "a">>
     ELSE IF \E p \in Param : b[p] = v2 THEN <<"b">>
     ELSE <<>>]

=============================================================================

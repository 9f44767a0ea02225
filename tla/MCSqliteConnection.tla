------------------------ MODULE MCSqliteConnection ------------------------
(***************************************************************************)
(* Small instances of SqliteConnection for TLC.                            *)
(***************************************************************************)
EXTENDS SqliteConnection, TLC

\* References and statements are interchangeable: no definition names one.
Symmetry == Permutations(Ref) \cup Permutations(Stmt)

=============================================================================

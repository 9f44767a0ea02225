------------------------- MODULE MCSharedConnection -------------------------
(***************************************************************************)
(* Small instances of SharedConnection for TLC.                            *)
(***************************************************************************)
EXTENDS SharedConnection, TLC

\* References are interchangeable; threads are not, their roles differ.
Symmetry == Permutations(Ref)

=============================================================================

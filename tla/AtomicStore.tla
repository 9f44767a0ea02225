----------------------------- MODULE AtomicStore -----------------------------
(***************************************************************************)
(* What a database file in rollback-journal mode promises to its           *)
(* connections: a reader keeps the state it began with, a commit replaces  *)
(* the state it read from as a whole, and after a crash there is a state   *)
(* that was committed: the last one or, when the power failed before the   *)
(* deletion of its journal reached the disk, the one before.               *)
(***************************************************************************)
CONSTANTS
  Conn,      \* connections
  Database,  \* the states of a database
  NoView     \* a connection without a transaction

VARIABLES
  committed,  \* the state that a reader gets
  survivors,  \* the states that a power loss may leave
  view        \* the state each transaction reads

vars == <<committed, survivors, view>>

Init ==
  /\ committed \in Database
  /\ survivors = {committed}
  /\ view = [c \in Conn |-> NoView]

Begin(c) ==
  /\ view[c] = NoView
  /\ view' = [view EXCEPT ![c] = committed]
  /\ UNCHANGED <<committed, survivors>>

\* Nobody else has committed since the transaction began.
Commit(c) ==
  /\ view[c] = committed
  /\ committed' \in Database
  /\ view' = [view EXCEPT ![c] = committed']
  /\ survivors' = {committed, committed'}

End(c) ==
  /\ view' = [view EXCEPT ![c] = NoView]
  /\ UNCHANGED <<committed, survivors>>

\* The last commit has reached the disk for good.
Settle ==
  /\ UNCHANGED <<view, committed>>
  /\ survivors' = {committed}

\* The process ends or the power fails.
Crash ==
  /\ view' = [c \in Conn |-> NoView]
  /\ committed' \in survivors
  /\ survivors' \in {survivors, {committed'}}

Next == (\E c \in Conn : Begin(c) \/ Commit(c) \/ End(c)) \/ Settle \/ Crash

Spec == Init /\ [][Next]_vars
=============================================================================

----------------------------- MODULE RowCursor -----------------------------
(***************************************************************************)
(* What SQLiteStmt and SQLiteIterator promise to a client: the arguments   *)
(* it bound last are the ones a query runs with, the rows of the result    *)
(* come in order, each one once, and the end is reported after the last of *)
(* them, unless the query failed.                                          *)
(***************************************************************************)
EXTENDS Sequences, Naturals

CONSTANTS
  Param,   \* parameters of the statement
  Value,   \* values a parameter may be bound to
  Nil,     \* SQL NULL, the value of a parameter that is not bound
  Row,     \* rows
  Rows     \* the result of the query for each assignment of the parameters

Binding == [Param -> Value \cup {Nil}]

VARIABLES
  args,    \* what the client asked the parameters to be
  want,    \* the result of the query in progress
  got,     \* the rows of it that the client took
  status   \* idle, open, done, failed or closed

cursor == <<args, want, got, status>>

TypeOK ==
  /\ args \in Binding
  /\ want \in Seq(Row)
  /\ got \in Seq(Row)
  /\ status \in {"idle", "open", "done", "failed", "closed"}

Init ==
  /\ args = [p \in Param |-> Nil]
  /\ want = <<>>
  /\ got = <<>>
  /\ status = "idle"

\* The client changes an argument, between queries only.
Bind(p, v) ==
  /\ status = "idle"
  /\ args' = [args EXCEPT ![p] = v]
  /\ UNCHANGED <<want, got, status>>

\* The client leaves the query; the arguments stay, or are cleared too.
Leave ==
  /\ status # "closed"
  /\ status' = "idle"
  /\ want' = <<>>
  /\ got' = <<>>
  /\ args' \in {args, [p \in Param |-> Nil]}

\* A query starts, with the arguments as they are, from its first row.
Query ==
  /\ status \in {"idle", "done", "failed"}
  /\ want' = Rows[args]
  /\ got' = <<>>
  /\ \/ status' \in {"open", "failed"}
     \/ status' = "done" /\ want' = <<>>
  /\ UNCHANGED args

\* The client takes the next row.
Take ==
  /\ status = "open"
  /\ Len(got) < Len(want)
  /\ got' = Append(got, want[Len(got) + 1])
  /\ UNCHANGED <<args, want, status>>

\* The end is reported: all rows were taken.
End ==
  /\ status = "open" /\ got = want
  /\ status' = "done"
  /\ UNCHANGED <<args, want, got>>

Fail ==
  /\ status = "open"
  /\ status' = "failed"
  /\ UNCHANGED <<args, want, got>>

Close ==
  /\ status # "closed"
  /\ status' = "closed"
  /\ want' = <<>> /\ got' = <<>>
  /\ UNCHANGED args

Next ==
  \/ \E p \in Param, v \in Value \cup {Nil} : Bind(p, v)
  \/ Leave \/ Query \/ Take \/ End \/ Fail \/ Close

Spec == Init /\ [][Next]_cursor

=============================================================================

------------------------------- MODULE RowLog -------------------------------
(***************************************************************************)
(* What a PSQLWriter promises about the rows it accepts, with nothing said *)
(* of pipes, threads, batches or SQL.  A row is accepted when its addValue *)
(* returns, and durable when the server has committed it.  Rows are        *)
(* records with a table and an id that tells the order of acceptance.      *)
(***************************************************************************)
EXTENDS Naturals

VARIABLES
  accepted,   \* the rows that were accepted and not lost
  durable     \* those of them the server has

Init ==
  /\ accepted = {}
  /\ durable = {}

(* Of each table, the rows of A that are in D are the first ones. *)
FirstOf(D, A) ==
  \A r \in D, s \in A : s.table = r.table /\ s.id < r.id => s \in D

(* The server has all it had, and of each table the next rows. *)
Progress ==
  /\ durable \subseteq durable'
  /\ durable' \subseteq accepted
  /\ FirstOf(durable', accepted)

(* One more row, later than all the others. *)
Accept ==
  /\ \E r \in accepted' : /\ \A s \in accepted : s.id < r.id
                          /\ accepted' = accepted \cup {r}
  /\ UNCHANGED durable

Commit ==
  /\ Progress
  /\ UNCHANGED accepted

(* The process dies, perhaps during a commit that takes effect: the rows the
   server does not have are lost. *)
Die ==
  /\ Progress
  /\ accepted' = durable'

Next == Accept \/ Commit \/ Die

Spec == Init /\ [][Next]_<<accepted, durable>>
=============================================================================

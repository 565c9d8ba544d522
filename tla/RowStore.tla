------------------------------ MODULE RowStore ------------------------------
(***************************************************************************)
(* What SQLiteWriters promise about the rows they accept, with nothing     *)
(* said of threads, locks, tables or files.  A row is accepted when its    *)
(* addValue returns, and durable when the database file has it.            *)
(***************************************************************************)
CONSTANTS
  Writers,
  Batching        \* Batching[w]: its rows wait for a commit

VARIABLES
  accepted,       \* accepted[w]: the rows w has accepted and not lost
  durable         \* durable[w]: those of them that no crash can take away

Init ==
  /\ accepted = [w \in Writers |-> {}]
  /\ durable = [w \in Writers |-> {}]

(* One more row.  In a batching writer it is not durable yet. *)
Accept(w) ==
  /\ \E r \in accepted'[w] : accepted' = [accepted EXCEPT ![w] = @ \cup {r}]
  /\ durable' = [durable EXCEPT ![w] = IF Batching[w] THEN @ ELSE accepted'[w]]

(* All that w accepted becomes durable at once. *)
Commit(w) ==
  /\ durable' = [durable EXCEPT ![w] = accepted[w]]
  /\ UNCHANGED accepted

(* The process of w dies: the rows that were not durable are lost. *)
Die(w) ==
  /\ accepted' = [accepted EXCEPT ![w] = durable[w]]
  /\ UNCHANGED durable

Next == \E w \in Writers : Accept(w) \/ Commit(w) \/ Die(w)

Spec == Init /\ [][Next]_<<accepted, durable>>
=============================================================================

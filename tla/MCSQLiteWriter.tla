--------------------------- MODULE MCSQLiteWriter ---------------------------
(***************************************************************************)
(* Values for the constants of SQLiteWriter, for TLC.                      *)
(***************************************************************************)
EXTENDS SQLiteWriter, TLC

CONSTANTS w1, w2, c1, c2, c3, data, a, b, k, none

(* Who calls whom: w1 alone, called by one or two threads, two writers, or
   a writer called by two threads and a second one called by a third. *)
MCOneCaller == (c1 :> w1)
MCOneWriter == (c1 :> w1) @@ (c2 :> w1)
MCTwoWriters == (c1 :> w1) @@ (c2 :> w2)
MCBesideReader == (c1 :> w1) @@ (c2 :> w1) @@ (c3 :> w2)

(* Table names: data, or the empty name. *)
MCTableOf == (data :> data)
MCUnnamed == (none :> data)

(* Flags. *)
MCDefault == [w \in Conns |-> "NoFlag"]
MCMixed == (w1 :> "NoTransactions") @@ (w2 :> "NoFlag")
MCReader == (w1 :> "NoFlag") @@ (w2 :> "ReadOnly")

(* The permutations of writers and callers that leave alone who calls whom. *)
MCSwap == {p \in Permutations(Conns \cup Callers) :
             /\ \A w \in Conns : p[w] \in Conns
             /\ \A c \in Callers : WriterOf[p[c]] = p[WriterOf[c]]}

(* Column lists: one column; one and both; none, one, and both in any order. *)
MCShort == {<<a>>}
MCBoth == {<<a>>, <<b, a>>}
MCSigs == {<<>>, <<a>>, <<a, b>>, <<b, a>>}
=============================================================================

---------------------------- MODULE MCPSQLWriter ----------------------------
(***************************************************************************)
(* Values for the constants of PSQLWriter, for TLC.                        *)
(***************************************************************************)
EXTENDS PSQLWriter, TLC

CONSTANTS c1, c2, data, logs, a, b, B

(* Names in lower case, and with a column spelt B. *)
MCLower == [n \in Tables \cup Columns |-> n]
MCFolded == [n \in Tables \cup Columns |-> IF n = B THEN b ELSE n]

(* Field lists: one field, or two. *)
MCSigs == {{a}, {a, b}}
MCMixedCase == {{a, B}}
=============================================================================

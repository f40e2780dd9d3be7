--------------------------- MODULE MCInvestigation ---------------------------
(***************************************************************************)
(* Two incidents and two DAGs: one incident's answer can be mistaken for   *)
(* the other's, and one can be left in the list when the loop is           *)
(* cancelled.  The configuration is any.                                   *)
(***************************************************************************)
EXTENDS Investigation
=============================================================================

--------------------------- MODULE MCPostgresStore ---------------------------
(***************************************************************************)
(* Three deliveries for one service, the first and the third of the same   *)
(* alert, and one for another service.                                     *)
(***************************************************************************)
EXTENDS PostgresStore

MCSegment == {"", "unknown", "prod", "shop", "cart", "till"}
MCAlert == 1 .. 4
MCFingerprint == 1 .. 3
MCFingerprintOf == << 1, 2, 1, 3 >>

\* critical = 1, unknown = 3, warning = 4
MCLabelsOf ==
  [a \in MCAlert |->
     [cluster |-> << "prod" >>, namespace |-> << "shop" >>,
      service |-> IF a = 4 THEN << "till" >> ELSE << "cart" >>,
      app |-> Missing, deployment |-> Missing,
      severity |-> IF a = 2 THEN 4 ELSE 1]]
=============================================================================

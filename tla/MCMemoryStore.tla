--------------------------- MODULE MCMemoryStore ---------------------------
(***************************************************************************)
(* Five deliveries for one service, two calls at a time.  Only the fifth   *)
(* can meet an array of four cells that has room while another call holds  *)
(* it, so with fewer the condition of the properties would exclude         *)
(* nothing.  Calls also overlap without holding one array, two incidents   *)
(* can be created in one microsecond, and the window can pass.  Deliveries *)
(* that differ in nothing but their identity are interchangeable.          *)
(***************************************************************************)
EXTENDS MemoryStore, TLC

CONSTANTS Critical, Warning    \* deliveries with these severities

MCSegment == {"", "unknown", "prod", "shop", "cart"}

MCAlert == Critical \cup Warning

\* critical = 1, unknown = 3, warning = 4
MCLabelsOf ==
  [a \in MCAlert |->
     [cluster |-> << "prod" >>, namespace |-> << "shop" >>, service |-> << "cart" >>,
      app |-> Missing, deployment |-> Missing,
      severity |-> IF a \in Warning THEN 4 ELSE 1]]

MCSymmetry == Permutations(Critical) \cup Permutations(Warning)
=============================================================================

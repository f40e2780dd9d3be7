------------------------------ MODULE MCIngest ------------------------------
(***************************************************************************)
(* A request of two alerts and a message from elsewhere that is not JSON   *)
(* and fails for ever.                                                     *)
(***************************************************************************)
EXTENDS Ingest

CONSTANTS r1, junk

MCRequest == {r1}
MCMessage == MCRequest \cup {junk}
MCAlerts == [r \in MCRequest |-> 2]
=============================================================================

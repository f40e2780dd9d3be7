---------------------------- MODULE AlertLabels ----------------------------
(***************************************************************************)
(* How internal/correlation reads the labels of an alert: the primary      *)
(* service, the severity and the correlation key.                          *)
(*                                                                         *)
(* A label value is a non-empty sequence of segments: what strings.Split   *)
(* at "/" would return.  A missing label and an empty one read the same in *)
(* Go (the zero value of the map), and are the one empty segment, Missing. *)
(* With this representation fmt.Sprintf("%s/%s/%s") is concatenation, and  *)
(* two different triples can have one key exactly when they can in Go.     *)
(*                                                                         *)
(* Severities are natural numbers in the order Go compares strings in:     *)
(* "critical" < "info" < "unknown" < "warning".  0 is a missing label.     *)
(***************************************************************************)
EXTENDS Naturals, Sequences

CONSTANTS Segment,          \* strings without "/"
          UnknownSeverity   \* the rank of the string "unknown"

ASSUME LabelAssumption ==
  /\ {"", "unknown"} \subseteq Segment
  /\ UnknownSeverity \in Nat \ {0}

LabelValue == Seq(Segment) \ {<< >>}
Missing == << "" >>

Labels == [cluster : LabelValue, namespace : LabelValue, service : LabelValue,
           app : LabelValue, deployment : LabelValue, severity : Nat]

primaryServiceFromLabels(l) ==
  CASE l.service # Missing -> l.service
    [] l.service = Missing /\ l.app # Missing -> l.app
    [] l.service = Missing /\ l.app = Missing /\ l.deployment # Missing -> l.deployment
    [] OTHER -> << "unknown" >>

severityFromLabels(l) ==
  IF l.severity # 0 THEN l.severity ELSE UnknownSeverity

\* Mutant: the namespace is left out of the key.
buildCorrelationKeyNoNamespace(l) ==
  l.cluster \o primaryServiceFromLabels(l)

buildCorrelationKey(l) ==
  l.cluster \o l.namespace \o primaryServiceFromLabels(l)
=============================================================================

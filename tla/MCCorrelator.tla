---------------------------- MODULE MCCorrelator ----------------------------
(***************************************************************************)
(* Four deliveries: three for one service, known to one of them by its app *)
(* label only, and one for a service of that name in another namespace.    *)
(***************************************************************************)
EXTENDS Correlator

Label(namespace, service, app, severity) ==
  [cluster |-> << "prod" >>, namespace |-> << namespace >>, service |-> service,
   app |-> app, deployment |-> Missing, severity |-> severity]

MCSegment == {"", "unknown", "prod", "shop", "bank", "cart"}

MCAlert == 1 .. 4

\* critical = 1, info = 2, unknown = 3, warning = 4
MCLabelsOf ==
  << Label("shop", << "cart" >>, Missing, 4),
     Label("shop", << "cart" >>, Missing, 1),
     Label("shop", Missing, << "cart" >>, 0),
     Label("bank", << "cart" >>, << "unknown" >>, 2) >>
=============================================================================

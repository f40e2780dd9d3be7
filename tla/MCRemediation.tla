----------------------------- MODULE MCRemediation -----------------------------
(***************************************************************************)
(* Four plans: one that the runner can carry out, one with a script, one   *)
(* with a forbidden tool, one whose tasks wait for each other.  The first  *)
(* two are for one incident.                                               *)
(***************************************************************************)
EXTENDS Remediation

MCPlan == {"good", "script", "forbidden", "cyclic"}

MCTask(id, tool, inputs, runAfter, approved) ==
  [id |-> id, tool |-> tool, inputs |-> inputs, runAfter |-> runAfter,
   approved |-> approved]

Kubectl == [action |-> "text", resource |-> "text"]
Http == [url |-> "text"]
Wait == [duration |-> "duration"]
Script == [script |-> "text"]
Other == [action |-> "other"]

MCDag ==
  [good |->
     [incident |-> "i1", environment |-> "dev",
      tasks |-> << MCTask("a", "kubectl", Kubectl, {}, FALSE),
                   MCTask("b", "http", Http, {}, FALSE),
                   MCTask("c", "wait", Wait, {"a", "b"}, FALSE) >>],
   script |->
     [incident |-> "i1", environment |-> "prod",
      tasks |-> << MCTask("a", "script", Script, {}, TRUE) >>],
   forbidden |->
     [incident |-> "i2", environment |-> "prod",
      tasks |-> << MCTask("a", "kubectl", Kubectl, {}, TRUE),
                   MCTask("b", "k8s.exec", Kubectl, {"a"}, TRUE) >>],
   cyclic |->
     [incident |-> "i3", environment |-> "prod",
      tasks |-> << MCTask("a", "helm", Other, {"b"}, FALSE),
                   MCTask("b", "wait", Wait, {"a"}, TRUE) >>]]

\* The shipped policy, none, and one as in the engine's tests.
MCPolicies ==
  {[syntax |-> "v0", names |-> "go"], NoPolicy, [syntax |-> "v1", names |-> "json"]}
=============================================================================

----------------------------- MODULE Remediation -----------------------------
(***************************************************************************)
(* A plan from kagent on its way: the policy engine, argo.Client, the      *)
(* Argo controller, and cmd/dag-runner in a pod for each task.             *)
(*                                                                         *)
(* InvestigateIncident, which brings a plan here if its confidence is      *)
(* good, is in Investigation.  Plans are taken one at a time; workflows    *)
(* run side by side.  An input is "text" (a string), "duration" (one that  *)
(* parses as such) or "other" (no string).                                 *)
(***************************************************************************)
EXTENDS Naturals, Sequences, FiniteSets

CONSTANTS Plan,        \* plans
          Dag,         \* for each plan its incident, the environment of that,
                       \* and its tasks: id, tool, inputs, runAfter, approved
          Policies,    \* policies that POLICY_DIR may hold, or NoPolicy
          NoPolicy,    \* it holds no .rego file
          MaxSeconds   \* bound on the seconds that pass

ASSUME RemediationAssumption ==
  /\ \A p \in Plan : Dag[p].tasks # << >>
  /\ Policies \subseteq [syntax : {"v0", "v1"}, names : {"go", "json"}] \cup {NoPolicy}
  /\ MaxSeconds \in Nat

VARIABLES policy,      \* what is in POLICY_DIR
          inCluster,   \* whether the Argo client was initialized
          now,         \* seconds
          stage,       \* where each plan is
          name,        \* the name of its workflow, once that is created
          workflows,   \* names in use, with what was created under them
          phase,       \* of each workflow, "" until the controller sets it
          status,      \* of each task of it
          made,        \* history: incidents a workflow was created for in this
                       \* second,
          unlucky      \* and plans that lost a pod

config == << policy, inCluster >>
cluster == << workflows, phase, status >>
vars == << config, now, stage, name, cluster, made, unlucky >>

Tasks(p) == DOMAIN Dag[p].tasks
Task(p, t) == Dag[p].tasks[t]
NoName == << >>
Created(p) == stage[p] = "created"

Init ==
  /\ policy \in Policies /\ inCluster \in BOOLEAN
  /\ now = 0
  /\ stage = [p \in Plan |-> "planned"]
  /\ name = [p \in Plan |-> NoName]
  /\ workflows = << >> /\ phase = << >> /\ status = << >>
  /\ made = {} /\ unlucky = {}

Tick ==
  /\ now < MaxSeconds
  /\ now' = now + 1 /\ made' = {}
  /\ UNCHANGED << config, stage, name, cluster, unlucky >>

-----------------------------------------------------------------------------
(* policies.rego, and policy.Engine. *)

forbidden_tools ==
  {"k8s.applyManifest", "k8s.patchResource", "k8s.exec", "script.shell", "helm.delete"}

critical_tools ==
  {"kubectl.scale", "kubectl.delete", "kubectl.apply", "helm.rollback", "helm.upgrade"}

\* The input is JSON: the names of Go's fields are undefined in it, and what
\* depends on them is not true of any task.
InputTasks(p) == IF policy.names = "json" THEN Tasks(p) ELSE {}
InputIsProd(p) == policy.names = "json" /\ Dag[p].environment = "prod"

deny_prod_autoremediation(p) ==
  InputIsProd(p) /\ \E t \in InputTasks(p) : ~Task(p, t).approved

\* Mutant: only the first task is looked at.
deny_forbidden_tools_first(p) ==
  \E t \in InputTasks(p) \cap {1} : Task(p, t).tool \in forbidden_tools

deny_forbidden_tools(p) ==
  \E t \in InputTasks(p) : Task(p, t).tool \in forbidden_tools

deny_missing_approval(p) ==
  /\ InputIsProd(p)
  /\ \E t \in InputTasks(p) : Task(p, t).tool \in critical_tools /\ ~Task(p, t).approved

allow_dag(p) ==
  ~deny_prod_autoremediation(p) /\ ~deny_forbidden_tools(p) /\ ~deny_missing_approval(p)

\* NewEngine fails without a file, and with rules without "if", which do not
\* compile; main goes on without an engine.  (POLICY_DIR itself has a default.)
HasEngine == policy # NoPolicy /\ policy.syntax = "v1"

ValidateDAG(p) == HasEngine => allow_dag(p)

-----------------------------------------------------------------------------
(* InvestigateIncident, from the plan on: one plan at a time. *)

Vetted(p) ==
  /\ stage[p] = "planned"
  /\ \A q \in Plan : stage[q] # "vetted"
  /\ stage' = [stage EXCEPT ![p] = IF ValidateDAG(p) THEN "vetted" ELSE "denied"]
  /\ UNCHANGED << config, now, name, cluster, made, unlucky >>

-----------------------------------------------------------------------------
(* argo.Client. *)

\* Mutant: the name does not tell the time.
WorkflowNameOfIncident(p) == << Dag[p].incident >>

WorkflowName(p) == << Dag[p].incident, now >>

\* Mutants: one dependency is not many; scripts are allowed.
dagToWorkflowOneDependency(p) ==
  [tasks |-> [t \in Tasks(p) |->
     [name |-> Task(p, t).id, tool |-> Task(p, t).tool, inputs |-> Task(p, t).inputs,
      dependencies |-> IF Cardinality(Task(p, t).runAfter) > 1 THEN Task(p, t).runAfter
                       ELSE {}]],
   allowScript |-> FALSE]

dagToWorkflowScripts(p) ==
  [tasks |-> [t \in Tasks(p) |->
     [name |-> Task(p, t).id, tool |-> Task(p, t).tool, inputs |-> Task(p, t).inputs,
      dependencies |-> Task(p, t).runAfter]],
   allowScript |-> TRUE]

\* Approval, retries, timeouts and the constraints of the plan are not handed on.
dagToWorkflow(p) ==
  [tasks |-> [t \in Tasks(p) |->
     [name |-> Task(p, t).id, tool |-> Task(p, t).tool, inputs |-> Task(p, t).inputs,
      dependencies |-> Task(p, t).runAfter]],
   allowScript |-> FALSE]

\* Without a cluster the plan is logged.
CreateLogged(p) ==
  /\ stage[p] = "vetted" /\ ~inCluster
  /\ stage' = [stage EXCEPT ![p] = "logged"]
  /\ UNCHANGED << config, now, name, cluster, made, unlucky >>

\* The workflow is created, whether the answer arrives or is lost; Investigation
\* tells the two apart.
CreateWorkflowForDAG(p) ==
  /\ stage[p] = "vetted" /\ inCluster
  /\ WorkflowName(p) \notin DOMAIN workflows
  /\ LET w == WorkflowName(p)
         W == DOMAIN workflows \cup {w}
     IN  /\ name' = [name EXCEPT ![p] = w]
         /\ workflows' = [v \in W |-> IF v = w THEN dagToWorkflow(p) ELSE workflows[v]]
         /\ phase' = [v \in W |-> IF v = w THEN "" ELSE phase[v]]
         /\ status' = [v \in W |-> IF v = w THEN [t \in Tasks(p) |-> "pending"]
                                   ELSE status[v]]
  /\ stage' = [stage EXCEPT ![p] = "created"]
  /\ made' = made \cup {Dag[p].incident}
  /\ UNCHANGED << config, now, unlucky >>

\* The name is in use.
CreateRefused(p) ==
  /\ stage[p] = "vetted" /\ inCluster
  /\ WorkflowName(p) \in DOMAIN workflows
  /\ stage' = [stage EXCEPT ![p] = "refused"]
  /\ UNCHANGED << config, now, name, cluster, made, unlucky >>

\* The API is not reached, or answers with another error.
CreateFails(p) ==
  /\ stage[p] = "vetted" /\ inCluster
  /\ stage' = [stage EXCEPT ![p] = "failed"]
  /\ UNCHANGED << config, now, name, cluster, made, unlucky >>

\* Mutant: a workflow the controller has not seen has no status.
GetWorkflowStatusRaw(w) == phase[w]

GetWorkflowStatus(w) == IF phase[w] = "" THEN "unknown" ELSE phase[w]

-----------------------------------------------------------------------------
(* cmd/dag-runner. *)

String(inputs, key) == key \in DOMAIN inputs /\ inputs[key] \in {"text", "duration"}

executeKubectl(inputs) == String(inputs, "action") /\ String(inputs, "resource")
executeHelm(inputs) == String(inputs, "action") /\ String(inputs, "release")

\* Mutant: there is no default method.
executeHTTPMethod(inputs) == String(inputs, "method") /\ String(inputs, "url")

executeHTTP(inputs) == String(inputs, "url")
executeScript(inputs, allowed) == allowed /\ String(inputs, "script")
executeWait(inputs) == String(inputs, "duration") /\ inputs["duration"] = "duration"

\* Whether the task ends without an error.
executeTask(task, allowScript) ==
  \/ task.tool = "kubectl" /\ executeKubectl(task.inputs)
  \/ task.tool = "helm" /\ executeHelm(task.inputs)
  \/ task.tool = "http" /\ executeHTTP(task.inputs)
  \/ task.tool = "script" /\ executeScript(task.inputs, allowScript)
  \/ task.tool = "wait" /\ executeWait(task.inputs)

-----------------------------------------------------------------------------
(* The Argo controller. *)

WorkflowTasks(w) == DOMAIN workflows[w].tasks
Named(w, n) == {t \in WorkflowTasks(w) : workflows[w].tasks[t].name = n}

\* Names are unique, dependencies exist, and there is no cycle of them.
WellFormed(w) ==
  LET T == workflows[w].tasks
  IN  /\ \A t \in DOMAIN T : Named(w, T[t].name) = {t}
      /\ \A t \in DOMAIN T : \A n \in T[t].dependencies : Named(w, n) # {}
      /\ \A S \in SUBSET DOMAIN T : S # {} =>
           \E t \in S : \A u \in S : T[u].name \notin T[t].dependencies

Accept(w) ==
  /\ phase[w] = ""
  /\ phase' = [phase EXCEPT ![w] = IF WellFormed(w) THEN "Running" ELSE "Error"]
  /\ UNCHANGED << config, now, stage, name, workflows, status, made, unlucky >>

Is(w, t, s) == status' = [status EXCEPT ![w][t] = s]

\* A task starts after those it depends on succeeded, none after one failed.
Start(w, t) ==
  /\ phase[w] = "Running" /\ status[w][t] = "pending"
  /\ \A u \in WorkflowTasks(w) :
       /\ status[w][u] # "failed"
       /\ workflows[w].tasks[u].name \in workflows[w].tasks[t].dependencies
            => status[w][u] = "succeeded"
  /\ Is(w, t, "running")
  /\ UNCHANGED << config, now, stage, name, workflows, phase, made, unlucky >>

\* Its container ends.
PodEnds(w, t) ==
  /\ status[w][t] = "running"
  /\ Is(w, t, IF executeTask(workflows[w].tasks[t], workflows[w].allowScript)
              THEN "succeeded" ELSE "failed")
  /\ UNCHANGED << config, now, stage, name, workflows, phase, made, unlucky >>

\* Its pod is evicted, or its node is lost; the workflow has no retries.
PodLost(w, t) ==
  /\ status[w][t] = "running"
  /\ Is(w, t, "failed")
  /\ unlucky' = unlucky \cup {p \in Plan : Created(p) /\ name[p] = w}
  /\ UNCHANGED << config, now, stage, name, workflows, phase, made >>

\* Nothing runs, and all are done or one failed.
Complete(w) ==
  /\ phase[w] = "Running"
  /\ LET S == {status[w][t] : t \in WorkflowTasks(w)}
     IN  /\ "running" \notin S
         /\ "failed" \in S \/ S = {"succeeded"}
         /\ phase' = [phase EXCEPT ![w] = IF "failed" \in S THEN "Failed" ELSE "Succeeded"]
  /\ UNCHANGED << config, now, stage, name, workflows, status, made, unlucky >>

Engine(p) ==
  Vetted(p) \/ CreateLogged(p) \/ CreateWorkflowForDAG(p) \/ CreateRefused(p) \/ CreateFails(p)

Controller(w) ==
  Accept(w) \/ Complete(w) \/ \E t \in WorkflowTasks(w) : Start(w, t) \/ PodEnds(w, t)

Next ==
  \/ Tick
  \/ \E p \in Plan : Engine(p)
  \/ \E w \in DOMAIN workflows :
       Controller(w) \/ \E t \in WorkflowTasks(w) : PodLost(w, t)

\* The controller and the pods go on.  Nothing is assumed of the engine.
Fairness == \A p \in Plan : WF_vars(Created(p) /\ Controller(name[p]))

Spec == Init /\ [][Next]_vars /\ Fairness

-----------------------------------------------------------------------------
\* Every variable has its type, and every plan that was created has a workflow of
\* its own.
TypeOK ==
  /\ policy \in Policies /\ inCluster \in BOOLEAN
  /\ now \in 0 .. MaxSeconds
  /\ stage \in [Plan -> {"planned", "vetted", "denied", "logged", "created", "refused",
                         "failed"}]
  /\ DOMAIN name = Plan
  /\ made \subseteq {Dag[p].incident : p \in Plan} /\ unlucky \subseteq Plan
  /\ DOMAIN phase = DOMAIN workflows /\ DOMAIN status = DOMAIN workflows
  /\ DOMAIN workflows = {name[p] : p \in {p \in Plan : stage[p] = "created"}}
  /\ \A w \in DOMAIN workflows :
       /\ GetWorkflowStatus(w) \in {"unknown", "Running", "Error", "Failed", "Succeeded"}
       /\ status[w] \in [WorkflowTasks(w) ->
                           {"pending", "running", "succeeded", "failed"}]
  /\ \A p, q \in Plan : stage[p] = "created" /\ stage[q] = "created" /\ p # q
                          => name[p] # name[q]

Started(p, t) == Created(p) /\ status[name[p]][t] # "pending"
Succeeded(p, t) == Created(p) /\ status[name[p]][t] = "succeeded"

\* A task is not started before every task its plan says it runs after has
\* succeeded, whatever fails and whatever else runs.
DependenciesFirst ==
  \A p \in Plan : \A t \in Tasks(p) :
    Started(p, t) =>
      \A n \in Task(p, t).runAfter :
        \E u \in Tasks(p) : Task(p, u).id = n /\ Succeeded(p, u)

\* With a policy that compiles and names its input as it is, nothing of a plan
\* with a forbidden tool is started, nor of one in production with a task
\* nobody has to approve.
PolicyHolds ==
  (HasEngine /\ policy.names = "json") =>
    \A p \in Plan : \A t \in Tasks(p) :
      Started(p, t) =>
        \A u \in Tasks(p) :
          /\ Task(p, u).tool \notin forbidden_tools
          /\ Dag[p].environment = "prod" => Task(p, u).approved

\* With or without a policy, no script and no forbidden tool ever succeeds: the
\* runner has four tools.  (None of them is among those that kagent is told it
\* may use, engine.go:51.)
RunnerTools == {"kubectl", "helm", "http", "wait"}

OnlyRunnerToolsSucceed ==
  \A p \in Plan : \A t \in Tasks(p) : Succeeded(p, t) => Task(p, t).tool \in RunnerTools

\* A plan is refused for its name only if the workflow of another plan for its
\* incident was created in the very same second.
RefusedWithinASecond ==
  [][\A p \in Plan :
       stage'[p] = "refused" /\ stage[p] # "refused" => Dag[p].incident \in made]_vars

\* A plan made of what the runner can do is carried out to the end, unless it
\* loses a pod, on whatever other plans fail meanwhile.  (What it can do is in the
\* tests of cmd/dag-runner.)
CanDo ==
  [kubectl |-> {"action", "resource"}, helm |-> {"action", "release"},
   http |-> {"url"}, wait |-> {"duration"}]

CanBeDone(p) ==
  /\ \A t, u \in Tasks(p) : Task(p, t).id = Task(p, u).id => t = u
  /\ \A t \in Tasks(p) :
       /\ Task(p, t).tool \in DOMAIN CanDo
       /\ CanDo[Task(p, t).tool] \subseteq DOMAIN Task(p, t).inputs
       /\ \A k \in DOMAIN Task(p, t).inputs :
            Task(p, t).inputs[k] = (IF k = "duration" THEN "duration" ELSE "text")
       \* Listed in an order that works.
       /\ Task(p, t).runAfter \subseteq {Task(p, u).id : u \in 1 .. t - 1}

PlansThatCanBeDoneSucceed ==
  \A p \in {p \in Plan : CanBeDone(p)} :
    Created(p) ~>
      (Created(p) /\ GetWorkflowStatus(name[p]) = "Succeeded") \/ p \in unlucky

\* internal/policy/README.md: "Certain tools are completely forbidden and will
\* never be allowed", with the policies of that directory.
ForbiddenToolsAreDenied ==
  policy # NoPolicy => \A p \in Plan :
    (\E t \in Tasks(p) : Task(p, t).tool \in forbidden_tools) => ~Created(p)
=============================================================================

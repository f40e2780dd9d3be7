--------------------------- MODULE RemediationProofs ---------------------------
(***************************************************************************)
(* Proofs about Remediation, for any plans, policies and number of         *)
(* seconds.                                                                *)
(*                                                                         *)
(* A task of a plan meets three programs, and what each of them answers    *)
(* for is a part of IInv: the engine let the plan through (VettedInv), the *)
(* client handed it on as it was (HandedInv), and the controller and the   *)
(* runner kept its order and its rules (OrderInv, RunInv).  NamesInv says  *)
(* when a name came into use.                                              *)
(***************************************************************************)
EXTENDS Remediation, TLAPS

VettedInv == \A p \in Plan : stage[p] \in {"vetted", "created"} => ValidateDAG(p)

HandedInv == \A p \in Plan : Created(p) => workflows[name[p]] = dagToWorkflow(p)

\* What has started is of an accepted workflow, and what it depends on exists there
\* and has succeeded.
OrderInv ==
  \A w \in DOMAIN workflows :
    /\ phase[w] \notin {"", "Error"} => WellFormed(w)
    /\ \A t \in WorkflowTasks(w) : status[w][t] # "pending" =>
         /\ phase[w] \notin {"", "Error"}
         /\ \A n \in workflows[w].tasks[t].dependencies :
              \E u \in Named(w, n) : status[w][u] = "succeeded"

RunInv ==
  \A w \in DOMAIN workflows : \A t \in WorkflowTasks(w) :
    status[w][t] = "succeeded"
      => executeTask(workflows[w].tasks[t], workflows[w].allowScript)

NamesInv ==
  \A p \in Plan : Created(p) =>
    \E k \in 0 .. now : /\ name[p] = << Dag[p].incident, k >>
                        /\ k = now => Dag[p].incident \in made

IInv == TypeOK /\ VettedInv /\ HandedInv /\ OrderInv /\ RunInv /\ NamesInv

-----------------------------------------------------------------------------
\* The workflow of a plan is where its name says.
LEMMA CreatedHaveWorkflows ==
  ASSUME TypeOK, NEW p \in Plan, Created(p) PROVE name[p] \in DOMAIN workflows
PROOF
<1> QED
  BY DEF TypeOK, Created

\* What a workflow is and how far it is do not depend on other workflows.
LEMMA SameWorkflow ==
  ASSUME NEW w, workflows'[w] = workflows[w]
  PROVE  /\ WorkflowTasks(w)' = WorkflowTasks(w)
         /\ \A n : Named(w, n)' = Named(w, n)
         /\ WellFormed(w) => WellFormed(w)'
PROOF
<1>1. WorkflowTasks(w)' = WorkflowTasks(w)
  BY DEF WorkflowTasks
<1>2. \A n : Named(w, n)' = Named(w, n)
  BY <1>1 DEF Named
<1>3. WellFormed(w) => WellFormed(w)'
  BY <1>2 DEF WellFormed
<1> QED
  BY <1>1, <1>2, <1>3

-----------------------------------------------------------------------------
\* A step that leaves names and workflows alone, and creates no plan and lets none
\* through that the policy denies, keeps the invariant.
LEMMA EngineStep ==
  ASSUME IInv, UNCHANGED << policy, inCluster, name, workflows, phase, status, unlucky >>,
         \/ now' = now /\ made' = made
         \/ now' = now + 1 /\ now' <= MaxSeconds /\ made' = {},
         stage' \in [Plan -> {"planned", "vetted", "denied", "logged", "created",
                              "refused", "failed"}],
         \A p \in Plan : \/ stage'[p] = stage[p]
                         \/ stage[p] # "created" /\ stage'[p] # "created"
                              /\ (stage'[p] = "vetted" => ValidateDAG(p))
  PROVE  IInv'
PROOF
<1>1. TypeOK /\ VettedInv /\ HandedInv /\ OrderInv /\ RunInv /\ NamesInv
  BY DEF IInv
<1>2. \A p \in Plan : Created(p)' <=> Created(p)
  BY DEF Created
<1>3. now \in 0 .. MaxSeconds /\ now' \in 0 .. MaxSeconds
  BY <1>1, RemediationAssumption DEF TypeOK, RemediationAssumption
<1>4. TypeOK'
  <2>1. made' \subseteq {Dag[p].incident : p \in Plan}
    BY <1>1 DEF TypeOK
  <2>2. {p \in Plan : stage'[p] = "created"} = {p \in Plan : stage[p] = "created"}
    BY <1>2 DEF Created
  <2>3. DOMAIN workflows' = {name'[p] : p \in {p \in Plan : stage'[p] = "created"}}
    BY <1>1, <2>2 DEF TypeOK
  <2>4. \A w \in DOMAIN workflows' :
          /\ GetWorkflowStatus(w)' \in {"unknown", "Running", "Error", "Failed", "Succeeded"}
          /\ status'[w] \in [WorkflowTasks(w)' ->
                              {"pending", "running", "succeeded", "failed"}]
    BY <1>1 DEF TypeOK, GetWorkflowStatus, WorkflowTasks
  <2>5. \A p, q \in Plan : stage'[p] = "created" /\ stage'[q] = "created" /\ p # q
                             => name'[p] # name'[q]
    BY <1>1, <1>2 DEF TypeOK, Created
  <2> QED
    BY <1>1, <1>3, <2>1, <2>3, <2>4, <2>5 DEF TypeOK
<1>5. VettedInv'
  <2>1. \A p : ValidateDAG(p)' <=> ValidateDAG(p)
    BY DEF ValidateDAG, HasEngine, allow_dag, deny_prod_autoremediation,
           deny_forbidden_tools, deny_missing_approval, InputTasks, InputIsProd
  <2> QED
    BY <1>1, <2>1 DEF VettedInv
<1>6. HandedInv'
  BY <1>1, <1>2 DEF HandedInv, dagToWorkflow
<1>7. OrderInv' /\ RunInv'
  <2>1. \A w : WorkflowTasks(w)' = WorkflowTasks(w) /\ (WellFormed(w) => WellFormed(w)')
    BY SameWorkflow
  <2>2. \A w, n : Named(w, n)' = Named(w, n)
    BY SameWorkflow
  <2> QED
    BY <1>1, <2>1, <2>2 DEF OrderInv, RunInv
<1>8. NamesInv'
  <2> SUFFICES ASSUME NEW p \in Plan, Created(p)
               PROVE  \E k \in 0 .. now' : /\ name[p] = << Dag[p].incident, k >>
                                           /\ k = now' => Dag[p].incident \in made'
    BY <1>2 DEF NamesInv
  <2>1. PICK k \in 0 .. now : /\ name[p] = << Dag[p].incident, k >>
                              /\ k = now => Dag[p].incident \in made
    BY <1>1 DEF NamesInv
  <2>2. k \in 0 .. now' /\ (k = now' => now' = now /\ made' = made)
    BY <1>3
  <2> QED
    BY <2>1, <2>2
<1> QED
  BY <1>4, <1>5, <1>6, <1>7, <1>8 DEF IInv

-----------------------------------------------------------------------------
\* A new workflow is the plan's, none of its tasks has started, and the others are
\* what they were.
LEMMA CreateStep == ASSUME IInv, NEW p \in Plan, CreateWorkflowForDAG(p) PROVE IInv'
PROOF
<1>0. PICK w : w = WorkflowName(p)
  OBVIOUS
<1> DEFINE W == DOMAIN workflows \cup {w}
<1>1. TypeOK /\ VettedInv /\ HandedInv /\ OrderInv /\ RunInv /\ NamesInv
  BY DEF IInv
<1>2. /\ stage[p] = "vetted" /\ w \notin DOMAIN workflows
      /\ name' = [name EXCEPT ![p] = w]
      /\ stage' = [stage EXCEPT ![p] = "created"]
      /\ made' = made \cup {Dag[p].incident}
      /\ UNCHANGED << policy, inCluster, now, unlucky >>
  BY <1>0 DEF CreateWorkflowForDAG, config
<1>3. /\ workflows' = [v \in W |-> IF v = w THEN dagToWorkflow(p) ELSE workflows[v]]
      /\ phase' = [v \in W |-> IF v = w THEN "" ELSE phase[v]]
      /\ status' = [v \in W |-> IF v = w THEN [t \in Tasks(p) |-> "pending"]
                                ELSE status[v]]
  BY <1>0 DEF CreateWorkflowForDAG
<1>4. /\ DOMAIN workflows' = W /\ DOMAIN phase' = W /\ DOMAIN status' = W
      /\ workflows'[w] = dagToWorkflow(p) /\ phase'[w] = ""
      /\ status'[w] = [t \in Tasks(p) |-> "pending"]
      /\ \A v \in DOMAIN workflows : /\ v # w /\ workflows'[v] = workflows[v]
                                     /\ phase'[v] = phase[v] /\ status'[v] = status[v]
  BY <1>2, <1>3
<1>5. WorkflowTasks(w)' = Tasks(p)
  <2> DEFINE T == [t \in Tasks(p) |->
                    [name |-> Task(p, t).id, tool |-> Task(p, t).tool,
                     inputs |-> Task(p, t).inputs, dependencies |-> Task(p, t).runAfter]]
  <2>1. DOMAIN T = Tasks(p)
    OBVIOUS
  <2>2. workflows'[w] = [tasks |-> T, allowScript |-> FALSE]
    BY <1>4 DEF dagToWorkflow
  <2> HIDE DEF T
  <2>3. workflows'[w].tasks = T
    BY <2>2
  <2> QED
    BY <2>1, <2>3 DEF WorkflowTasks
<1>6. \A q \in Plan : Created(q)' <=> q = p \/ Created(q)
  BY <1>1, <1>2 DEF TypeOK, Created
<1>7. ~Created(p)
  BY <1>2 DEF Created
<1>8. name'[p] = w /\ \A q \in Plan : q # p => name'[q] = name[q]
  BY <1>1, <1>2 DEF TypeOK
<1>9. \A q \in Plan : Created(q) => name[q] \in DOMAIN workflows
  BY <1>1, CreatedHaveWorkflows
<1>10. TypeOK'
  <2>1. stage' \in [Plan -> {"planned", "vetted", "denied", "logged", "created",
                             "refused", "failed"}]
    BY <1>1, <1>2 DEF TypeOK
  <2>2. made' \subseteq {Dag[q].incident : q \in Plan}
    BY <1>1, <1>2 DEF TypeOK
  <2>3. DOMAIN workflows' = {name'[q] : q \in {q \in Plan : stage'[q] = "created"}}
    <3>1. DOMAIN workflows = {name[q] : q \in {q \in Plan : stage[q] = "created"}}
      BY <1>1 DEF TypeOK
    <3>2. ASSUME NEW v \in DOMAIN workflows'
          PROVE  \E q \in Plan : stage'[q] = "created" /\ v = name'[q]
      <4>1. v = w \/ \E q \in Plan : Created(q) /\ v = name[q]
        BY <1>4, <3>1 DEF Created
      <4> QED
        BY <1>6, <1>7, <1>8, <4>1 DEF Created
    <3>3. ASSUME NEW q \in Plan, stage'[q] = "created"
          PROVE  name'[q] \in DOMAIN workflows'
      BY <1>4, <1>6, <1>8, <1>9, <3>3 DEF Created
    <3> QED
      BY <3>2, <3>3
  <2>4. ASSUME NEW v \in DOMAIN workflows'
        PROVE  /\ GetWorkflowStatus(v)' \in {"unknown", "Running", "Error", "Failed", "Succeeded"}
               /\ status'[v] \in [WorkflowTasks(v)' ->
                                   {"pending", "running", "succeeded", "failed"}]
    <3>1. CASE v = w
      BY <1>4, <1>5, <3>1 DEF GetWorkflowStatus
    <3>2. CASE v \in DOMAIN workflows
      BY <1>1, <1>4, <3>2 DEF TypeOK, GetWorkflowStatus, WorkflowTasks
    <3> QED
      BY <1>4, <3>1, <3>2
  <2>5. \A q, r \in Plan : stage'[q] = "created" /\ stage'[r] = "created" /\ q # r
                             => name'[q] # name'[r]
    BY <1>1, <1>2, <1>6, <1>8, <1>9 DEF TypeOK, Created
  <2> QED
    BY <1>1, <1>2, <1>4, <2>1, <2>2, <2>3, <2>4, <2>5 DEF TypeOK
<1>11. VettedInv'
  <2>1. \A q : ValidateDAG(q)' <=> ValidateDAG(q)
    BY <1>2 DEF ValidateDAG, HasEngine, allow_dag, deny_prod_autoremediation,
                deny_forbidden_tools, deny_missing_approval, InputTasks, InputIsProd
  <2>2. \A q \in Plan : stage'[q] = IF q = p THEN "created" ELSE stage[q]
    BY <1>1, <1>2 DEF TypeOK
  <2> QED
    BY <1>1, <1>2, <2>1, <2>2 DEF VettedInv
<1>12. HandedInv'
  <2>1. ASSUME NEW q \in Plan, Created(q)' PROVE workflows'[name'[q]] = dagToWorkflow(q)
    <3>1. CASE q = p
      BY <1>4, <1>8, <3>1
    <3>2. CASE q # p
      <4>1. Created(q)
        BY <1>6, <2>1, <3>2
      <4>2. workflows[name[q]] = dagToWorkflow(q) /\ name[q] \in DOMAIN workflows
        BY <1>1, <1>9, <4>1 DEF HandedInv
      <4> QED
        BY <1>4, <1>8, <3>2, <4>2
    <3> QED
      BY <3>1, <3>2
  <2> QED
    BY <2>1 DEF HandedInv, dagToWorkflow
<1>13. ASSUME NEW v \in DOMAIN workflows'
       PROVE  \/ v = w /\ \A t \in WorkflowTasks(v)' : status'[v][t] = "pending"
              \/ /\ v \in DOMAIN workflows
                 /\ WorkflowTasks(v)' = WorkflowTasks(v)
                 /\ \A n : Named(v, n)' = Named(v, n)
                 /\ WellFormed(v) => WellFormed(v)'
  <2>1. CASE v = w
    BY <1>4, <1>5, <2>1
  <2>2. CASE v \in DOMAIN workflows
    BY <1>4, <2>2, SameWorkflow
  <2> QED
    BY <1>4, <2>1, <2>2
<1>14. OrderInv' /\ RunInv'
  <2> SUFFICES ASSUME NEW v \in DOMAIN workflows'
               PROVE  /\ phase'[v] \notin {"", "Error"} => WellFormed(v)'
                      /\ \A t \in WorkflowTasks(v)' : status'[v][t] # "pending" =>
                           /\ phase'[v] \notin {"", "Error"}
                           /\ \A n \in workflows'[v].tasks[t].dependencies :
                                \E u \in Named(v, n)' : status'[v][u] = "succeeded"
                      /\ \A t \in WorkflowTasks(v)' : status'[v][t] = "succeeded"
                           => executeTask(workflows'[v].tasks[t], workflows'[v].allowScript)
    BY DEF OrderInv, RunInv, executeTask, executeKubectl, executeHelm, executeHTTP,
           executeScript, executeWait, String
  <2>1. CASE v = w /\ \A t \in WorkflowTasks(v)' : status'[v][t] = "pending"
    BY <1>4, <2>1
  <2>2. CASE /\ v \in DOMAIN workflows
             /\ WorkflowTasks(v)' = WorkflowTasks(v)
             /\ \A n : Named(v, n)' = Named(v, n)
             /\ WellFormed(v) => WellFormed(v)'
    <3>1. workflows'[v] = workflows[v] /\ phase'[v] = phase[v] /\ status'[v] = status[v]
      BY <1>4, <2>2
    <3>2. /\ phase[v] \notin {"", "Error"} => WellFormed(v)
          /\ \A t \in WorkflowTasks(v) : status[v][t] # "pending" =>
               /\ phase[v] \notin {"", "Error"}
               /\ \A n \in workflows[v].tasks[t].dependencies :
                    \E u \in Named(v, n) : status[v][u] = "succeeded"
      BY <1>1, <2>2 DEF OrderInv
    <3>3. \A t \in WorkflowTasks(v) : status[v][t] = "succeeded"
            => executeTask(workflows[v].tasks[t], workflows[v].allowScript)
      BY <1>1, <2>2 DEF RunInv
    <3> QED
      BY <2>2, <3>1, <3>2, <3>3
  <2> QED
    BY <1>13, <2>1, <2>2
<1>15. NamesInv'
  <2>1. w = << Dag[p].incident, now >> /\ now \in 0 .. now /\ now' = now
    BY <1>0, <1>1, <1>2 DEF TypeOK, WorkflowName
  <2> SUFFICES ASSUME NEW q \in Plan, q = p \/ Created(q)
               PROVE  \E k \in 0 .. now : /\ name'[q] = << Dag[q].incident, k >>
                                          /\ k = now => Dag[q].incident \in made'
    BY <1>6, <2>1 DEF NamesInv
  <2>2. CASE q = p
    BY <1>2, <1>8, <2>1, <2>2
  <2>3. CASE q # p
    <3>1. PICK k \in 0 .. now : /\ name[q] = << Dag[q].incident, k >>
                                /\ k = now => Dag[q].incident \in made
      BY <1>1, <2>3 DEF NamesInv
    <3> QED
      BY <1>2, <1>8, <2>3, <3>1
  <2> QED
    BY <2>2, <2>3
<1> QED
  BY <1>10, <1>11, <1>12, <1>14, <1>15 DEF IInv

-----------------------------------------------------------------------------
\* A step of the controller or of a pod, on one workflow: it moves on to a phase
\* that is right for it, and its tasks to states that are.
Elsewhere(w) ==
  /\ UNCHANGED << policy, inCluster, now, stage, name, workflows, made >>
  /\ unlucky' \subseteq Plan
  /\ DOMAIN phase' = DOMAIN phase /\ DOMAIN status' = DOMAIN status
  /\ \A v \in DOMAIN workflows : v # w => phase'[v] = phase[v] /\ status'[v] = status[v]

PhaseMoves(w) ==
  \/ phase'[w] = phase[w]
  \/ phase[w] = "" /\ phase'[w] = (IF WellFormed(w) THEN "Running" ELSE "Error")
  \/ phase[w] = "Running" /\ phase'[w] \in {"Failed", "Succeeded"}

TaskMoves(w, t) ==
  \/ status'[w][t] = status[w][t]
  \/ /\ status[w][t] = "pending" /\ status'[w][t] = "running"
     /\ phase[w] = "Running"
     /\ \A u \in WorkflowTasks(w) :
          workflows[w].tasks[u].name \in workflows[w].tasks[t].dependencies
            => status[w][u] = "succeeded"
  \/ status[w][t] = "running" /\ status'[w][t] = "failed"
  \/ /\ status[w][t] = "running" /\ status'[w][t] = "succeeded"
     /\ executeTask(workflows[w].tasks[t], workflows[w].allowScript)

\* Such a step keeps the invariant.
LEMMA WorkflowStep ==
  ASSUME IInv, NEW w \in DOMAIN workflows, Elsewhere(w), PhaseMoves(w),
         status'[w] \in [WorkflowTasks(w) -> {"pending", "running", "succeeded", "failed"}],
         \A t \in WorkflowTasks(w) : TaskMoves(w, t)
  PROVE  IInv'
PROOF
<1> USE DEF Elsewhere, PhaseMoves, TaskMoves
<1>1. TypeOK /\ VettedInv /\ HandedInv /\ OrderInv /\ RunInv /\ NamesInv
  BY DEF IInv
<1>2. /\ \A v : WorkflowTasks(v)' = WorkflowTasks(v) /\ (WellFormed(v) => WellFormed(v)')
      /\ \A v, n : Named(v, n)' = Named(v, n)
  BY SameWorkflow
<1>3. TypeOK'
  <2>1. ASSUME NEW v \in DOMAIN workflows
        PROVE  /\ GetWorkflowStatus(v)' \in {"unknown", "Running", "Error", "Failed", "Succeeded"}
               /\ status'[v] \in [WorkflowTasks(v) ->
                                   {"pending", "running", "succeeded", "failed"}]
    <3>1. CASE v # w
      BY <1>1, <3>1 DEF TypeOK, GetWorkflowStatus
    <3>2. CASE v = w
      BY <1>1, <3>2 DEF TypeOK, GetWorkflowStatus
    <3> QED
      BY <3>1, <3>2
  <2>2. \A v \in DOMAIN workflows' :
          /\ GetWorkflowStatus(v)' \in {"unknown", "Running", "Error", "Failed", "Succeeded"}
          /\ status'[v] \in [WorkflowTasks(v)' ->
                              {"pending", "running", "succeeded", "failed"}]
    BY <1>2, <2>1
  <2>3. /\ UNCHANGED << policy, inCluster, now, stage, name, workflows, made >>
        /\ unlucky' \subseteq Plan
        /\ DOMAIN phase' = DOMAIN workflows' /\ DOMAIN status' = DOMAIN workflows'
    BY <1>1 DEF TypeOK
  <2> HIDE DEF Elsewhere, PhaseMoves, TaskMoves
  <2> QED
    BY <1>1, <2>2, <2>3 DEF TypeOK
<1>4. VettedInv'
  BY <1>1 DEF VettedInv, ValidateDAG, HasEngine, allow_dag, deny_prod_autoremediation,
              deny_forbidden_tools, deny_missing_approval, InputTasks, InputIsProd
<1>5. HandedInv'
  BY <1>1 DEF HandedInv, Created, dagToWorkflow
<1>6. NamesInv'
  BY <1>1 DEF NamesInv, Created
<1>7. ASSUME NEW v \in DOMAIN workflows
      PROVE  /\ phase'[v] \notin {"", "Error"} => WellFormed(v)
             /\ \A t \in WorkflowTasks(v) : status'[v][t] # "pending" =>
                  /\ phase'[v] \notin {"", "Error"}
                  /\ \A n \in workflows[v].tasks[t].dependencies :
                       \E u \in Named(v, n) : status'[v][u] = "succeeded"
  <2>1. CASE v # w
    <3>1. phase'[v] = phase[v] /\ status'[v] = status[v]
      BY <2>1
    <3>2. /\ phase[v] \notin {"", "Error"} => WellFormed(v)
          /\ \A t \in WorkflowTasks(v) : status[v][t] # "pending" =>
               /\ phase[v] \notin {"", "Error"}
               /\ \A n \in workflows[v].tasks[t].dependencies :
                    \E u \in Named(v, n) : status[v][u] = "succeeded"
      BY <1>1 DEF OrderInv
    <3> QED
      BY <3>1, <3>2
  <2>2. CASE v = w
    <3>1. phase'[w] \notin {"", "Error"} => WellFormed(w)
      BY <1>1 DEF OrderInv
    <3>2. \A u \in WorkflowTasks(w) : status[w][u] = "succeeded" => status'[w][u] = "succeeded"
      OBVIOUS
    <3>3. \A n : \A u \in Named(w, n) : u \in WorkflowTasks(w)
      BY DEF Named
    <3>4. phase[w] \notin {"", "Error"} => phase'[w] \notin {"", "Error"}
      OBVIOUS
    <3>5. ASSUME NEW t \in WorkflowTasks(w), status'[w][t] # "pending",
                 status[w][t] # "pending"
          PROVE  /\ phase'[w] \notin {"", "Error"}
                 /\ \A n \in workflows[w].tasks[t].dependencies :
                      \E u \in Named(w, n) : status'[w][u] = "succeeded"
      <4>1. /\ phase[w] \notin {"", "Error"}
            /\ \A n \in workflows[w].tasks[t].dependencies :
                 \E u \in Named(w, n) : status[w][u] = "succeeded"
        BY <1>1, <3>5 DEF OrderInv
      <4> QED
        BY <3>2, <3>3, <3>4, <4>1
    <3>6. ASSUME NEW t \in WorkflowTasks(w), status'[w][t] # "pending",
                 status[w][t] = "pending"
          PROVE  /\ phase'[w] \notin {"", "Error"}
                 /\ \A n \in workflows[w].tasks[t].dependencies :
                      \E u \in Named(w, n) : status'[w][u] = "succeeded"
      <4>1. /\ phase[w] = "Running"
            /\ \A u \in WorkflowTasks(w) :
                 workflows[w].tasks[u].name \in workflows[w].tasks[t].dependencies
                   => status[w][u] = "succeeded"
        BY <3>6
      <4>2. WellFormed(w)
        BY <1>1, <4>1 DEF OrderInv
      <4>3. \A n \in workflows[w].tasks[t].dependencies : Named(w, n) # {}
        BY <4>2 DEF WellFormed, WorkflowTasks
      <4>4. \A n : \A u \in Named(w, n) : workflows[w].tasks[u].name = n
        BY DEF Named
      <4>5. ASSUME NEW n \in workflows[w].tasks[t].dependencies
            PROVE  \E u \in Named(w, n) : status'[w][u] = "succeeded"
        <5>1. PICK u \in Named(w, n) : workflows[w].tasks[u].name = n
          BY <4>3, <4>4
        <5> QED
          BY <3>2, <3>3, <4>1, <5>1
      <4> QED
        BY <3>4, <4>1, <4>5
    <3> QED
      BY <2>2, <3>1, <3>5, <3>6
  <2> QED
    BY <2>1, <2>2
<1>8. ASSUME NEW v \in DOMAIN workflows, NEW t \in WorkflowTasks(v),
             status'[v][t] = "succeeded"
      PROVE  executeTask(workflows[v].tasks[t], workflows[v].allowScript)
  <2>1. CASE v # w
    BY <1>1, <1>8, <2>1 DEF RunInv
  <2>2. CASE v = w
    BY <1>1, <1>8, <2>2 DEF RunInv
  <2> QED
    BY <2>1, <2>2
<1>9. OrderInv'
  <2> SUFFICES ASSUME NEW v \in DOMAIN workflows'
               PROVE  /\ phase'[v] \notin {"", "Error"} => WellFormed(v)'
                      /\ \A t \in WorkflowTasks(v)' : status'[v][t] # "pending" =>
                           /\ phase'[v] \notin {"", "Error"}
                           /\ \A n \in workflows'[v].tasks[t].dependencies :
                                \E u \in Named(v, n)' : status'[v][u] = "succeeded"
    BY DEF OrderInv
  <2> QED
    BY <1>2, <1>7
<1>10. RunInv'
  <2> SUFFICES ASSUME NEW v \in DOMAIN workflows', NEW t \in WorkflowTasks(v)',
                      status'[v][t] = "succeeded"
               PROVE  executeTask(workflows'[v].tasks[t], workflows'[v].allowScript)
    BY DEF RunInv, executeTask, executeKubectl, executeHelm, executeHTTP, executeScript,
           executeWait, String
  <2> QED
    BY <1>2, <1>8
<1> QED
  BY <1>3, <1>4, <1>5, <1>6, <1>9, <1>10 DEF IInv

-----------------------------------------------------------------------------
\* There is no workflow at the start.
LEMMA InitInv == Init => IInv
PROOF
<1> SUFFICES ASSUME Init PROVE IInv
  OBVIOUS
<1>1. \A p \in Plan : stage[p] = "planned"
  BY DEF Init
<1>2. DOMAIN workflows = {} /\ DOMAIN phase = {} /\ DOMAIN status = {}
  BY DEF Init
<1>3. {p \in Plan : stage[p] = "created"} = {}
  BY <1>1
<1>4. now \in 0 .. MaxSeconds
  BY RemediationAssumption DEF Init, RemediationAssumption
<1>5. TypeOK
  BY <1>1, <1>2, <1>3, <1>4 DEF Init, TypeOK
<1> QED
  BY <1>1, <1>2, <1>5 DEF IInv, VettedInv, HandedInv, OrderInv, RunInv, NamesInv, Created

\* What a plan is refused for.
Refused ==
  \A p \in Plan :
    stage'[p] = "refused" /\ stage[p] # "refused" => Dag[p].incident \in made

\* A name in use has the second in which it was made, so that only one made in the
\* present second refuses a plan.
LEMMA RefusedStep == ASSUME IInv, NEW p \in Plan, CreateRefused(p) PROVE Refused
PROOF
<1>1. TypeOK /\ NamesInv
  BY DEF IInv
<1>2. WorkflowName(p) \in DOMAIN workflows /\ stage' = [stage EXCEPT ![p] = "refused"]
  BY DEF CreateRefused
<1>3. PICK q \in Plan : Created(q) /\ name[q] = WorkflowName(p)
  BY <1>1, <1>2 DEF TypeOK, Created
<1>4. PICK k \in 0 .. now : /\ name[q] = << Dag[q].incident, k >>
                            /\ k = now => Dag[q].incident \in made
  BY <1>1, <1>3 DEF NamesInv
<1>5. Dag[q].incident = Dag[p].incident /\ k = now
  BY <1>3, <1>4 DEF WorkflowName
<1>6. \A r \in Plan : r # p => stage'[r] = stage[r]
  BY <1>1, <1>2 DEF TypeOK
<1> QED
  BY <1>4, <1>5, <1>6 DEF Refused

\* Each step keeps the invariant and refuses a plan for that reason only.
LEMMA NextStep == IInv /\ [Next]_vars => IInv' /\ Refused
PROOF
<1> SUFFICES ASSUME IInv, [Next]_vars PROVE IInv' /\ Refused
  OBVIOUS
<1> USE DEF config, cluster
<1>1. TypeOK /\ VettedInv /\ HandedInv /\ OrderInv /\ RunInv /\ NamesInv
  BY DEF IInv
<1>2. stage' = stage => Refused
  BY DEF Refused
<1>3. CASE Tick
  <2>1. now \in 0 .. MaxSeconds /\ MaxSeconds \in Nat
    BY <1>1, RemediationAssumption DEF TypeOK, RemediationAssumption
  <2>2. now' = now + 1 /\ now' <= MaxSeconds /\ made' = {}
    BY <1>3, <2>1 DEF Tick
  <2>3. /\ UNCHANGED << policy, inCluster, name, workflows, phase, status, unlucky >>
        /\ stage' = stage
    BY <1>3 DEF Tick
  <2>4. IInv'
    BY <1>1, <2>2, <2>3, EngineStep DEF TypeOK
  <2> QED
    BY <1>2, <2>3, <2>4
<1>4. ASSUME NEW p \in Plan, NEW s \in {"vetted", "denied", "logged", "refused", "failed"},
             stage[p] \in {"planned", "vetted"}, s = "vetted" => ValidateDAG(p),
             stage' = [stage EXCEPT ![p] = s],
             UNCHANGED << policy, inCluster, now, made, name, workflows, phase, status,
                          unlucky >>
      PROVE  IInv' /\ (s # "refused" => Refused)
  <2>1. /\ stage' \in [Plan -> {"planned", "vetted", "denied", "logged", "created",
                                "refused", "failed"}]
        /\ \A q \in Plan : stage'[q] = IF q = p THEN s ELSE stage[q]
    BY <1>1, <1>4 DEF TypeOK
  <2>2. IInv'
    BY <1>4, <2>1, EngineStep
  <2> QED
    BY <2>1, <2>2 DEF Refused
<1>5. ASSUME NEW p \in Plan, Vetted(p) PROVE IInv' /\ Refused
  <2>1. CASE ValidateDAG(p)
    BY <1>4, <1>5, <2>1 DEF Vetted
  <2>2. CASE ~ValidateDAG(p)
    BY <1>4, <1>5, <2>2 DEF Vetted
  <2> QED
    BY <2>1, <2>2
<1>6. ASSUME NEW p \in Plan, CreateLogged(p) PROVE IInv' /\ Refused
  BY <1>4, <1>6 DEF CreateLogged
<1>7. ASSUME NEW p \in Plan, CreateWorkflowForDAG(p) PROVE IInv' /\ Refused
  <2>1. \A q \in Plan : stage'[q] = IF q = p THEN "created" ELSE stage[q]
    BY <1>1, <1>7 DEF TypeOK, CreateWorkflowForDAG
  <2> QED
    BY <1>7, <2>1, CreateStep DEF Refused
<1>8. ASSUME NEW p \in Plan, CreateRefused(p) PROVE IInv' /\ Refused
  <2>1. IInv'
    BY <1>4, <1>8 DEF CreateRefused
  <2> QED
    BY <1>8, <2>1, RefusedStep
<1>9. ASSUME NEW p \in Plan, CreateFails(p) PROVE IInv' /\ Refused
  BY <1>4, <1>9 DEF CreateFails
<1>10. ASSUME NEW w \in DOMAIN workflows
       PROVE  /\ w \in DOMAIN phase /\ w \in DOMAIN status
              /\ status[w] \in [WorkflowTasks(w) ->
                                 {"pending", "running", "succeeded", "failed"}]
              /\ unlucky \subseteq Plan
  BY <1>1 DEF TypeOK
<1>11. ASSUME NEW w \in DOMAIN workflows, Accept(w) PROVE IInv' /\ Refused
  <2>1. /\ UNCHANGED << policy, inCluster, now, stage, name, workflows, status, made, unlucky >>
        /\ DOMAIN phase' = DOMAIN phase
        /\ \A v \in DOMAIN workflows : v # w => phase'[v] = phase[v]
        /\ phase[w] = "" /\ phase'[w] = (IF WellFormed(w) THEN "Running" ELSE "Error")
    BY <1>1, <1>10, <1>11 DEF Accept, TypeOK
  <2>2. Elsewhere(w) /\ PhaseMoves(w) /\ \A t \in WorkflowTasks(w) : TaskMoves(w, t)
    BY <1>10, <2>1 DEF Elsewhere, PhaseMoves, TaskMoves
  <2>3. IInv'
    BY <1>10, <2>1, <2>2, WorkflowStep
  <2> QED
    BY <1>2, <2>1, <2>3
<1>12. ASSUME NEW w \in DOMAIN workflows, Complete(w) PROVE IInv' /\ Refused
  <2>1. /\ UNCHANGED << policy, inCluster, now, stage, name, workflows, status, made, unlucky >>
        /\ DOMAIN phase' = DOMAIN phase
        /\ \A v \in DOMAIN workflows : v # w => phase'[v] = phase[v]
        /\ phase[w] = "Running" /\ phase'[w] \in {"Failed", "Succeeded"}
    BY <1>1, <1>10, <1>12 DEF Complete, TypeOK
  <2>2. Elsewhere(w) /\ PhaseMoves(w) /\ \A t \in WorkflowTasks(w) : TaskMoves(w, t)
    BY <1>10, <2>1 DEF Elsewhere, PhaseMoves, TaskMoves
  <2>3. IInv'
    BY <1>10, <2>1, <2>2, WorkflowStep
  <2> QED
    BY <1>2, <2>1, <2>3
<1>13. ASSUME NEW w \in DOMAIN workflows, NEW t \in WorkflowTasks(w),
              NEW s \in {"running", "succeeded", "failed"}, Is(w, t, s)
       PROVE  /\ DOMAIN status' = DOMAIN status
              /\ \A v \in DOMAIN workflows : v # w => status'[v] = status[v]
              /\ status'[w] \in [WorkflowTasks(w) ->
                                  {"pending", "running", "succeeded", "failed"}]
              /\ \A u \in WorkflowTasks(w) :
                   status'[w][u] = IF u = t THEN s ELSE status[w][u]
  <2>1. \A v \in DOMAIN workflows : v \in DOMAIN status
    BY <1>1 DEF TypeOK
  <2> QED
    BY <1>10, <1>13, <2>1 DEF Is
<1>14. ASSUME NEW w \in DOMAIN workflows, NEW t \in WorkflowTasks(w), Start(w, t)
       PROVE  IInv' /\ Refused
  <2>1. /\ UNCHANGED << policy, inCluster, now, stage, name, workflows, phase, made, unlucky >>
        /\ phase[w] = "Running" /\ status[w][t] = "pending" /\ Is(w, t, "running")
        /\ \A u \in WorkflowTasks(w) :
             workflows[w].tasks[u].name \in workflows[w].tasks[t].dependencies
               => status[w][u] = "succeeded"
    BY <1>14 DEF Start
  <2>2. /\ Elsewhere(w) /\ PhaseMoves(w) /\ \A u \in WorkflowTasks(w) : TaskMoves(w, u)
        /\ status'[w] \in [WorkflowTasks(w) ->
                            {"pending", "running", "succeeded", "failed"}]
    BY <1>10, <1>13, <2>1 DEF Elsewhere, PhaseMoves, TaskMoves
  <2>3. IInv'
    BY <2>2, WorkflowStep
  <2> QED
    BY <1>2, <2>1, <2>3
<1>15. ASSUME NEW w \in DOMAIN workflows, NEW t \in WorkflowTasks(w), PodEnds(w, t)
       PROVE  IInv' /\ Refused
  <2>1. /\ UNCHANGED << policy, inCluster, now, stage, name, workflows, phase, made, unlucky >>
        /\ status[w][t] = "running"
        /\ \/ /\ Is(w, t, "succeeded")
              /\ executeTask(workflows[w].tasks[t], workflows[w].allowScript)
           \/ Is(w, t, "failed")
    BY <1>15 DEF PodEnds
  <2>2. /\ Elsewhere(w) /\ PhaseMoves(w) /\ \A u \in WorkflowTasks(w) : TaskMoves(w, u)
        /\ status'[w] \in [WorkflowTasks(w) ->
                            {"pending", "running", "succeeded", "failed"}]
    BY <1>10, <1>13, <2>1 DEF Elsewhere, PhaseMoves, TaskMoves
  <2>3. IInv'
    BY <2>2, WorkflowStep
  <2> QED
    BY <1>2, <2>1, <2>3
<1>16. ASSUME NEW w \in DOMAIN workflows, NEW t \in WorkflowTasks(w), PodLost(w, t)
       PROVE  IInv' /\ Refused
  <2>1. /\ UNCHANGED << policy, inCluster, now, stage, name, workflows, phase, made >>
        /\ unlucky' \subseteq Plan
        /\ status[w][t] = "running" /\ Is(w, t, "failed")
    BY <1>10, <1>16 DEF PodLost
  <2>2. /\ Elsewhere(w) /\ PhaseMoves(w) /\ \A u \in WorkflowTasks(w) : TaskMoves(w, u)
        /\ status'[w] \in [WorkflowTasks(w) ->
                            {"pending", "running", "succeeded", "failed"}]
    BY <1>10, <1>13, <2>1 DEF Elsewhere, PhaseMoves, TaskMoves
  <2>3. IInv'
    BY <2>2, WorkflowStep
  <2> QED
    BY <1>2, <2>1, <2>3
<1>17. CASE UNCHANGED vars
  <2>1. /\ UNCHANGED << policy, inCluster, now, made, name, workflows, phase, status,
                        unlucky >>
        /\ stage' = stage
    BY <1>17 DEF vars
  <2>2. IInv'
    BY <1>1, <2>1, EngineStep DEF TypeOK
  <2> QED
    BY <1>2, <2>1, <2>2
<1> QED
  BY <1>3, <1>5, <1>6, <1>7, <1>8, <1>9, <1>11, <1>12, <1>14, <1>15, <1>16, <1>17
  DEF Next, Engine, Controller

-----------------------------------------------------------------------------
\* Every variable keeps its type and every plan that was created has a workflow of
\* its own.
THEOREM Typing == Spec => []TypeOK
PROOF
<1>1. IInv => TypeOK
  BY DEF IInv
<1> QED
  BY <1>1, InitInv, NextStep, PTL DEF Spec

\* The task of a plan, as its workflow has it.
LEMMA TaskOfPlan ==
  ASSUME IInv, NEW p \in Plan, Created(p), NEW t \in Tasks(p)
  PROVE  /\ name[p] \in DOMAIN workflows /\ WorkflowTasks(name[p]) = Tasks(p)
         /\ workflows[name[p]].tasks[t].name = Task(p, t).id
         /\ workflows[name[p]].tasks[t].tool = Task(p, t).tool
         /\ workflows[name[p]].tasks[t].dependencies = Task(p, t).runAfter
         /\ workflows[name[p]].allowScript = FALSE
PROOF
<1>1. workflows[name[p]] = dagToWorkflow(p)
  BY DEF IInv, HandedInv
<1>2. name[p] \in DOMAIN workflows
  BY CreatedHaveWorkflows DEF IInv
<1> QED
  BY <1>1, <1>2 DEF dagToWorkflow, WorkflowTasks

\* No task starts before those its plan says it runs after have succeeded: the
\* dependencies get through the client, and the controller waits for them.
THEOREM OrderKept == Spec => []DependenciesFirst
PROOF
<1>1. IInv => DependenciesFirst
  <2> SUFFICES ASSUME IInv, NEW p \in Plan, NEW t \in Tasks(p), Started(p, t),
                      NEW n \in Task(p, t).runAfter
               PROVE  \E u \in Tasks(p) : Task(p, u).id = n /\ Succeeded(p, u)
    BY DEF DependenciesFirst
  <2>1. Created(p) /\ status[name[p]][t] # "pending"
    BY DEF Started
  <2>2. /\ name[p] \in DOMAIN workflows /\ WorkflowTasks(name[p]) = Tasks(p)
        /\ \A u \in Tasks(p) : workflows[name[p]].tasks[u].name = Task(p, u).id
        /\ workflows[name[p]].tasks[t].dependencies = Task(p, t).runAfter
    <3>1. ASSUME NEW u \in Tasks(p)
          PROVE  /\ workflows[name[p]].tasks[u].name = Task(p, u).id
                 /\ workflows[name[p]].tasks[u].dependencies = Task(p, u).runAfter
      BY <2>1, TaskOfPlan, Zenon
    <3>2. name[p] \in DOMAIN workflows /\ WorkflowTasks(name[p]) = Tasks(p)
      BY <2>1, TaskOfPlan, Zenon
    <3> QED
      BY <3>1, <3>2
  <2>3. PICK u \in Named(name[p], n) : status[name[p]][u] = "succeeded"
    BY <2>1, <2>2 DEF IInv, OrderInv
  <2> QED
    BY <2>1, <2>2, <2>3 DEF Named, Succeeded
<1> QED
  BY <1>1, InitInv, NextStep, PTL DEF Spec

\* With a policy that compiles and names its input as it is, nothing runs of a plan
\* that it forbids.
THEOREM PolicyIsKept == Spec => []PolicyHolds
PROOF
<1>1. IInv => PolicyHolds
  <2> SUFFICES ASSUME IInv, HasEngine, policy.names = "json",
                      NEW p \in Plan, NEW t \in Tasks(p), Started(p, t),
                      NEW u \in Tasks(p)
               PROVE  /\ Task(p, u).tool \notin forbidden_tools
                      /\ Dag[p].environment = "prod" => Task(p, u).approved
    BY DEF PolicyHolds
  <2>1. allow_dag(p)
    BY DEF IInv, VettedInv, ValidateDAG, Started, Created
  <2> QED
    BY <2>1 DEF allow_dag, deny_forbidden_tools, deny_prod_autoremediation, InputTasks,
                InputIsProd
<1> QED
  BY <1>1, InitInv, NextStep, PTL DEF Spec

\* Whatever the policy, no script and no tool but the runner's four ever succeeds.
THEOREM OnlyRunnerTools == Spec => []OnlyRunnerToolsSucceed
PROOF
<1>1. IInv => OnlyRunnerToolsSucceed
  <2> SUFFICES ASSUME IInv, NEW p \in Plan, NEW t \in Tasks(p), Succeeded(p, t)
               PROVE  Task(p, t).tool \in RunnerTools
    BY DEF OnlyRunnerToolsSucceed
  <2>1. Created(p) /\ status[name[p]][t] = "succeeded"
    BY DEF Succeeded
  <2>2. /\ name[p] \in DOMAIN workflows /\ t \in WorkflowTasks(name[p])
        /\ workflows[name[p]].tasks[t].tool = Task(p, t).tool
        /\ workflows[name[p]].allowScript = FALSE
    BY <2>1, TaskOfPlan, Zenon
  <2>3. executeTask(workflows[name[p]].tasks[t], workflows[name[p]].allowScript)
    BY <2>1, <2>2 DEF IInv, RunInv
  <2> QED
    BY <2>2, <2>3 DEF executeTask, executeScript, RunnerTools
<1> QED
  BY <1>1, InitInv, NextStep, PTL DEF Spec

\* A plan is refused for its name only if one for its incident was made in the same
\* second.
THEOREM RefusedInTime == Spec => RefusedWithinASecond
PROOF
<1>1. IInv /\ [Next]_vars => [Refused]_vars
  BY NextStep
<1> QED
  BY <1>1, InitInv, NextStep, PTL DEF Spec, RefusedWithinASecond, Refused
=============================================================================

------------------------- MODULE InvestigationProofs -------------------------
(***************************************************************************)
(* Proofs about Investigation, for any set of incidents, any plans kagent  *)
(* may answer with and any number of rounds.                               *)
(*                                                                         *)
(* NoLateWorkflow and OnlyVettedPlansRun are not inductive: each is about  *)
(* what one step, CreateSent, finds when it is taken, and depends on all   *)
(* the steps that lead to it.  Nor is ChannelHearsTheOutcome, which is     *)
(* about the end of an investigation.  The invariants below say what holds *)
(* at each step of one.                                                    *)
(***************************************************************************)
EXTENDS Investigation, TLAPS

\* The plan at hand was allowed, from the policy's answer to the request.
VetInv ==
  (config.policy /\ ~denied /\ pc \in {"rca", "create"}) => << cur, plan.dag >> \in vetted

\* A request for a workflow is made for a confident plan that was not denied.
DeniedInv == pc = "create" => ~denied /\ plan.confident

\* A call that began after the cancellation finds the loop cancelled; a request
\* under way then is the one the cancellation met, and has not succeeded yet.
LateInv ==
  /\ doomed => cancelled
  /\ ~cancelled => (late = 0 /\ ~requesting)
  /\ (CreateSent /\ cancelled) => (requesting /\ late = 0)
  /\ NoLateWorkflow

\* A workflow was made only for the plan at hand, and nothing is denied or asked
\* for after it: the loop is at the message that says it failed, or done.
MadeInv ==
  made =>
    /\ plan # NoPlan /\ plan.confident /\ ~denied /\ "rejection" \notin told
    /\ config.policy => << cur, plan.dag >> \in vetted
    /\ pc \notin {"read", "ask", "policy", "rca", "rejection", "create"}

\* What the channel can have been told at each step, and what it must have been
\* told unless a message was lost.
ToldInv ==
  config.slack =>
    /\ pc \in {"read", "ask"} => told = {} /\ plan = NoPlan /\ ~denied
    /\ pc = "policy" => told = {} /\ ~denied
    /\ pc = "rca" => told = {}
    /\ pc = "rejection" => denied /\ told \subseteq {"rca"} /\ (~unheard => told = {"rca"})
    /\ pc \in {"create", "failure"} =>
         ~denied /\ told \subseteq {"rca"} /\ (~unheard => told = {"rca"})
    /\ (pc \in {"select", "list", "next"} /\ plan # NoPlan) =>
         /\ "rejection" \in told => denied /\ ~made
         /\ "failure" \in told => ~denied
         /\ ~unheard /\ denied => told = {"rca", "rejection"}
         /\ ~unheard /\ ~denied /\ plan.confident /\ config.argo /\ ~made
              => told = {"rca", "failure"}

IInv == TypeOK /\ VetInv /\ DeniedInv /\ LateInv /\ MadeInv /\ ToldInv

-----------------------------------------------------------------------------
\* Every variable keeps its type.
LEMMA TypeStep == TypeOK /\ [Next]_vars => TypeOK'
PROOF
<1> SUFFICES ASSUME TypeOK, [Next]_vars PROVE TypeOK'
  OBVIOUS
<1> USE DEF TypeOK, Call, Goto, stopping, locals, channel, cluster, Posting
<1>1. CASE UNCHANGED vars
  BY <1>1 DEF vars
<1>2. CASE Arrive
  BY <1>2 DEF Arrive
<1>3. CASE Cancel
  BY <1>3 DEF Cancel
<1>4. CASE Exit \/ ServerFails
  <2>1. CASE Exit
    BY <2>1 DEF Exit, Leave
  <2>2. CASE ServerFails
    BY <2>2 DEF ServerFails, Leave
  <2> QED
    BY <1>4, <2>1, <2>2
<1>5. ASSUME NEW reached \in BOOLEAN, Posted(reached), reached => config.slack PROVE TypeOK'
  <2>1. told' \subseteq Posting /\ (~config.slack => told' = {} /\ ~unheard')
    BY <1>5 DEF Posted
  <2>2. pc' \in {"rejection", "create", "next"} /\ (pc' = "create" => pc = "rca")
    BY <1>5 DEF Posted, AfterPost
  <2> QED
    BY <1>5, <2>1, <2>2 DEF Posted
<1>6. CASE WorkflowCreated
  BY <1>6 DEF WorkflowCreated, CreateSent, Plan
<1>7. CASE CreateRefused \/ CreateAborted \/ CreateLogged
  <2>1. CASE CreateRefused
    BY <2>1 DEF CreateRefused, CreateFails
  <2>2. CASE CreateAborted
    BY <2>2 DEF CreateAborted, CreateFails
  <2>3. CASE CreateLogged
    BY <2>3 DEF CreateLogged
  <2> QED
    BY <1>7, <2>1, <2>2, <2>3
<1>8. CASE Wake \/ Stop \/ ListSucceeds \/ EndRound
  <2>1. CASE Wake
    BY <2>1 DEF Wake
  <2>2. CASE Stop
    BY <2>2 DEF Stop
  <2>3. CASE ListSucceeds
    BY <2>3 DEF ListSucceeds
  <2>4. CASE EndRound
    BY <2>4 DEF EndRound
  <2> QED
    BY <1>8, <2>1, <2>2, <2>3, <2>4
<1>9. CASE Begin
  <2>1. PICK i \in todo : cur' = i /\ todo' = todo \ {i}
    BY <1>9 DEF Begin
  <2> QED
    BY <1>9, <2>1 DEF Begin
<1>10. CASE ReadSucceeds \/ ReadFails
  <2>1. CASE ReadSucceeds
    BY <2>1 DEF ReadSucceeds
  <2>2. CASE ReadFails
    BY <2>2 DEF ReadFails
  <2> QED
    BY <1>10, <2>1, <2>2
<1>11. CASE AskAnswered \/ AskFails
  <2>1. CASE AskAnswered
    BY <2>1 DEF AskAnswered
  <2>2. CASE AskFails
    BY <2>2 DEF AskFails
  <2> QED
    BY <1>11, <2>1, <2>2
<1>12. CASE PolicyAllows
  <2>1. << cur, plan.dag >> \in Incident \X Dag
    BY <1>12 DEF PolicyAllows, Plan
  <2> QED
    BY <1>12, <2>1 DEF PolicyAllows
<1>14. CASE PolicyDenies
  BY <1>14 DEF PolicyDenies
<1>13. CASE PostAnswered \/ PostAborted \/ PostSkipped
  BY <1>5, <1>13 DEF PostAnswered, PostAborted, PostSkipped
<1> QED
  BY <1>1, <1>2, <1>3, <1>4, <1>6, <1>7, <1>8, <1>9, <1>10, <1>11,
     <1>12, <1>13, <1>14 DEF Next, Answered, Step

\* From the policy's answer to the request the plan at hand stays the allowed one.
LEMMA VetStep == TypeOK /\ VetInv /\ DeniedInv /\ [Next]_vars => VetInv' /\ DeniedInv'
PROOF
<1> SUFFICES ASSUME TypeOK, VetInv, DeniedInv, [Next]_vars PROVE VetInv' /\ DeniedInv'
  OBVIOUS
<1> USE DEF VetInv, DeniedInv, Call, Goto, stopping, locals, channel, cluster
<1>1. CASE UNCHANGED vars
  BY <1>1 DEF vars
<1>2. CASE Arrive \/ Cancel \/ Exit \/ ServerFails
  <2>1. CASE Arrive
    BY <2>1 DEF Arrive
  <2>2. CASE Cancel
    BY <2>2 DEF Cancel
  <2>3. CASE Exit
    BY <2>3 DEF Exit, Leave
  <2>4. CASE ServerFails
    BY <2>4 DEF ServerFails, Leave
  <2> QED
    BY <1>2, <2>1, <2>2, <2>3, <2>4
<1>3. ASSUME NEW reached \in BOOLEAN, Posted(reached) PROVE VetInv' /\ DeniedInv'
  <2>1. /\ pc' \in {"rejection", "create", "next"}
        /\ pc' = "create" => pc = "rca" /\ ~denied /\ plan.confident
    BY <1>3 DEF Posted, AfterPost
  <2> QED
    BY <1>3, <2>1 DEF Posted
<1>4. CASE WorkflowCreated
  BY <1>4 DEF WorkflowCreated
<1>5. CASE CreateRefused \/ CreateAborted \/ CreateLogged
  <2>1. CASE CreateRefused
    BY <2>1 DEF CreateRefused, CreateFails
  <2>2. CASE CreateAborted
    BY <2>2 DEF CreateAborted, CreateFails
  <2>3. CASE CreateLogged
    BY <2>3 DEF CreateLogged
  <2> QED
    BY <1>5, <2>1, <2>2, <2>3
<1>6. CASE Wake \/ Stop \/ ListSucceeds \/ EndRound \/ Begin
  <2>1. CASE Wake
    BY <2>1 DEF Wake
  <2>2. CASE Stop
    BY <2>2 DEF Stop
  <2>3. CASE ListSucceeds
    BY <2>3 DEF ListSucceeds
  <2>4. CASE EndRound
    BY <2>4 DEF EndRound
  <2>5. CASE Begin
    BY <2>5 DEF Begin
  <2> QED
    BY <1>6, <2>1, <2>2, <2>3, <2>4, <2>5
<1>7. CASE ReadSucceeds \/ ReadFails \/ AskFails
  <2>1. CASE ReadSucceeds
    BY <2>1 DEF ReadSucceeds
  <2>2. CASE ReadFails
    BY <2>2 DEF ReadFails
  <2>3. CASE AskFails
    BY <2>3 DEF AskFails
  <2> QED
    BY <1>7, <2>1, <2>2, <2>3
<1>8. CASE AskAnswered
  BY <1>8 DEF AskAnswered
<1>9. CASE PolicyAllows \/ PolicyDenies
  <2>1. CASE PolicyAllows
    BY <2>1 DEF PolicyAllows
  <2>2. CASE PolicyDenies
    BY <2>2 DEF PolicyDenies
  <2> QED
    BY <1>9, <2>1, <2>2
<1>10. CASE PostAnswered \/ PostAborted \/ PostSkipped
  BY <1>3, <1>10 DEF PostAnswered, PostAborted, PostSkipped
<1> QED
  BY <1>1, <1>2, <1>4, <1>5, <1>6, <1>7, <1>8, <1>9, <1>10 DEF Next, Answered, Step

\* What this investigation made is for the plan at hand, and the last it does.
LEMMA MadeStep ==
  TypeOK /\ VetInv /\ DeniedInv /\ ToldInv /\ MadeInv /\ [Next]_vars => MadeInv'
PROOF
<1> SUFFICES ASSUME TypeOK, VetInv, DeniedInv, ToldInv, MadeInv, [Next]_vars, made'
             PROVE  MadeInv'
  BY DEF MadeInv
<1> USE DEF MadeInv, Call, Goto, stopping, locals, channel, cluster
<1>1. CASE UNCHANGED vars
  BY <1>1 DEF vars
<1>2. CASE Arrive \/ Cancel \/ Exit \/ ServerFails
  <2>1. CASE Arrive
    BY <2>1 DEF Arrive
  <2>2. CASE Cancel
    BY <2>2 DEF Cancel
  <2>3. CASE Exit
    BY <2>3 DEF Exit, Leave
  <2>4. CASE ServerFails
    BY <2>4 DEF ServerFails, Leave
  <2> QED
    BY <1>2, <2>1, <2>2, <2>3, <2>4
<1>3. ASSUME NEW reached \in BOOLEAN, Posted(reached) PROVE MadeInv'
  <2>1. made /\ pc = "failure"
    BY <1>3 DEF Posted, Posting
  <2>2. pc' = "next" /\ told' \subseteq told \cup {"failure"}
    BY <1>3, <2>1 DEF Posted, AfterPost
  <2> QED
    BY <1>3, <2>1, <2>2 DEF Posted
<1>4. CASE WorkflowCreated
  <2>1. ~denied /\ plan.confident /\ (config.policy => << cur, plan.dag >> \in vetted)
    BY <1>4 DEF WorkflowCreated, CreateSent, VetInv, DeniedInv
  <2>2. plan # NoPlan
    BY <1>4, PlanAssumption DEF WorkflowCreated, CreateSent, TypeOK
  <2>3. "rejection" \notin told
    BY <1>4 DEF WorkflowCreated, CreateSent, ToldInv, TypeOK
  <2> QED
    BY <1>4, <2>1, <2>2, <2>3 DEF WorkflowCreated
<1>5. CASE CreateRefused \/ CreateAborted \/ CreateLogged
  <2>1. CASE CreateRefused
    BY <2>1 DEF CreateRefused, CreateFails
  <2>2. CASE CreateAborted
    BY <2>2 DEF CreateAborted, CreateFails
  <2>3. CASE CreateLogged
    BY <2>3 DEF CreateLogged
  <2> QED
    BY <1>5, <2>1, <2>2, <2>3
<1>6. CASE Wake \/ Stop \/ ListSucceeds \/ EndRound \/ Begin
  <2>1. CASE Wake
    BY <2>1 DEF Wake
  <2>2. CASE Stop
    BY <2>2 DEF Stop
  <2>3. CASE ListSucceeds
    BY <2>3 DEF ListSucceeds
  <2>4. CASE EndRound
    BY <2>4 DEF EndRound
  <2>5. CASE Begin
    BY <2>5 DEF Begin
  <2> QED
    BY <1>6, <2>1, <2>2, <2>3, <2>4, <2>5
<1>7. CASE ReadSucceeds \/ ReadFails \/ AskFails
  <2>1. CASE ReadSucceeds
    BY <2>1 DEF ReadSucceeds
  <2>2. CASE ReadFails
    BY <2>2 DEF ReadFails
  <2>3. CASE AskFails
    BY <2>3 DEF AskFails
  <2> QED
    BY <1>7, <2>1, <2>2, <2>3
<1>8. CASE AskAnswered
  BY <1>8 DEF AskAnswered
<1>9. CASE PolicyAllows \/ PolicyDenies
  <2>1. CASE PolicyAllows
    BY <2>1 DEF PolicyAllows
  <2>2. CASE PolicyDenies
    BY <2>2 DEF PolicyDenies
  <2> QED
    BY <1>9, <2>1, <2>2
<1>10. CASE PostAnswered \/ PostAborted \/ PostSkipped
  BY <1>3, <1>10 DEF PostAnswered, PostAborted, PostSkipped
<1> QED
  BY <1>1, <1>2, <1>4, <1>5, <1>6, <1>7, <1>8, <1>9, <1>10 DEF Next, Answered, Step

\* The only request a cancellation leaves is the one it met.
LEMMA LateStep == TypeOK /\ LateInv /\ [Next]_vars => LateInv'
PROOF
<1> SUFFICES ASSUME TypeOK, LateInv, [Next]_vars PROVE LateInv'
  OBVIOUS
<1> USE DEF LateInv, NoLateWorkflow, CreateSent, Call, Goto, stopping, locals, channel, cluster
<1> late \in Nat /\ cancelled \in BOOLEAN /\ doomed \in BOOLEAN /\ requesting \in BOOLEAN
  BY DEF TypeOK
<1>1. CASE UNCHANGED vars
  BY <1>1 DEF vars
<1>2. CASE Arrive \/ Exit \/ ServerFails
  <2>1. CASE Arrive
    BY <2>1 DEF Arrive
  <2>2. CASE Exit
    BY <2>2 DEF Exit, Leave
  <2>3. CASE ServerFails
    BY <2>3 DEF ServerFails, Leave
  <2> QED
    BY <1>2, <2>1, <2>2, <2>3
<1>3. CASE Cancel
  <2>1. /\ ~cancelled /\ late = 0 /\ late' = 0 /\ cancelled'
        /\ pc' = pc /\ config' = config /\ doomed' = doomed
    BY <1>3 DEF Cancel
  <2>2. CreateSent' => requesting'
    BY <1>3, <2>1, Zenon DEF Cancel
  <2>3. NoLateWorkflow'
    BY <2>1
  <2> QED
    BY <2>1, <2>2, <2>3
<1>4. ASSUME NEW reached \in BOOLEAN, Posted(reached) PROVE LateInv'
  BY <1>4 DEF Posted
<1>5. CASE WorkflowCreated
  BY <1>5 DEF WorkflowCreated
<1>6. CASE CreateRefused \/ CreateAborted \/ CreateLogged
  <2>1. CASE CreateRefused
    BY <2>1 DEF CreateRefused, CreateFails
  <2>2. CASE CreateAborted
    BY <2>2 DEF CreateAborted, CreateFails
  <2>3. CASE CreateLogged
    BY <2>3 DEF CreateLogged
  <2> QED
    BY <1>6, <2>1, <2>2, <2>3
<1>7. CASE Wake \/ Stop \/ ListSucceeds \/ EndRound \/ Begin
  <2>1. CASE Wake
    BY <2>1 DEF Wake
  <2>2. CASE Stop
    BY <2>2 DEF Stop
  <2>3. CASE ListSucceeds
    BY <2>3 DEF ListSucceeds
  <2>4. CASE EndRound
    BY <2>4 DEF EndRound
  <2>5. CASE Begin
    BY <2>5 DEF Begin
  <2> QED
    BY <1>7, <2>1, <2>2, <2>3, <2>4, <2>5
<1>8. CASE ReadSucceeds \/ ReadFails \/ AskFails \/ AskAnswered
  <2>1. CASE ReadSucceeds
    BY <2>1 DEF ReadSucceeds
  <2>2. CASE ReadFails
    BY <2>2 DEF ReadFails
  <2>3. CASE AskFails
    BY <2>3 DEF AskFails
  <2>4. CASE AskAnswered
    BY <2>4 DEF AskAnswered
  <2> QED
    BY <1>8, <2>1, <2>2, <2>3, <2>4
<1>9. CASE PolicyAllows \/ PolicyDenies
  <2>1. CASE PolicyAllows
    BY <2>1 DEF PolicyAllows
  <2>2. CASE PolicyDenies
    BY <2>2 DEF PolicyDenies
  <2> QED
    BY <1>9, <2>1, <2>2
<1>10. CASE PostAnswered \/ PostAborted \/ PostSkipped
  BY <1>4, <1>10 DEF PostAnswered, PostAborted, PostSkipped
<1> QED
  BY <1>1, <1>2, <1>3, <1>5, <1>6, <1>7, <1>8, <1>9, <1>10 DEF Next, Answered, Step

\* The channel hears of an investigation step by step.
LEMMA ToldStep == TypeOK /\ DeniedInv /\ MadeInv /\ ToldInv /\ [Next]_vars => ToldInv'
PROOF
<1> SUFFICES ASSUME TypeOK, DeniedInv, MadeInv, ToldInv, [Next]_vars, config'.slack
             PROVE  ToldInv'
  BY DEF ToldInv
<1> USE DEF ToldInv, Call, Goto, stopping, locals, channel, cluster
<1>1. CASE UNCHANGED vars
  BY <1>1 DEF vars
<1>2. CASE Arrive \/ Cancel \/ Exit \/ ServerFails
  <2>1. CASE Arrive
    BY <2>1 DEF Arrive
  <2>2. CASE Cancel
    BY <2>2 DEF Cancel
  <2>3. CASE Exit
    BY <2>3 DEF Exit, Leave
  <2>4. CASE ServerFails
    BY <2>4 DEF ServerFails, Leave
  <2> QED
    BY <1>2, <2>1, <2>2, <2>3, <2>4
<1>3. ASSUME NEW reached \in BOOLEAN, Posted(reached), config.slack PROVE ToldInv'
  <2>1. /\ told' = IF reached THEN told \cup {pc} ELSE told
        /\ unheard' = (unheard \/ ~reached)
        /\ UNCHANGED << config, plan, denied, made >>
    BY <1>3 DEF Posted
  <2>2. CASE pc = "rca"
    <3>1. told = {} /\ told' \subseteq {"rca"} /\ (~unheard' => told' = {"rca"})
      BY <1>3, <2>1, <2>2
    <3>2. /\ pc' \in {"rejection", "create", "next"}
          /\ pc' = "rejection" => denied
          /\ pc' = "create" => ~denied
          /\ pc' = "next" => ~denied /\ ~plan.confident
      BY <1>3, <2>2 DEF Posted, AfterPost
    <3> QED
      BY <2>1, <3>1, <3>2
  <2>3. CASE pc = "rejection"
    <3>1. denied /\ ~made /\ pc' = "next"
      BY <1>3, <2>3 DEF Posted, AfterPost, MadeInv
    <3>2. "failure" \notin told' /\ (~unheard' => told' = {"rca", "rejection"})
      BY <1>3, <2>1, <2>3
    <3> QED
      BY <2>1, <3>1, <3>2
  <2>4. CASE pc = "failure"
    <3>1. ~denied /\ pc' = "next"
      BY <1>3, <2>4 DEF Posted, AfterPost
    <3>2. "rejection" \notin told' /\ (~unheard' => told' = {"rca", "failure"})
      BY <1>3, <2>1, <2>4
    <3> QED
      BY <2>1, <3>1, <3>2
  <2> QED
    BY <1>3, <2>2, <2>3, <2>4 DEF Posted, Posting
<1>4. CASE WorkflowCreated
  BY <1>4 DEF WorkflowCreated, CreateSent
<1>5. CASE CreateRefused \/ CreateAborted \/ CreateLogged
  <2>1. CASE CreateRefused
    BY <2>1 DEF CreateRefused, CreateFails
  <2>2. CASE CreateAborted
    BY <2>2 DEF CreateAborted, CreateFails
  <2>3. CASE CreateLogged
    BY <2>3 DEF CreateLogged
  <2> QED
    BY <1>5, <2>1, <2>2, <2>3
<1>6. CASE Wake \/ Stop \/ ListSucceeds
  <2>1. CASE Wake
    BY <2>1 DEF Wake
  <2>2. CASE Stop
    BY <2>2 DEF Stop
  <2>3. CASE ListSucceeds
    BY <2>3 DEF ListSucceeds
  <2> QED
    BY <1>6, <2>1, <2>2, <2>3
<1>7. CASE EndRound
  <2>1. pc \in {"list", "next"} /\ pc' \in {"select", "leaving"}
    BY <1>7 DEF EndRound
  <2> QED
    BY <1>7, <2>1 DEF EndRound
<1>8. CASE Begin
  BY <1>8 DEF Begin
<1>9. CASE ReadSucceeds \/ ReadFails \/ AskFails
  <2>1. CASE ReadSucceeds
    BY <2>1 DEF ReadSucceeds
  <2>2. CASE ReadFails
    BY <2>2 DEF ReadFails
  <2>3. CASE AskFails
    BY <2>3 DEF AskFails
  <2> QED
    BY <1>9, <2>1, <2>2, <2>3
<1>10. CASE AskAnswered
  BY <1>10 DEF AskAnswered
<1>11. CASE PolicyAllows \/ PolicyDenies
  <2>1. CASE PolicyAllows
    BY <2>1 DEF PolicyAllows
  <2>2. CASE PolicyDenies
    BY <2>2 DEF PolicyDenies
  <2> QED
    BY <1>11, <2>1, <2>2
<1>12. config' = config
  BY DEF Next, vars, Answered, Step, Arrive, Cancel, Exit, ServerFails, Leave, Posted,
         PostAnswered, PostAborted, PostSkipped, WorkflowCreated, CreateRefused,
         CreateAborted, CreateFails, CreateLogged, Wake, Stop, ListSucceeds, EndRound,
         Begin, ReadSucceeds, ReadFails, AskAnswered, AskFails, PolicyAllows, PolicyDenies
<1>13. CASE PostAnswered \/ PostAborted \/ PostSkipped
  BY <1>3, <1>12, <1>13 DEF PostAnswered, PostAborted, PostSkipped
<1> QED
  BY <1>1, <1>2, <1>4, <1>5, <1>6, <1>7, <1>8, <1>9, <1>10, <1>11, <1>13
     DEF Next, Answered, Step

-----------------------------------------------------------------------------
LEMMA InitInv == Init => IInv
PROOF
<1> SUFFICES ASSUME Init PROVE IInv
  OBVIOUS
<1>1. TypeOK
  BY DEF Init, TypeOK, Posting
<1>2. VetInv /\ DeniedInv /\ MadeInv
  BY DEF Init, VetInv, DeniedInv, MadeInv
<1>3. LateInv
  BY DEF Init, LateInv, NoLateWorkflow, CreateSent
<1>4. ToldInv
  BY DEF Init, ToldInv
<1> QED
  BY <1>1, <1>2, <1>3, <1>4 DEF IInv

LEMMA Inductive == Spec => []IInv
PROOF
<1>1. IInv /\ [Next]_vars => IInv'
  BY TypeStep, VetStep, LateStep, MadeStep, ToldStep DEF IInv
<1> QED
  BY <1>1, InitInv, PTL DEF Spec

\* Every variable keeps its type, and the loop never reads a plan it has not got.
THEOREM Typing == Spec => []TypeOK
PROOF
  BY Inductive, PTL DEF IInv

\* No investigation makes a workflow for a DAG the policy did not allow in it.
THEOREM OnlyVettedRun == Spec => []OnlyVettedPlansRun
PROOF
<1>1. IInv => OnlyVettedPlansRun
  BY DEF IInv, MadeInv, OnlyVettedPlansRun
<1> QED
  BY <1>1, Inductive, PTL

\* After the cancellation no workflow begins to exist but the one under way.
THEOREM NoneLate == Spec => []NoLateWorkflow
PROOF
<1>1. IInv => NoLateWorkflow
  BY DEF IInv, LateInv
<1> QED
  BY <1>1, Inductive, PTL

\* What reached the channel about an investigation tells its outcome: a rejection
\* is true, and silence after the root cause means that the workflow exists, the
\* plan was not confident or there is no cluster, unless a message was lost.
THEOREM OutcomeHeard == Spec => []ChannelHearsTheOutcome
PROOF
<1>1. IInv => ChannelHearsTheOutcome
  BY DEF IInv, ToldInv, ChannelHearsTheOutcome
<1> QED
  BY <1>1, Inductive, PTL
=============================================================================

---------------------------- MODULE Investigation ----------------------------
(***************************************************************************)
(* The investigation loop of cmd/main.go with InvestigateIncident of       *)
(* internal/investigation, and the calls it makes: the store, kagent, the  *)
(* policy engine, Slack and the Kubernetes API.                            *)
(*                                                                         *)
(* One goroutine runs the loop.  Beside it the correlator stores incidents *)
(* and main cancels the context of the loop and then returns without       *)
(* waiting for it, or returns at once when its HTTP server fails.  Every   *)
(* call the loop makes takes that context: a call begun after the          *)
(* cancellation fails, one in progress may still succeed.  The incidents   *)
(* are those stored and open; nothing in the program ever sets another     *)
(* state (Correlator proves it of ProcessAlert).                           *)
(*                                                                         *)
(* What the channel was told, what this investigation made and what the    *)
(* policy allowed in it are kept as history: the code remembers none of    *)
(* it.                                                                     *)
(***************************************************************************)
EXTENDS Naturals

CONSTANTS Incident, Dag,
          NoIncident, NoPlan    \* before anything was fetched

\* What kagent answers: confident says that the confidence is 0.6 or more.
Plan == [dag : Dag, confident : BOOLEAN]

ASSUME PlanAssumption == NoPlan \notin Plan

VARIABLES config,      \* what the program was started with
          store,       \* the open incidents
          cancelled,   \* whether cancelInvestigation was called
          pc,          \* where the loop is
          doomed,      \* whether the call in progress began with a done context
          todo,        \* incidents of the last List still to investigate
          cur,         \* the incident under investigation
          plan,        \* the answer of kagent for it
          denied,      \* whether ValidateDAG returned an error for it
          launched,    \* the workflows there are: incident and DAG
          told,        \* history: the messages about it that reached the channel
          unheard,     \* history: whether one of them did not
          made,        \* history: whether the request it made created a workflow
          vetted,      \* history: what ValidateDAG allowed in this investigation
          asked,       \* history: the incidents kagent was asked about
          requesting,  \* history: whether the cancellation met a request for a workflow
          late         \* history: how many workflows began to exist after it

stopping == << cancelled, requesting >>
locals == << todo, cur, plan, denied >>
channel == << told, unheard >>
cluster == << launched, made, late >>
vars == << config, store, stopping, pc, doomed, locals, channel, cluster, vetted, asked >>

\* policy, slack and argo: the client is configured.  db: the store is
\* PostgreSQL, whose calls may fail; those of the store in memory never do.
Config == [policy : BOOLEAN, slack : BOOLEAN, argo : BOOLEAN, db : BOOLEAN]

Posting == {"rca", "rejection", "failure"}

Init ==
  /\ config \in Config
  /\ store = {}
  /\ cancelled = FALSE /\ requesting = FALSE
  /\ pc = "select" /\ doomed = FALSE
  /\ todo = {} /\ cur = NoIncident /\ plan = NoPlan
  /\ denied = FALSE /\ told = {} /\ unheard = FALSE /\ made = FALSE
  /\ launched = {} /\ vetted = {} /\ asked = {} /\ late = 0

\* The loop goes on to the step p, which makes a call.
Call(p) == pc' = p /\ doomed' = cancelled

\* It goes on to a step that makes none.
Goto(p) == pc' = p /\ UNCHANGED doomed

-----------------------------------------------------------------------------
(* The rest of the program. *)

\* ProcessAlert saves a new incident.
Arrive ==
  /\ pc # "exited"
  /\ \E i \in Incident \ store : store' = store \cup {i}
  /\ UNCHANGED << config, stopping, pc, doomed, locals, channel, cluster, vetted, asked >>

\* main receives a signal.
Cancel ==
  /\ ~cancelled
  /\ cancelled' = TRUE
  /\ requesting' = (pc = "create" /\ config.argo)
  /\ UNCHANGED << config, store, pc, doomed, locals, channel, cluster, vetted, asked >>

\* main returns, wherever the loop is.
Leave ==
  /\ Goto("exited")
  /\ UNCHANGED << config, store, stopping, locals, channel, cluster, vetted, asked >>

\* After the signal, as soon as it has closed the queue and the server.
Exit == cancelled /\ pc \notin {"stopped", "exited"} /\ Leave

\* The HTTP server ended with an error: nothing is cancelled first.
ServerFails == ~cancelled /\ pc # "exited" /\ Leave

-----------------------------------------------------------------------------
(* The loop of cmd/main.go. *)

\* Thirty seconds passed.  When the context is done as well, select takes
\* either branch.
Wake ==
  /\ pc = "select"
  /\ Call("list")
  /\ UNCHANGED << config, store, stopping, locals, channel, cluster, vetted, asked >>

\* investigationCtx is done.
Stop ==
  /\ pc \in {"select", "leaving"}
  /\ cancelled
  /\ Goto("stopped")
  /\ UNCHANGED << config, store, stopping, locals, channel, cluster, vetted, asked >>

\* The store answers: always in memory, unless the context was done otherwise.
StoreAnswers == ~config.db \/ ~doomed

ListSucceeds ==
  /\ pc = "list"
  /\ StoreAnswers
  /\ todo' = store
  /\ Goto("next")
  /\ UNCHANGED << config, store, stopping, cur, plan, denied, channel, cluster, vetted, asked >>

\* Back to select.  Its timer is new, so a context done by now is what it sees.
EndRound ==
  /\ \/ pc = "list" /\ config.db
     \/ pc = "next" /\ todo = {}
  /\ Goto(IF cancelled THEN "leaving" ELSE "select")
  /\ UNCHANGED << config, store, stopping, locals, channel, cluster, vetted, asked >>

\* The next incident of the list, in the order the store gave.
Begin ==
  /\ pc = "next"
  /\ \E i \in todo : cur' = i /\ todo' = todo \ {i}
  /\ plan' = NoPlan /\ denied' = FALSE
  /\ told' = {} /\ unheard' = FALSE /\ made' = FALSE /\ vetted' = {}
  /\ Call("read")
  /\ UNCHANGED << config, store, stopping, launched, late, asked >>

-----------------------------------------------------------------------------
(* InvestigateIncident.  Returning, with an error or not, is going to "next". *)

ReadSucceeds ==
  /\ pc = "read"
  /\ StoreAnswers
  /\ asked' = asked \cup {cur}
  /\ Call("ask")
  /\ UNCHANGED << config, store, stopping, locals, channel, cluster, vetted >>

ReadFails ==
  /\ pc = "read"
  /\ config.db
  /\ Goto("next")
  /\ UNCHANGED << config, store, stopping, locals, channel, cluster, vetted, asked >>

AskAnswered ==
  /\ pc = "ask"
  /\ ~doomed
  /\ \E p \in Plan : plan' = p
  /\ Call(IF config.policy THEN "policy" ELSE "rca")
  /\ UNCHANGED << config, store, stopping, todo, cur, denied, channel, cluster, vetted, asked >>

\* Mutants: an error ends the round; the error is not returned.
AskFailsBreak ==
  /\ pc = "ask"
  /\ todo' = {}
  /\ Goto("next")
  /\ UNCHANGED << config, store, stopping, cur, plan, denied, channel, cluster, vetted, asked >>

AskFailsGoesOn ==
  /\ pc = "ask"
  /\ Call("rca")
  /\ UNCHANGED << config, store, stopping, locals, channel, cluster, vetted, asked >>

\* An error, a bad status, an answer that does not parse, or the client's
\* timeout of 30 seconds.
AskFails ==
  /\ pc = "ask"
  /\ Goto("next")
  /\ UNCHANGED << config, store, stopping, locals, channel, cluster, vetted, asked >>

PolicyAllows ==
  /\ pc = "policy"
  /\ vetted' = vetted \cup {<< cur, plan.dag >>}
  /\ Call("rca")
  /\ UNCHANGED << config, store, stopping, locals, channel, cluster, asked >>

\* Mutant: the error is logged and the investigation goes on.
PolicyDeniesIgnored ==
  /\ pc = "policy"
  /\ Call("rca")
  /\ UNCHANGED << config, store, stopping, locals, channel, cluster, vetted, asked >>

\* The policy says no, or its evaluation fails.
PolicyDenies ==
  /\ pc = "policy"
  /\ denied' = TRUE
  /\ Call("rca")
  /\ UNCHANGED << config, store, stopping, todo, cur, plan, channel, cluster, vetted, asked >>

\* Mutant: the reason of a rejection is not posted.
AfterPostNoReason ==
  CASE pc = "rca" /\ plan.confident /\ ~denied -> "create"
    [] OTHER -> "next"

\* Where the loop goes after a message.
AfterPost ==
  CASE pc = "rca" /\ denied -> "rejection"
    [] pc = "rca" /\ ~denied /\ plan.confident -> "create"
    [] OTHER -> "next"

\* The client returns.  Its result is ignored, and so is whether the message
\* reached the channel.
Posted(reached) ==
  /\ pc \in Posting
  /\ told' = IF reached THEN told \cup {pc} ELSE told
  /\ unheard' = (unheard \/ (config.slack /\ ~reached))
  /\ Call(AfterPost)
  /\ UNCHANGED << config, store, stopping, locals, cluster, vetted, asked >>

\* Slack takes the message, answers with a status of 300 or more, which is only
\* logged, or the connection fails, before or after the message arrived.
PostAnswered == config.slack /\ ~doomed /\ \E reached \in BOOLEAN : Posted(reached)

\* Mutant: the request does not carry the context.
PostAbortedNever == FALSE /\ Posted(FALSE)

\* The context is done.
PostAborted == config.slack /\ cancelled /\ Posted(FALSE)

PostSkipped == ~config.slack /\ Posted(FALSE)

\* Mutant: the request does not carry the context.
CreateSentAnyway == pc = "create" /\ config.argo

\* The request for a workflow reaches the Kubernetes API.
CreateSent == pc = "create" /\ config.argo /\ ~doomed

\* The workflow exists, whether the answer gets back or is lost.
WorkflowCreated ==
  /\ CreateSent
  /\ launched' = launched \cup {<< cur, plan.dag >>}
  /\ made' = TRUE
  /\ late' = IF cancelled THEN late + 1 ELSE late
  /\ \/ Goto("next")
     \/ Call("failure")
  /\ UNCHANGED << config, store, stopping, locals, channel, vetted, asked >>

CreateFails ==
  /\ pc = "create"
  /\ config.argo
  /\ Call("failure")
  /\ UNCHANGED << config, store, stopping, locals, channel, cluster, vetted, asked >>

\* The API refuses, for instance a name in use, or is not reached.
CreateRefused == ~doomed /\ CreateFails

\* The context is done.
CreateAborted == cancelled /\ CreateFails

\* Without a cluster the DAG is only logged.
CreateLogged ==
  /\ pc = "create"
  /\ ~config.argo
  /\ Goto("next")
  /\ UNCHANGED << config, store, stopping, locals, channel, cluster, vetted, asked >>

\* Slack or Kubernetes answers.  Neither client has a timeout: without a
\* cancellation this need never happen.
Answered == PostAnswered \/ WorkflowCreated \/ CreateRefused

\* Every other step of the loop.
Step ==
  \/ Wake \/ Stop \/ ListSucceeds \/ EndRound \/ Begin
  \/ ReadSucceeds \/ ReadFails \/ AskAnswered \/ AskFails
  \/ PolicyAllows \/ PolicyDenies
  \/ PostAborted \/ PostSkipped \/ CreateAborted \/ CreateLogged

Next == Arrive \/ Cancel \/ Exit \/ ServerFails \/ Answered \/ Step

Spec == Init /\ [][Next]_vars /\ WF_vars(Step)

-----------------------------------------------------------------------------
\* Every variable has its type; there is a plan where the code reads one, and
\* no message is posted without a client.
TypeOK ==
  /\ config \in Config
  /\ store \subseteq Incident /\ todo \subseteq store /\ asked \subseteq store
  /\ pc \in {"select", "list", "next", "read", "ask", "policy", "create",
             "leaving", "stopped", "exited"} \cup Posting
  /\ cancelled \in BOOLEAN /\ doomed \in BOOLEAN /\ denied \in BOOLEAN
  /\ cur \in Incident \cup {NoIncident}
  /\ plan \in Plan \cup {NoPlan}
  /\ pc \in {"read", "ask", "policy", "create"} \cup Posting => cur \in store
  /\ pc \in {"policy", "create"} \cup Posting => plan \in Plan
  /\ told \subseteq Posting /\ unheard \in BOOLEAN /\ made \in BOOLEAN
  /\ ~config.slack => told = {} /\ ~unheard
  /\ launched \subseteq Incident \X Dag /\ vetted \subseteq Incident \X Dag
  /\ requesting \in BOOLEAN /\ late \in Nat

\* An investigation only creates a workflow for the DAG that the configured
\* policy allowed in that same investigation, for that incident: an answer given
\* for another incident or in an earlier round does not count.
OnlyVettedPlansRun == (config.policy /\ made) => << cur, plan.dag >> \in vetted

\* No workflow begins to exist after the loop was cancelled but the one it was
\* requesting at that moment, however many incidents were left to do.
NoLateWorkflow == late <= IF requesting THEN 1 ELSE 0

\* What the channel can conclude when an investigation that got a plan is over.
\* A rejection, whose message says that the plan "was NOT executed", is true: the
\* policy denied it and no workflow was made.  And when no message was lost on
\* the way, silence after the root cause is too: a denied plan was told to be
\* rejected, and a confident one that got no workflow was told to have failed.
\* A failure that is told may be none: the workflow exists when only its answer
\* was lost.
ChannelHearsTheOutcome ==
  (pc = "next" /\ config.slack /\ plan # NoPlan) =>
    /\ "rejection" \in told => denied /\ ~made
    /\ "failure" \in told => ~denied
    /\ ~unheard /\ denied => told = {"rca", "rejection"}
    /\ ~unheard /\ ~denied /\ plan.confident /\ config.argo /\ ~made
         => told = {"rca", "failure"}

\* Every open incident is given to kagent in the end, whatever fails for the
\* others, unless the loop is cancelled, the program exits because its server
\* failed, or the loop waits for Slack or Kubernetes for ever.
EveryIncidentIsInvestigated ==
  []<>(pc \notin Posting \cup {"create"}) =>
    \A i \in Incident :
      (i \in store /\ ~config.db) ~> (i \in asked \/ cancelled \/ pc = "exited")

\* A cancelled loop comes to its end by itself, even if nobody answers it.
CancelledLoopStops == cancelled ~> (pc \in {"stopped", "exited"})

-----------------------------------------------------------------------------
(* What the comments say. *)

\* cmd/main.go:145 says that the loop "periodically scans for open incidents
\* and triggers investigation once": no incident is investigated again when
\* there is a workflow for it already.
InvestigatedOnce ==
  [][pc' = "ask" /\ pc # "ask" => \A d \in Dag : << cur', d >> \notin launched]_vars
=============================================================================

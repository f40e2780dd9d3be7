------------------------------- MODULE Ingest -------------------------------
(***************************************************************************)
(* The webhook of internal/httpserver, the queue beside it, and the life   *)
(* of the process that holds both: start, signal, shutdown, crash and      *)
(* start again.                                                            *)
(*                                                                         *)
(* Each request is one batch of alerts.  What ProcessAlert does with an    *)
(* alert is in Correlator; here it succeeds or fails.  The body a request  *)
(* publishes is named by the request.  Other bodies on the subject come    *)
(* from elsewhere and need not be JSON.                                    *)
(***************************************************************************)
EXTENDS Queue

CONSTANTS Request, Alerts    \* how many alerts each request carries

ASSUME IngestAssumption ==
  /\ Request \subseteq Valid
  /\ Alerts \in [Request -> Nat]

VARIABLES main,      \* where main is
          req,       \* where each request is
          left,      \* how many of its alerts are still to be processed
          gone       \* requests at work whose client gave up: their context is done

requests == << req, left, gone >>
vars == << queueVars, main, requests >>

Active == {r \in Request : req[r] \in {"processing", "publishing", "waiting"}}

Init ==
  /\ QueueInit
  /\ main = "down"
  /\ req = [r \in Request |-> "new"]
  /\ left = [r \in Request |-> 0]
  /\ gone = {}

-----------------------------------------------------------------------------
(* handleAlertmanagerWebhook. *)

To(r, p) == req' = [req EXCEPT ![r] = p]

\* The handler returns, whatever it answers, and the request's context ends.
Returns(r) ==
  /\ To(r, "done")
  /\ gone' = gone \ {r}
  /\ UNCHANGED << main, left >>

\* The listener is open until Shutdown is called.
Receive(r) ==
  /\ main \in {"running", "cancelled"}
  /\ req[r] = "new"
  /\ To(r, "processing")
  /\ left' = [left EXCEPT ![r] = Alerts[r]]
  /\ UNCHANGED << queueVars, main, gone >>

\* The body does not parse.
BadRequest(r) ==
  /\ main \in {"running", "cancelled"}
  /\ req[r] = "new"
  /\ Returns(r)
  /\ UNCHANGED queueVars

\* The next alert.  It may fail: that is logged, and the batch goes on.
ProcessAlert(r) ==
  /\ req[r] = "processing" /\ left[r] > 0
  /\ left' = [left EXCEPT ![r] = @ - 1]
  /\ UNCHANGED << queueVars, main, req, gone >>

\* All alerts were tried.
NoQueue(r) ==
  /\ req[r] = "processing" /\ left[r] = 0
  /\ conn = "none"
  /\ Returns(r)
  /\ UNCHANGED queueVars

Publish(r) ==
  /\ req[r] = "processing" /\ left[r] = 0
  /\ conn # "none"
  /\ To(r, "publishing")
  /\ UNCHANGED << queueVars, main, left, gone >>

\* The message reaches the stream.
PublishStored(r) ==
  /\ req[r] = "publishing"
  /\ conn = "open" /\ r \notin gone
  /\ Store(r)
  /\ To(r, "waiting")
  /\ UNCHANGED << main, left, gone >>

PublishAcked(r) ==
  /\ req[r] = "waiting"
  /\ conn = "open" /\ r \notin gone
  /\ Returns(r)
  /\ UNCHANGED queueVars

\* Mutant: Publish does not take the request's context.
PublishFailsWithoutContext(r) ==
  /\ req[r] \in {"publishing", "waiting"}
  /\ conn = "closed"
  /\ Returns(r)
  /\ UNCHANGED queueVars

\* Publish returns an error: the connection is closed, the context is done, the
\* server refuses, or its answer is lost.  The answer is 200 all the same.
PublishFails(r) ==
  /\ req[r] \in {"publishing", "waiting"}
  /\ Returns(r)
  /\ UNCHANGED queueVars

ClientGone(r) ==
  /\ r \in Active \ gone
  /\ gone' = gone \cup {r}
  /\ UNCHANGED << queueVars, main, req, left >>

Handler(r) ==
  \/ Receive(r) \/ BadRequest(r) \/ ProcessAlert(r) \/ NoQueue(r) \/ Publish(r)
  \/ PublishStored(r) \/ PublishAcked(r) \/ PublishFails(r) \/ ClientGone(r)

\* A message from elsewhere, each of them once.
Foreign ==
  /\ \E m \in Message \ Request : (\A n \in Numbers : stream[n] # m) /\ Store(m)
  /\ UNCHANGED << main, requests >>

-----------------------------------------------------------------------------
(* main. *)

\* With a queue, or without: it is disabled or cannot be reached.
Start ==
  /\ main = "down"
  /\ main' = "running"
  /\ Connect \/ UNCHANGED queueVars
  /\ UNCHANGED << requests >>

\* cancelInvestigation and cancelIngest.
Signal ==
  /\ main = "running"
  /\ main' = "cancelled"
  /\ UNCHANGED << queueVars, requests >>

\* Mutant: the server is shut down first.
CloseQueueLater ==
  /\ main = "cancelled"
  /\ main' = "draining"
  /\ UNCHANGED << queueVars, requests >>

\* The queue is closed, if there is one, and then the server is shut down.
CloseQueue ==
  /\ main = "cancelled"
  /\ main' = "draining"
  /\ Close
  /\ UNCHANGED << requests >>

\* The process ends, whatever goroutines still run.
Exit ==
  /\ main' = "down"
  /\ Gone
  /\ req' = [r \in Request |-> IF r \in Active THEN "done" ELSE req[r]]
  /\ left' = [r \in Request |-> 0]
  /\ gone' = {}

\* Shutdown returns when the requests are done, or after ten seconds.
Drained == main = "draining" /\ Active = {} /\ Exit /\ UNCHANGED faults

DeadlinePassed == main = "draining" /\ Active # {} /\ Exit /\ UNCHANGED faults

ServerFails == main = "running" /\ Exit /\ UNCHANGED faults

Crash == main # "down" /\ Exit /\ Fault

Main == Start \/ Signal \/ CloseQueue \/ Drained \/ DeadlinePassed \/ ServerFails \/ Crash

-----------------------------------------------------------------------------
QueueStep == Server \/ Subscribe \/ processMessages

Next ==
  \/ \E r \in Request : Handler(r)
  \/ Foreign
  \/ Main
  \/ QueueStep /\ UNCHANGED << main, requests >>

\* The goroutines of the process run, the server does its part, and what is on
\* its way arrives.  Nothing is assumed of clients nor of a publication
\* without an answer, and a request may be stuck as long as its client waits.
Fairness ==
  /\ WF_vars((Deliver \/ Skip) /\ UNCHANGED << main, requests >>)
  /\ WF_vars((Subscribe \/ processMessages) /\ UNCHANGED << main, requests >>)
  /\ \A n \in 1 .. Cardinality(Message) :
       WF_vars(n \in pending /\ ~OnItsWay(n) /\ RunOut(n) /\ UNCHANGED << main, requests >>)
  /\ \A n \in 1 .. Cardinality(Message), ok \in BOOLEAN :
       WF_vars(Arrives([number |-> n, ok |-> ok]) /\ UNCHANGED << main, requests >>)
  /\ \A r \in Request :
       /\ WF_vars(r \in gone /\ (ProcessAlert(r) \/ NoQueue(r) \/ Publish(r) \/ PublishFails(r)))
       /\ WF_vars(conn = "closed" /\ PublishFails(r))

Spec == Init /\ [][Next]_vars /\ Fairness

-----------------------------------------------------------------------------
\* Every variable has its type, and no work is left in a process that is down.
TypeOK ==
  /\ QueueTypeOK
  /\ main \in {"down", "running", "cancelled", "draining"}
  /\ req \in [Request -> {"new", "processing", "publishing", "waiting", "done"}]
  /\ left \in [Request -> Nat]
  /\ gone \subseteq Active
  /\ main = "down" => conn = "none" /\ loop = "off" /\ batch = << >> /\ Active = {}
  /\ main = "draining" => conn # "open"

\* At least once: a message that was stored is discarded, given up or handled,
\* or the consumer still has it to deliver, for the first time or again.  No
\* crash, lost delivery, lost or late answer and no order of Subscribe and
\* Publish loses one.
NothingIsForgotten ==
  \A n \in Numbers :
    (n >= first /\ n \notin handled /\ n \notin givenUp) => (n >= next \/ n \in pending)

\* A message is handled a second time only if its acknowledgement was not there
\* in time.
HandledTwiceOnlyIfOverdue == repeated = {}

\* Messages are handled in the order they were stored, within a batch and from one
\* batch to the next: once a message is handled or answered, so is every earlier
\* one that can be, unless its delivery is lost or its timer has run out.
HandledInOrder ==
  \A n \in handled \cup {a.number : a \in acks}, m \in Numbers :
    (first <= m /\ m < n /\ Handles(m) /\ m \notin handled \cup overdue) =>
      (m \in pending /\ ~OnItsWay(m))

\* A message that can be handled is handled in the end, or discarded or given up,
\* if a process stays up whose Subscribe did not fail, however many deliveries
\* and answers were lost before and although messages that always fail keep
\* coming back (fewer than fill a batch).
Subscribed == conn = "open" /\ loop # "failed"
Done(m) ==
  \E n \in Numbers : stream[n] = m /\ (n \in handled \/ n < first \/ n \in givenUp)

EveryMessageIsHandled ==
  <>[]Subscribed =>
    \A m \in Valid : (\E n \in Numbers : stream[n] = m) ~> Done(m)

\* The handler of a request whose client gave up ends, wherever it was stuck.
AbandonedRequestEnds == \A r \in Request : r \in gone ~> r \notin Active
=============================================================================

-------------------------------- MODULE Queue --------------------------------
(***************************************************************************)
(* queue.NATSQueue with the ingest worker's handler: the stream "alerts",  *)
(* its durable consumer on the NATS server, the connection of a process    *)
(* and its loop processMessages.                                           *)
(*                                                                         *)
(* A message is known by its number in the stream.  The server outlives    *)
(* the process; deliveries and acknowledgements may be lost or late.       *)
(* Timers are not counted: the wait for an acknowledgement may run out at  *)
(* any time after the delivery.                                            *)
(*                                                                         *)
(* Ingest puts the requests and the life of the process around it.         *)
(***************************************************************************)
EXTENDS Naturals, SequencesExt

CONSTANTS Message,      \* bodies of messages
          Valid,        \* those that are JSON objects
          BatchSize,    \* of a fetch
          MaxDeliver,   \* of the consumer's configuration
          MaxFaults     \* bound on lost deliveries, lost or late answers and crashes

ASSUME QueueAssumption ==
  /\ Valid \subseteq Message
  /\ BatchSize \in Nat \ {0} /\ MaxDeliver \in Nat \ {0} /\ MaxFaults \in Nat

VARIABLES stream,      \* the bodies, in the order they were stored
          first,       \* the oldest number that is still kept
          consumer,    \* "none", or with which configuration it was created
          next,        \* the first number it has never delivered
          pending,     \* numbers delivered and not acknowledged
          rdq,         \* numbers to deliver again, in order
          delivered,   \* how often each number was delivered, if that is limited
          acks,        \* answers on their way to the server
          conn,        \* the connection of the process
          loop,        \* where Subscribe and its loop are
          batch,       \* what the loop has fetched and not answered
          handled,     \* history: the numbers whose handler returned nil,
          overdue,     \* those of them, or that will be, that once waited too
                       \* long for an answer,
          repeated,    \* those handled again that were never overdue,
          givenUp,     \* and those dropped after MaxDeliver deliveries
          faults       \* how many faults there were

server == << stream, first >>
durable == << consumer, next, pending, rdq, delivered, givenUp >>
client == << conn, loop, batch >>
history == << handled, repeated >>
queueVars == << server, durable, acks, client, history, overdue, faults >>

Numbers == 1 .. Len(stream)

\* handleMessage returns nil for a JSON object.
Handles(n) == stream[n] \in Valid

Queued == {rdq[i] : i \in DOMAIN rdq}
Answer == [number : Numbers, ok : BOOLEAN]

QueueInit ==
  /\ stream = << >> /\ first = 1
  /\ consumer = "none" /\ next = 1 /\ pending = {} /\ rdq = << >>
  /\ delivered = << >> /\ givenUp = {} /\ acks = {}
  /\ conn = "none" /\ loop = "off" /\ batch = << >>
  /\ handled = {} /\ repeated = {} /\ overdue = {} /\ faults = 0

Fault == faults < MaxFaults /\ faults' = faults + 1

-----------------------------------------------------------------------------
(* The stream and the consumer, on the server. *)

\* A message is stored.
Store(m) ==
  /\ stream' = Append(stream, m)
  /\ delivered' = Append(delivered, 0)
  /\ UNCHANGED << first, consumer, next, pending, rdq, givenUp, acks, client,
                  history, overdue, faults >>

\* MaxAge or MaxBytes: the oldest message is discarded.
Discard ==
  /\ first <= Len(stream)
  /\ first' = first + 1
  /\ UNCHANGED << stream, durable, acks, client, history, overdue, faults >>

\* A fetch asks for more, and there is more: what is to be delivered again
\* comes first.
HasNext == rdq # << >> \/ next <= Len(stream)
Requested == loop = "fetch" /\ conn = "open" /\ Len(batch) < BatchSize /\ HasNext
NextUp == IF rdq # << >> THEN Head(rdq) ELSE next
Advance == IF rdq # << >> THEN rdq' = Tail(rdq) /\ UNCHANGED next
           ELSE next' = next + 1 /\ UNCHANGED rdq

\* Only a consumer created with consumerConfig counts deliveries.
Exhausted(n) == consumer = "limited" /\ delivered[n] = MaxDeliver

Delivers ==
  /\ Requested
  /\ NextUp >= first /\ ~Exhausted(NextUp)
  /\ Advance
  /\ pending' = pending \cup {NextUp}
  /\ delivered' = IF consumer = "limited" THEN [delivered EXCEPT ![NextUp] = @ + 1]
                  ELSE delivered

Deliver ==
  /\ Delivers
  /\ batch' = Append(batch, NextUp)
  /\ UNCHANGED << server, consumer, givenUp, acks, conn, loop, history, overdue, faults >>

DeliverLost ==
  /\ Delivers
  /\ Fault
  /\ UNCHANGED << server, consumer, givenUp, acks, client, history, overdue >>

\* Discarded or delivered too often: the consumer drops it.
Skip ==
  /\ Requested
  /\ NextUp < first \/ Exhausted(NextUp)
  /\ Advance
  /\ pending' = pending \ {NextUp}
  /\ givenUp' = IF NextUp < first THEN givenUp ELSE givenUp \cup {NextUp}
  /\ UNCHANGED << server, consumer, delivered, acks, client, history, overdue, faults >>

\* AckWait runs out: the delivery or the answer was lost; or it is late, which
\* counts as a fault.
OnItsWay(n) == (\E i \in DOMAIN batch : batch[i] = n) \/ (\E a \in acks : a.number = n)

RunOut(n) ==
  /\ n \in pending \ Queued
  /\ rdq' = Append(rdq, n)
  /\ overdue' = IF Handles(n) THEN overdue \cup {n} ELSE overdue
  /\ IF OnItsWay(n) THEN Fault ELSE UNCHANGED faults
  /\ UNCHANGED << server, consumer, next, pending, delivered, givenUp, acks, client,
                  history >>

\* An answer arrives: Ack settles the message, Nak has it delivered again.
Arrives(a) ==
  /\ a \in acks
  /\ acks' = acks \ {a}
  /\ IF a.ok
     THEN /\ pending' = pending \ {a.number}
          /\ rdq' = RemoveFirst(rdq, a.number)
     ELSE /\ rdq' = IF a.number \in pending \ Queued THEN Append(rdq, a.number) ELSE rdq
          /\ UNCHANGED pending
  /\ UNCHANGED << server, consumer, next, delivered, givenUp, client, history,
                  overdue, faults >>

Lost(a) ==
  /\ a \in acks
  /\ acks' = acks \ {a}
  /\ Fault
  /\ UNCHANGED << server, durable, client, history, overdue >>

Server ==
  \/ Discard \/ Deliver \/ DeliverLost \/ Skip
  \/ \E n \in pending : RunOut(n)
  \/ \E a \in acks : Arrives(a) \/ Lost(a)

-----------------------------------------------------------------------------
(* Subscribe. *)

Goto(l) ==
  /\ loop' = l
  /\ UNCHANGED << server, next, pending, rdq, delivered, givenUp, acks, conn, batch,
                  history, overdue, faults >>

\* PullSubscribe makes a consumer with the library's defaults if there is none.
Defaulted == IF consumer = "none" THEN "default" ELSE consumer

PullSubscribe ==
  /\ loop \in {"subscribe", "again"} /\ conn = "open"
  /\ consumer' = Defaulted
  /\ Goto("fetch")

\* Its answer is an error; it may have made the consumer.
PullSubscribeFails ==
  /\ loop \in {"subscribe", "again"}
  /\ consumer' \in {consumer, IF conn = "open" THEN Defaulted ELSE consumer}
  /\ Goto(IF loop = "subscribe" THEN "add" ELSE "failed")

\* A consumer of that name with another configuration is an error.
AddConsumer ==
  /\ loop = "add" /\ conn = "open"
  /\ consumer # "default"
  /\ consumer' = "limited"
  /\ Goto("again")

AddConsumerFails ==
  /\ loop = "add"
  /\ consumer' \in {consumer, IF conn = "open" /\ consumer = "none" THEN "limited" ELSE consumer}
  /\ Goto("failed")

Subscribe ==
  PullSubscribe \/ PullSubscribeFails \/ AddConsumer \/ AddConsumerFails
-----------------------------------------------------------------------------
(* processMessages. *)

\* Mutant: the batch is gone through from its end.
FetchReversed ==
  /\ loop = "fetch" /\ batch # << >>
  /\ ~Requested
  /\ loop' = "handle"
  /\ batch' = Reverse(batch)
  /\ UNCHANGED << server, durable, acks, conn, history, overdue, faults >>

\* Fetch returns what the server had, a batch at most.
Fetch ==
  /\ loop = "fetch" /\ batch # << >>
  /\ ~Requested
  /\ UNCHANGED consumer
  /\ Goto("handle")

\* The subscription is no longer valid.
LoopEnds ==
  /\ loop = "fetch" /\ batch = << >>
  /\ conn = "closed"
  /\ UNCHANGED consumer
  /\ Goto("off")

handleMessage ==
  /\ loop = "handle"
  /\ loop' = "answer"
  /\ LET n == Head(batch)
     IN  /\ handled' = IF Handles(n) THEN handled \cup {n} ELSE handled
         /\ repeated' = IF n \in handled \ overdue THEN repeated \cup {n} ELSE repeated
  /\ UNCHANGED << server, durable, acks, conn, batch, overdue, faults >>

\* The rest of the batch, or the next fetch.
Onward ==
  /\ loop = "answer"
  /\ batch' = Tail(batch)
  /\ loop' = IF Len(batch) = 1 THEN "fetch" ELSE "handle"
  /\ UNCHANGED << server, durable, conn, history, overdue, faults >>

\* Mutants: Ack whatever the handler returned; Nak when it returned nil; an
\* error of the handler ends the loop.
AckOrNakAlwaysAck ==
  /\ Onward
  /\ acks' = IF conn = "open" THEN acks \cup {[number |-> Head(batch), ok |-> TRUE]}
             ELSE acks

AckOrNakSwapped ==
  /\ Onward
  /\ acks' = IF conn = "open"
             THEN acks \cup {[number |-> Head(batch), ok |-> ~Handles(Head(batch))]}
             ELSE acks

AckOrNakReturns ==
  /\ loop = "answer"
  /\ batch' = Tail(batch)
  /\ loop' = IF ~Handles(Head(batch)) THEN "off"
             ELSE IF Len(batch) = 1 THEN "fetch" ELSE "handle"
  /\ acks' = IF conn = "open"
             THEN acks \cup {[number |-> Head(batch), ok |-> Handles(Head(batch))]}
             ELSE acks
  /\ UNCHANGED << server, durable, conn, history, overdue, faults >>

\* Ack or Nak; on a closed connection it is an error that is logged.
AckOrNak ==
  /\ Onward
  /\ acks' = IF conn = "open"
             THEN acks \cup {[number |-> Head(batch), ok |-> Handles(Head(batch))]}
             ELSE acks

processMessages == Fetch \/ LoopEnds \/ handleMessage \/ AckOrNak

-----------------------------------------------------------------------------
(* The connection of the process. *)

\* NewNATSQueue, after which the worker's goroutine subscribes.
Connect ==
  /\ conn' = "open" /\ loop' = "subscribe"
  /\ UNCHANGED << server, durable, acks, batch, history, overdue, faults >>

Close ==
  /\ conn' = IF conn = "open" THEN "closed" ELSE conn
  /\ UNCHANGED << server, durable, acks, loop, batch, history, overdue, faults >>

\* The process is gone, with what it had fetched.
Gone ==
  /\ conn' = "none" /\ loop' = "off" /\ batch' = << >>
  /\ UNCHANGED << server, durable, acks, history, overdue >>

-----------------------------------------------------------------------------
\* What the invariants of Ingest ask of the queue's variables.
QueueTypeOK ==
  /\ stream \in Seq(Message) /\ first \in 1 .. Len(stream) + 1
  /\ consumer \in {"none", "default", "limited"}
  /\ next \in 1 .. Len(stream) + 1
  /\ pending \subseteq 1 .. next - 1
  /\ rdq \in Seq(pending) /\ \A i, j \in DOMAIN rdq : rdq[i] = rdq[j] => i = j
  /\ delivered \in Seq(0 .. MaxDeliver) /\ Len(delivered) = Len(stream)
  /\ acks \subseteq Answer
  /\ conn \in {"none", "open", "closed"}
  /\ loop \in {"off", "subscribe", "add", "again", "failed", "fetch", "handle", "answer"}
  /\ batch \in Seq(1 .. next - 1) /\ Len(batch) <= BatchSize
  /\ loop \in {"handle", "answer"} => batch # << >>
  /\ repeated \subseteq handled /\ handled \subseteq Numbers
  /\ overdue \subseteq Numbers /\ givenUp \subseteq Numbers
  /\ faults \in 0 .. MaxFaults
=============================================================================

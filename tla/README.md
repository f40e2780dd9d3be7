# TLA+ specifications of sentientd

sentientd receives alerts from Alertmanager, groups them into incidents, asks an
agent (kagent) for a root cause and a remediation plan, checks the plan against
policies and turns it into an Argo workflow. This directory holds the
specifications of the parts whose order of steps matters, their TLC
configurations and their TLAPS proofs.

    tlc -config MCCorrelator.cfg MCCorrelator        # a run
    tlapm CorrelatorProofs.tla                       # the proofs

`PROJECT.json` lists runs, theorems and hazards, and gives the source lines of
every definition.

## The system

| component | code | state | operations |
|---|---|---|---|
| Correlation | `internal/correlation` | none of its own | `ProcessAlert`: find an open incident of the alert's key, join or create it, save it |
| Incident store | `internal/store` (in memory, or PostgreSQL through `internal/storage/postgres`) | incidents by id; rows of incidents and alerts | `FindOpenByCorrelationKey`, `Save`, `GetByID`, `List` |
| HTTP server | `internal/httpserver` | the queue, if there is one | a webhook: `ProcessAlert` for each alert, then `Publish`; always 200 |
| Queue | `internal/queue` | a NATS stream and a durable consumer | `Publish`, `Subscribe`, the loop `processMessages`, `Close` |
| Ingest worker | `internal/ingest` | none | `Start`, `handleMessage` (checks that a message is JSON) |
| Investigation loop | `cmd/main.go`, `internal/investigation` | the list of the round, the context | a scan every 30 seconds, `InvestigateIncident` for each open incident |
| kagent, Slack, Argo clients | `internal/kagent`, `internal/slack`, `internal/argo` | none | one request each |
| Policy engine | `internal/policy` | compiled policies | `ValidateDAG` |
| Topology | `internal/topology` | the service graph | informer events, `SubgraphForService` |
| Start-up and shutdown | `cmd/main.go` | contexts, the signal channel | wiring; cancel, close, drain, return |
| DAG runner | `cmd/dag-runner` | none | runs one task of a workflow, in a pod the Argo controller starts |
| Configuration, logging, pool, SPIFFE | `internal/config`, `logging`, `database`, `identity` | none that changes | |

How they meet: requests run `ProcessAlert` concurrently against one store. The
investigation loop reads the same store in its own goroutine. Nothing in the
program changes an incident's state after it was created, so every incident is
open for ever. The queue gets a copy of each batch, which its consumer only logs.
The stream and the consumer live on the NATS server and outlast the process.
The informer replaces the graph that `ProcessAlert` reads when it creates an
incident. A signal cancels the loop and the worker, closes the queue, drains the
server for ten seconds and returns from `main`; nobody waits for the goroutines.

### What is hard here, and what makes each part correct

* *Correlation.* Find and Save are two operations; calls of one key interleave
  between them. Correct: an alert is in one incident; incidents do not mix
  services; what was acknowledged is kept; a key has one live incident; times
  only move forward. Several of these need a condition, and the conditions are
  part of the properties.
* *Store in memory.* Returned structs share the arrays of their alerts with the
  store. Correct: it behaves as a store of values.
* *Store in PostgreSQL.* Several statements per operation, alerts keyed by
  fingerprint, a commit whose outcome may be unknown. Correct: an acknowledged
  alert is stored; newer data is not replaced by older; versions count the saves;
  a key has one live row.
* *Investigation.* Five remote calls in a row, each failing in its own way, with
  a cancellation between any two of them. Correct: only plans the policy allowed
  run; what the channel is told is true, and so is its silence if no message was
  lost; nothing starts after the cancellation; every incident has its turn; the
  loop stops.
* *Queue.* Lost acknowledgements, redelivery, a limit of deliveries, closing while
  requests publish and messages are handled, a process that crashes with what it
  fetched. Correct: a stored message is handled, given up or still to be
  delivered; it is handled twice only when its acknowledgement was late, and in
  its order unless it was lost or late; no request is stuck whose client is gone.
* *Topology.* Several objects, a first load and an informer write one graph.
  Correct: the graph is one version, whole; a slice is the one-hop neighbourhood
  in it; a version is not replaced by an older one; the last version wins.
* *Policy, workflows, runner.* Three programs hand a plan on. Correct: what the
  policies forbid is denied; tasks run in the plan's order; only what the runner
  allows succeeds; a plan is refused for its name only within a second.

## The modules

    AlertLabels     labels -> service, severity, correlation key
      Incidents     incidents by value; Save and Find as operators
        IncidentsProofs     lemmas for the proofs about both stores
        Correlator          ProcessAlert against the store, by value
          CorrelatorProofs  its theorems
          MCCorrelator      its instance for TLC
        MemoryStore         ProcessAlert against the store with Go's slices,
                            refining Correlator
          MemoryProofs
          MCMemoryStore
        PostgresStore       ProcessAlert against the database's statements
          PostgresProofs
          MCPostgresStore
    Investigation   the loop of cmd/main.go with InvestigateIncident
      InvestigationProofs
      MCInvestigation
    Queue           the stream, its consumer, a connection and its loop
      Ingest        the webhook, the queue and the life of the process
        IngestProofs
        MCIngest
    ServiceGraph    the graph and its slices, as operators
      Topology      the first load and the informer
        TopologyProofs
        MCTopology
    Remediation     a plan through policy, Argo client, controller and runner
      RemediationProofs
      MCRemediation

**Correlator.** `incidents` is the contents of the store, `pc[a]`, `now[a]` and
`inc[a]` are the position and the locals of the call for delivery `a`. The
actions follow `correlator.go`: `Receive` reads the clock, `FindExisting` and
`FindNothing` are the answers of the store (with the joining of the alert, which
touches nothing shared), `Create` draws an id, `SaveSucceeds` writes the copy
back. `FindFails` and `SaveFails` drop the call. Each store operation is atomic:
it holds the store's lock. An incident's id is a time, as `simpleIDSource` makes
it, and may be drawn twice. A label value is a sequence of segments, so that the
key, which joins labels with "/", is a concatenation and is ambiguous exactly
where the string is. Severities are ranks in the order of strings, as the code
compares them. `overlapped`, `issued` and `collided` are history variables.

**MemoryStore.** The same calls with `heap`, the arrays behind `Alerts`. The
store's copies of an incident share an array; `append` writes in place while
there is room and doubles the array otherwise (the growth of the Go runtime up
to 256 elements). Finding and appending become two steps. `view` is a struct the
investigation loop holds. `shared`, a history variable beside those of `Correlator`,
has the arrays that two calls held at once (`HeldArrays`): each found the incident
before the other had saved it. The refinement to `Correlator` reads each slice
through the heap; a call that found an incident and has not appended yet maps to
one that has joined it (`StoreByValue`, `PcByValue`, `IncByValue`). The store returns no errors, so `FindFails` and
`SaveFails` of the specification are not used.

**PostgresStore.** The same calls with `rows` and `alerts`, the two tables.
`FindRow` and `FindAlerts` are the two queries of Find, between which others may
commit; `SaveChecks`, then `SaveCommits` the transaction of Save. The update
takes the row's lock and what follows in the transaction reads nothing, so
writing and committing are one step, and an insert that finds its id taken is
refused. Any statement may fail and roll back (`Fails`). After `SaveLost` the
caller has an error while the database may still commit (`CommitsLate`), which
the store of `Correlator`, where a failed Save changes nothing, cannot do; until
it is settled the row is locked. `FingerprintOf` tells which deliveries are
repetitions of one alert: the tables hold the last of them. The window excludes
its last instant here.

**Investigation.** `pc` is the position of the loop in `main` and in
`InvestigateIncident`; `todo` what is left of the list; `cur`, `plan` and `denied`
belong to the investigation under way. So do the history variables `told` (the
messages that reached the channel), `unheard` (one of them did not), `made` (its
request created a workflow) and `vetted` (what the policy allowed in it), which
`Begin` resets. The client ignores what Slack answers: a message may reach the
channel or not whatever the answer is, and `Posted` has both. `Config` is what the
program was started with: a policy engine, a Slack URL, a cluster, PostgreSQL or not.
`doomed` says that the call in progress began when its context was done: such a
call fails without reaching anybody, while one in progress when the cancellation
comes may still succeed. A workflow may be created although the answer is lost.
`main` ends the process after a signal (`Exit`), or with nothing cancelled when its
HTTP server fails (`ServerFails`). Other requests appear as `Arrive`. Names of
workflows are abstracted: a name in use is one of the reasons of `CreateRefused`;
`Remediation` has them. `launched` are the workflows of the cluster; `asked`,
`requesting` and `late` are history variables too.

**Queue and Ingest.** `stream`, `consumer`, `next`, `pending`, `rdq`, `delivered`
and `acks` are the server's side: what is stored, which configuration the consumer
was created with, and which messages are new, waiting for an answer, to be
delivered again, or answered by something on its way. `conn`, `loop` and `batch`
are the process's: the connection, where `Subscribe` and `processMessages` are,
and the messages fetched and not answered yet. A timer of an acknowledgement is
not counted; it may run out at any time. If it does while the message or its
answer is on its way, that is a late answer and counts as a fault, as do lost
deliveries, lost answers and crashes, of which there are `MaxFaults`. `Ingest` adds
`main` and the requests: `Receive`, one `ProcessAlert` per alert, `Publish` and
its two halves at the server, a client that goes away at any step. `CloseQueue`
closes the connection and shuts the listener; then the requests drain or the
deadline of ten seconds passes. The process may start again any number of times.
The server keeps a message until `Discard` (age or size of the stream). `handled`,
`overdue`, `repeated`, `givenUp` and `faults` are history variables.

**ServiceGraph and Topology.** `ServiceGraph` has no state: `LoadFromServiceGraph`
and `GetSubgraphForService` as the code computes them (two indexes, neighbours,
edges seen once), and `IsNeighborhood`, the same by sets over the contents.
In `Topology` the cluster is the log of its changes and a version a place in it;
`stage`, `seen` and `events` are the informer of client-go, which the
code only registers handlers with: a list, then a watch, a list again when the
watch breaks, a tombstone for a deletion that passed in between. `graph` is the
client's; `shown`, `informed`, `missed` and `breaks` are history variables. A list
answered from a cache may be older than the first load.

**Remediation.** `stage[p]` is where a plan is, `workflows`, `phase` and `status`
are Argo's. `policy` is what the directory of policies holds, by the two things that
decide what its rules do: their syntax and whether they name the fields as the
JSON input does; or it holds no `.rego` file (`NoPolicy`). `POLICY_DIR` itself is
never empty, as `config.go:40` gives it a default. A workflow whose creation got no
answer is created; only `Investigation` tells the engine's two views of it apart. `dagToWorkflow` keeps ids, tools, inputs and dependencies and
switches scripts off. The controller and pods are external. `executeTask` says
which tool succeeds on which inputs. `made` and `unlucky` are history variables.

## The runs

| run | asks | states |
|---|---|---|
| `MCCorrelator` | the type invariant and six safety properties | 1.5 million |
| `MCCorrelator_duplicates` | "deduplication" (README.md:16) without a condition: *violated* | |
| `MCCorrelator_lastalert` | "Timestamp of most recent alert" (DATABASE.md:93): *violated* | |
| `MCMemoryStore` | refinement of `Correlator` as long as no two calls held one array, and stability of a reader's view unless two held its array | 0.4 million |
| `MCMemoryStore_isolation` | "modifying returned incident shouldn't affect store" (`store_test.go:114`): *violated* | |
| `MCPostgresStore` | the type invariant and five safety properties | 4.2 million |
| `MCInvestigation` | four safety and two liveness properties in all sixteen configurations | 0.3 million |
| `MCInvestigation_once` | "triggers investigation once" (`cmd/main.go:145`): *violated* | |
| `MCIngest` | four safety and two liveness properties of the queue, the webhook and the process | 0.1 million |
| `MCTopology` | the graph, its versions and its slices; one liveness property | 0.1 million |
| `MCRemediation` | four invariants, one property of steps, one of liveness | 0.2 million |
| `MCRemediation_forbidden` | "completely forbidden and will never be allowed" (`internal/policy/README.md:64`): *violated* | |

Deadlock is not checked: every delivery is processed once and the clock is
bounded, a cancelled loop stops, a cluster stops changing and plans are carried
out, so the models do come to an end.

**Bounds.**
`MCCorrelator`: four deliveries, three with one key and one with another that
differs in the namespace only; two calls at once, which is enough for a race and
leaves a third to meet its result; a clock of 0 to 3 with a window of 1, so that
an alert may come in the window, at its last instant and after it, and an id may
be drawn twice or not.
`MCMemoryStore`: five deliveries of one key, two calls at once. Arrays have one, two
and then four cells, so only the fifth delivery can meet an array with room while
another call holds it; with fewer the conditions on `shared` would exclude nothing.
A window of 0 and a clock of 0 to 1 let an incident expire and an id be drawn twice.
Four deliveries differ in nothing but their identity and are taken as a symmetry
set; all properties of the run are safety.
`MCPostgresStore`: three deliveries of one key, two of them of one fingerprint, so
that a row is inserted, joined and its alert upserted, and one of another key to
draw the same id or be kept apart; two calls at once; a clock of 0 to 2 with a
window of 2, so that an incident may expire at the strict bound.
`MCInvestigation`: two incidents and two DAGs, so that one incident's plan could
be taken for the other's, and one incident may be waiting when the loop is
cancelled. Rounds are not bounded; `launched` and `asked` are sets, and repeating
an investigation leads back to known states.
`MCIngest`: a request with two alerts and a message from elsewhere that is no JSON
and always fails, so that Acks and Naks of one batch mix; a batch of three, two
deliveries in place of ten, one fault; starts and signals are not bounded.
`MCTopology`: three changes of two objects between two contents and one that does
not convert, so that an object is created, changed and deleted while the other is
too; two broken watches, the second after the first was answered by a list. Slices
are compared on those contents and on all of at most two nodes and two edges over
three identifiers (self-loops, parallel edges, undeclared ends, nodes twice), and on
two services that meet in a queue.
`MCRemediation`: a plan of three tasks that can be done, and one each with a
script, a forbidden tool and a cycle, two of them for one incident; three
policies; one tick, so that names are equal or not.

**What the violations show.** Two overlapping requests for one key leave two
open incidents; the slower of two overlapping calls sets `LastAlertAt` back; an
append through a returned struct overwrites an alert in the store; every scan
investigates an incident again and asks for another workflow; with the shipped
`policies.rego` there is no policy engine, and a plan with `k8s.exec` becomes a
workflow. The file is in Rego's old syntax and the engine reads the new one, so it
does not compile, and `main` goes on without. (If it did compile it would deny
nothing, since it names `Tasks` and `Environment` and the input has `tasks` and
`environment`.) `PolicyHolds` shows what a policy that compiles and names its input
does enforce, and `OnlyRunnerToolsSucceed` that the runner fails forbidden
tools whatever the policy. For the first three
the runs of the conditional properties show that an overlap of calls of one key
is the only cause (and, for lost alerts, the same id drawn twice).

The database differs: `AcknowledgedAlertsAreStored` needs no condition, because
rows of alerts are added and never removed, whatever copy a call started from.
The incident's own columns are overwritten as in memory, hence the conditions of
`VersionCountsSaves` and `OneLiveRowPerKey`. Two calls that draw one id both
leave their alerts under it, which is the exception
`AlertsHaveTheKeyOfTheirIncident` names.

**Fairness.** The modules of the stores and `Correlator` have none: their properties are
safety. `Investigation` assumes weak fairness of the steps the loop takes on its
own account: the timer fires, the store in memory answers, kagent answers or its
client times out after 30 seconds, the policy is evaluated, a done context ends
a call. It does *not* assume that Slack or Kubernetes answer (their clients have
no timeout): `EveryIncidentIsInvestigated` is conditional on their not hanging
for ever and on a process that goes on (it ends when its HTTP server fails, and
nothing is investigated then), and speaks of the store in memory only, as a database
need not answer.
`CancelledLoopStops` holds even if nobody answers.

`Ingest` assumes it of the goroutines of the process, of the server's deliveries,
of answers on their way and of timers whose delivery or answer is gone. It assumes
nothing of clients or of publications without an answer: a request may be stuck
for as long as its client waits, and `AbandonedRequestEnds` says
what frees it. `EveryMessageIsHandled` is conditional on a process that stays up,
and on a `Subscribe` that did not fail, since the worker does not try again. It
also needs that what fails for ever does not fill a batch: the server delivers
again before it delivers what is new, Nak asks for it at once, and the consumer
that `PullSubscribe` makes has no limit of deliveries. The run has one such message
in a batch of three. `Topology` assumes that `Initialize` returns and that the
informer's goroutines go on (client-go lists and watches again for ever).
`Remediation` assumes that the controller and the pods of each workflow go on, and
nothing of the engine.

**Conditions that are part of the properties.** `NeverBack` holds once the informer
has spoken: its first list may be older than the first load. `FollowsTheOnlyObject`
excludes a deletion that the informer does not see while its watch is down (its
tombstone is ignored, `topology/client.go:145`) and one between the first load
and the first list (no event at all): the graph then stays loaded. With several
objects the graph is that of whichever event was handled last, and empty after
any deletion. `HandledInOrder` excepts messages that were overdue and those whose
delivery was lost, with a fault or with the process. `ViewIsStable` and
`ImplementsCorrelator` hold until two calls hold one array (the reader's, or any).
`ChannelHearsTheOutcome` draws conclusions from silence only if no message was lost,
and none from a failure that was told: its workflow may exist when only the answer
was lost.

**Met on the way, without a run.** `nats.go:144` says "Retry up to 10 times", but
the first `PullSubscribe` makes the consumer with the library's defaults, so that
the limit is used only when that call fails. `queue.go:23` calls `Subscribe`
blocking; it returns at once. A webhook answers 200 when an alert failed and its
publication too (`handlers.go:86`: "sync processing already succeeded").
`memory_graph_test.go:457-458` says of the slice of order-service that "It should also
include payment-service (which subscribes to the same queue)". Payment-service is two
hops away and is not in that slice, as `memory_graph.go:61` has it ("all 1-hop
neighbors") and `SliceIsNeighborhood` states; the test asserts no more than four
nodes, which the slice has without it. `main.go:108` is for a policy directory that
is not configured, which `config.go:40` and `46` never return. None of the
tools kagent is told it may use (`engine.go:51`) is known to the runner, so plans
made of them are carried out and always fail.

## The proofs

`tlapm` checks them for all values of the constants: any set of deliveries, any
labels, any window, any number of concurrent calls; any incidents and plans; any
objects of the topology, any number of changes and broken watches; any policies.

*Correlator.* No property is inductive: each speaks of the store, and a call is
about to overwrite the store with a copy it read earlier. `IInv0` says what such
copies are: open incidents under an issued id, of the key of their call, holding
acknowledged alerts and the call's own. Type correctness, `OneIncidentPerAlert`
and (with the fact that concatenated keys of one-segment labels determine the
labels) `IncidentsDoNotMixServices` follow. Three more invariants are each
proved on top of it. `KeptInv`: under an id drawn once an acknowledged, never
overlapped alert is in the stored incident and in every copy that will replace
it; hence `AcknowledgedAlertsAreKept`. `SpacedInv`: for a key without overlaps,
stored incidents and the one being written are a window apart and the latest is
the one that is written to; hence `IncidentsAreAWindowApart` and
`OneLiveIncidentPerKey`. `RecentInv` compares the times of the alerts with
`LastAlertAt`; hence `LastAlertAtIsNewest`.

*Investigation.* `IInv` says what holds at each step between the policy's answer
and the request for a workflow (`VetInv`, `DeniedInv`), that a request under way
after the cancellation is the one the cancellation met (`LateInv`), where an
investigation can have made its workflow (`MadeInv`), and which messages were told
at each step if none was lost (`ToldInv`).

*PostgresStore.* That the tables keep their keys (part of `TypeOK`) needs the lock:
transactions that are not settled hold different rows, and one that is to insert
still finds none (`LostInv`). `AcknowledgedAlertsAreStored` needs only that a copy
holds the alert of its call (`HoldsInv`) and that a commit replaces a fingerprint's
row by another. For `AlertsHaveTheKeyOfTheirIncident`, `Claims` gathers every place
that relates an id to a key, in rows, alerts and copies; a step makes no claim that
is new except for an id drawn now, and nobody has claimed that before.
The other three are one induction (`QInv`): their condition, that calls for the key
never overlapped, means that calls came one after the other (`RivalsInv`, `TimesInv`).
Then a copy is still what is stored, with the alert of its call at the end
(`CopiesInv`), its version counts the commits and its own (`VersionsInv`), and beside
the row it will write no row of the key is live (`LiveInv`). What is in the tables,
and so in copies, came by a commit (`CommittedInv`). That holds of late commits too:
a call whose commit is unknown counts as under way until it is settled.

*MemoryStore.* All of it is for any number of concurrent calls. That every slice lies
within its array, written that far, is an induction of its own (`TypeInv`). For the
other two an array belongs to one incident, and the calls that hold an array no two
ever held at once are one at most (`HoldInv`): then what is stored of it, or the copy
that is about to be stored, has the longest slice (`LongestInv`), and `append` in
place writes a cell that no other struct reaches (`Undisturbed`). A reader's view
therefore reads the same, and every step maps: `Join` and `GetByID` to none, finding
to `FindExisting`, the rest to themselves. `WithoutSharing` puts it as a refinement:
in a behavior in which `shared` stays empty, the store with shared arrays implements
`Correlator`, and what is proved of that holds of the store. What calls for other keys,
calls that create an incident and readers do at the same time makes no difference.
When two calls have found one slice and one of them appends, `LongestInv` is gone,
and `MCMemoryStore_isolation` shows what comes of it.

*Ingest.* The proofs about the queue go through one list of moves (`QueueMove`): each
step of the server, of the connection and of the process makes at most one of them.
`NothingIsForgotten` needs that Ack answers only what was handled and Nak only what
cannot be (`AnswersInv`). `HandledTwiceOnlyIfOverdue` needs more: what waits to be
delivered again was overdue or fails for ever; a message that was handled and never
overdue is in the batch only as the one about to be answered; and no batch holds
a message twice otherwise (`OverdueInv`). `HandledInOrder` rests on the batch: until it is handled or overdue, a
message comes after older ones only (`BatchInv`), since it was delivered once and when
it was new; and one that was never delivered cannot have been given up (`NewInv`). All
hold for any batch size, limit of deliveries and number of faults.

*Topology.* `GraphIsOneVersion` is inductive: `LoadFromServiceGraph` empties the
indexes before it fills them. `NeverBack` is about the step that handles an event
and depends on how that came to be queued: in `IInv` the events of an object are
in the order of its versions and not older than the version shown (`OrderInv`),
each speaks of versions the object had (`EventsInv`), and what was deleted had been
there (`DeletesInv`), without which a watch would tell of a deletion as of an
update. That an object's last change up to a version exists (`Largest`) is from
the well-foundedness of the naturals.

*Slices.* The graph has two indexes, each filled by a loop, and a slice goes through
both and then removes duplicates. `Taken` is that loop. That it keeps the elements it
takes and their order is proved by looking at the first turn of the loop after which
it would not (`LeastNumber`, `LoopExists`, `TakenInOrder`). Then the first edge of a
pair of ends in an index is the first in the ServiceGraph, and no edge is lost when
the two indexes follow one another (`Behind`, `BothWays`). So `SliceIsNeighborhood`
holds of every list of nodes and edges. The theorem assumes `ServicesHaveNames`: the
identifier of a service is "svc:" and a name without a colon. Only finding a service by
its bare name needs it: `SubgraphForService` takes a name that itself begins with "svc:"
for an identifier.

*Remediation.* A task passes three programs, and `IInv` has a part for each: the
engine let its plan through (`VettedInv`), the workflow is the plan's (`HandedInv`),
what has started belongs to an accepted workflow and follows what it depends on
(`OrderInv`), what succeeded the runner could do (`RunInv`). Hence `DependenciesFirst`,
`PolicyHolds` and `OnlyRunnerToolsSucceed`. `RefusedWithinASecond` needs `NamesInv`: a
name holds the second of its creation, so one in use that is drawn again was made
in this second.

The assumptions are those named in the modules: labels are records of non-empty
sequences of segments, times are natural numbers, nil is not an incident, batches and
limits of deliveries are positive, alerts of one fingerprint have the same labels, a
ServiceGraph is a list of nodes and a list of edges. The kagent
plan that was not fetched yet is none. The theorem about slices adds `ServicesHaveNames`,
which the constants of the run satisfy.

Every invariant, every property of steps and the refinement that the passing runs
check are proved. Only model-checked is liveness (`EveryIncidentIsInvestigated`,
`CancelledLoopStops`, `EveryMessageIsHandled`, `AbandonedRequestEnds`,
`FollowsTheOnlyObject`, `PlansThatCanBeDoneSucceed`): fairness and
ENABLED are beyond the proof system. It cannot expand `SelectSeq` or a RECURSIVE
operator, hence the recursive function in `Taken`.

## Not modelled

Contents that no decision depends on: annotations, start and end times of
alerts, the topology slice, the wording of messages and logs. The investigation
model has no restart: with the store in memory nothing survives one.
`remediation_attempts`, `rca_summary` and `github_pr_url` are columns nothing
writes. Of a plan, approval, retries, timeouts and constraints are not in the
workflow: `dagToWorkflow` drops them, and so does the model. A plan without tasks
is not among the inputs of `Remediation`. The topology client of a process that is
started again begins anew, which `Topology` has as a log that is not empty when
`Initialize` runs; `GetNode`, `GetGraph` and `FindServiceByLabels` are called by tests
only and `Stop` by nobody. The dag-runner's tools are simulated in the code itself
and succeed or fail on their inputs alone. Configuration, logging and the
construction of the pool have no behaviour in time; the SPIFFE client is not used
by either command.

## The plan

The steps planned are done: the models, their runs, and a proof of each property but
liveness. What would say more about the program:

1. The safety half of each liveness property (a loop that is cancelled only comes
   closer to its end; what is pending is fetched, answered, or its timer runs), so
   that only the fairness is left to TLC.
2. What the proofs about `Correlator` and `PostgresStore` say alike of one key, as
   lemmas of `IncidentsProofs`.

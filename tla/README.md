# Verification of k8dclusterlife

k8dclusterlife watches Kubernetes clusters, shows their problems on a dashboard
and lets a Claude agent repair them. This directory holds TLA+ modules for the
parts of it whose behaviour depends on timing, failure or order, TLC
configurations that check them, and TLAPS proofs of their main properties.
Paths below are relative to `src/`.

## The system

| Part | State | Operations | What makes it correct |
|---|---|---|---|
| Healing session, `internal/healing/agent.go` | session (status, dialog, actions), approval channel (capacity 1), events channel (capacity 100), the request's context | the goroutine `run`, `StartSession`, `ApproveAction`, `GetSession` | no unapproved change in MANUAL, one approval per change, a truthful record, nothing after the verdict, an end |
| Executor, `internal/healing/tools.go` | none; the cluster | eight tools, four of them writing | one effect at one moment, on what the input is taken for and nothing else; success only when it happened |
| Healing API, `internal/api/healing.go`, `web/app/src/components/HealingStream.tsx` | positions already sent; the browser's list | start, get, approve, stream | events in order, once, complete; the verdict is the session's |
| Controller, `internal/cluster/controller.go` | registry of workers (mutex), one goroutine per worker | `AddCluster`, `RemoveCluster`, `poll`, `GetProblems` | one open worker per cluster, no older result over a newer one, stopped workers end |
| Cache, `internal/cache/redis.go` | one key per cluster with a TTL of 5 minutes; pub/sub | set, get, publish, subscribe | a missing key is not good health |
| Problem list, `internal/api/problems.go`, `websocket.go`, `useProblems.ts`, `Dashboard.tsx` | request in flight, list on display | fetch on interval and on announcement | the list never goes back; green only when all is well |
| Watcher, `internal/cluster/watcher.go`, `mapper.go` | the problems found so far in a poll | seven list calls, the rules of each kind, the knowledge base | a poll reports what lasted and nothing that never came true, in words the dashboard can explain, and age makes nothing better |
| Cluster administration, `internal/api/clusters.go`, `internal/store`, `cmd/server/main.go` | database row, Secret, worker | create, delete, reload | the three agree, also after failures and restarts |
| Test orchestrator, `testorch/` | runs and their results (mutex), one goroutine per run; the objects in the cluster | start a scenario, read results | a run shows its own object, mends what it broke, ends |
| Settings, `internal/api/settings.go`, `web/app/src/pages/Settings.tsx` | one row per setting; what a page has loaded, what is typed into it | get, put, load, type, save | success is shown of what was stored; a save changes what its administrator meant |
| Login, notifier, metrics, deployment | | | see "Not modelled" |

The healing API starts a session and lends it the request's context; from then
on the handlers and the session's goroutine share the session through the
agent's map, the agent writing under its mutex and the stream reading without
it. Approvals go through a channel that nobody drains between prompts. The
controller's workers share nothing but the registry and Redis; requests for the
list read the registry under a read lock and then Redis, key by key. Requests
that register and remove clusters change the database, the Secrets and the
registry one after the other, with nothing that keeps two requests apart. The
healing tools, the orchestrator's runs and Kubernetes itself meet only in the
cluster, where resource versions decide between them.

## Modules

**WriteGate** is the abstract promise of a session (documented as
"Autonomie-Modi" in `ARCHITECTURE.md`): in MANUAL mode each change of the
cluster spends one approval given before, none is spent twice, and a session
that is over changes nothing.

**HealingAgent** is one session. `pc` is the goroutine's place in `run`; the
actions follow the code: `Open`, the call to Claude (`Answer`, `ClaudeFails`),
`AppendText`, the end test (`Heal`, `UseTools`), and for each tool call
`Announce`, the select (`Decide`, `TimerFires`, `Abort`), `Execute`, `Record`;
then `EndTools` or `Exhausted`. `finalizeSession` is two steps, because a reader
without the lock can tell `Status` from `Result`. `ApproveAction` and
`CancelContext` are the environment. Answers are reduced to the number of texts,
the sequence of tool names and the stop reason; emitted events to their number,
since nothing receives from the channel. `Execute` is the executor's contract,
including writes that fail after they took effect. `clicks` and `effects` are
history: which clicks were accepted and for which prompt, and which calls
changed the cluster. The model is of the agent with a working executor, as the
tests build it; `cmd/server/main.go` passes none (see the hazards).

**HealingStream** extends it with the two handlers and the browser. The start
handler's return is `CancelContext`. The stream handler's loop is taken apart
into single reads of the session. A slice being appended to has its new length
before its new element (`fresh`, `Settle`), so the newest element may be read
half stored; and `len(session.Dialog)` after the loop may be the loop's last
reading or a new one, at the compiler's choice (`Mark`). `shown` is what the
browser received; `Cut` is the write timeout, the network or a closed dialog.
The browser may connect at any moment after the session exists, which covers
responses sent before the start handler has returned.

**ClusterController** is the registry, the workers and the cache. A worker goes
poll, set, inflight, publish, wait; `inflight` separates the moment the Redis
client checked the context from the moment Redis takes the write. The set of a
cluster's problems is a version number that only grows, so "older" has a
meaning; `got`, `cache` and `stored` are versions. A poll sees one version of
its cluster, although the code lists several kinds of object one after the
other. A write the client has given up is taken to be lost or done, not done
later.

**Display** is the abstract promise of the dashboard's list, with workers, cache
and requests left out: of each cluster it shows nothing, or a state the cluster
has really been in and no older one than it has shown before. Only of a cluster
for which a stopped worker's write came late may it fall back.

**ProblemList** extends ClusterController with the requests for the list: `Ask`
copies the ids, `Read` visits one key each, `Respond` answers. An answer is
displayed only if it belongs to the latest request (the query library's
cancellation, external). Even versions stand for clusters with problems. `best`
and `overtaken` are history: the newest version of a cluster ever displayed, so
that a cluster that was gone from the list for a while does not come back older,
and the clusters a stopped worker has written an older result for.

**StatusRules** holds the watcher's rules as functions of one object and the
time: `PodStatus` and its cases follow `podStatus` branch by branch, and the sets
`Critical`, `Warning`, `Info` are the keys of `statusMap` under the severity they
are given there. Names, namespaces and texts are left out, except which of the
two sentences a certificate's description is (`SaysExpired`). Durations are
numbers of steps. `Readable` says what `parseCerts` makes of the forms a
certificate may have.

**Watcher** is a poll, one list call after the other, while the cluster changes
and time passes. `Serve` is the moment at which the API server answers a call,
`List` the moment at which the watcher compares the dates of what it was served
with its clock; the cluster and the clock go on in between. One object of each
kind is enough, since the code looks at each for itself; two containers per pod
show which of them is quoted. `held`, `seen` and `lasting` are history: the
objects the cluster held at some moment of the poll, the problems that came true
of one of them by now, and the problems there were at every moment. The objects
that may appear are Kubernetes' and a parameter (`States`, `AtFirst`): the theorems
are about any objects whose dates are dates, **MCWatcher** gives those a small
cluster may hold to TLC. Among them is a pod without a phase, whose init
containers the code then looks at.

**ClusterLife** is the abstract promise of the administration, with requests,
Secrets and failing calls left out: a cluster is listed once and under a name of
its own, its registration is answered once, it is monitored while it is listed,
and it comes off the list unmonitored and for ever. Only a cluster whose deletion
overtook its registration may be monitored and not listed, until the next start.

**ClusterAdmin** is the table, the Secrets and the workers under the requests
that register and delete clusters, one call a step. Any call may fail; a failed
insert or a failed Secret write may have taken effect. `wired` tells the server
of the tests, with a secret store, from the one `main.go` builds, without. A
restart may come between any two calls; it loses the requests and adds the rows
again without their kubeconfig. The rest is history: how a registration ended
(`created`), the clusters a database call failed for (`dbFailed`), those whose
Secret a request for a deleted cluster of their name changed after they had
written it (`late`), and those whose own delete dropped it (`dropped`).

**ToolContract** is the abstract promise of a write tool: one effect at one
moment, at most once, on the object it names and on nothing of it but what the
tool takes its input for; success only if it took effect. What an input is taken
for is a parameter: the contract promises one reading of each call, not that it is
the one meant.

**Executor** is the four write tools, call by call. `Inputs` are what a call may
say, an odd number and nothing that is a number among them, and `Replicas` what
`scale_deployment` makes of it: nothing becomes `Zero`, an odd number whatever
`int32()` makes of it. What a scaling or cordoning tool read is its `copy`, and
the API server takes it back only while it is current. Since resource versions are
compared for equality only, it is enough to know which copies are current
(`fresh`). A pod that is being deleted is gone at once: its grace period is left
out.

**TestOrch** adds the orchestrator: runs that create and delete a pod or
deployment of a fixed name, or cordon and uncordon a node, next to each other, to
the tools and to Kubernetes, which writes the same objects' status. A call may
fail, also after it took effect, and the process may end at any point. The four
scenarios that create an object differ in what they create and are one action.

**SaveContract** is the abstract promise of a save, with pages and their loads
left out: it is made of what was typed and of values its page had read, one for
each setting it sends; each is stored once at most, at a moment of its own;
success is shown of a save that has stored them all, and a save that fails stops
where it is. Nothing else is ever stored.

**Settings** is the table of settings under the pages of several administrators.
The handlers read and store one setting a step, the `PUT` in any order, as a Go
map is ranged over; each call may fail, a failed store may have taken effect, and
a page may give a save up whose handler goes on. A row is the sequence of what
was stored in it, the last entry being the row itself, so that what a page has
loaded is a position in it and "out of date" has a meaning. `tick` is the request
of which a page says "Gespeichert". The reloads when a window gets the focus are
left out: they change what a page has loaded for something newer.

**HealingAgentProofs**, **HealingStreamProofs**, **ClusterControllerProofs**,
**ProblemListProofs**, **TestOrchProofs**, **ClusterAdminProofs**,
**WatcherProofs** and **SettingsProofs** hold the theorems.

## Runs

| Run | Shows | Bounds |
|---|---|---|
| `HealingAgent` | types, `OneClickOneChange`, `AuditTrail`, `ToolResultsComplete`, `FinalIsFinal`, `ComesCloser`, `ImplementsWriteGate`, `Finishes` | four modes (one unknown), three tools (read, write, unknown), one answer of up to two calls, two clicks, buffer of two |
| `HealingStream` | `InOrder`, `RestAfterEnd`, `StreamEnds` | MANUAL as the browser asks for, one text, one call, one click |
| `ClusterController` | `OneWorker`, `NoOlderResult`, `WorkersStop`, `ProblemsReported` | one cluster, two workers, two changes |
| `ProblemList` | `NeverBack`, `ImplementsDisplay` | one cluster, two workers, one change, three requests |
| `Watcher` (module MCWatcher) | `PollTruthful`, `OwnWords`, `ExpiryText`, `TimeHealsNothing` | one object of each of the seven kinds, two changes, three steps of the clock; five minutes are one step, thirty days and a day are two |
| `ClusterAdmin` | `NoStrayWorker`, `FailureIsUndone`, `SecretKept`, `Deletable`, `ImplementsClusterLife` | two requests at a time, two rows, two names with one Secret, one restart |
| `TestOrch` | `OwnObject`, `NothingLeft`, `ImplementsToolContract`, `RunsEnd` | two runs, one session's tools, a pod, a deployment, a node, two replica counts (zero and another) |
| `Settings` | `SavedIsStored`, `OnlyStaleReverts`, `ImplementsSaveContract` | two settings, two pages, two saves, two changes typed |
| `StaleConsent`, `WaitsForAdmin`, `NoFalseGreen`, `OwnCluster` | a documented promise that the code breaks, with the shortest run that breaks it | as small as the run needs |

Two calls in one answer and two clicks are enough for a click to meet a prompt it
was not given for, to be given twice and to be left over; a second iteration adds
only another answer, and the invariants proved below do not depend on the number.
An unknown mode and an unknown tool show the fall-through branches. A buffer
smaller than the number of events shows that a full channel drops and does not
block. In the controller clusters share nothing, so one is enough for every
interleaving of its workers; two workers suffice for a worker that lives on beside
its successor; three versions allow a stale write to be overtaken and to overtake.
Three requests let an answer arrive out of order, and a cluster disappear from the
list and come back; one change is enough for an older state to come back as. Two
changes of the cluster in one poll let a problem move from a kind that has been
listed to one that has not and back, and a problem come and go between two calls
or between an answer and the look at it; three steps of the clock take a pod past
its threshold and a certificate from healthy over expiring to expired and a day
beyond. Two requests and two rows bring a delete into the middle of a
registration, two deletes of one cluster, and a registration under the name of a
cluster that is being deleted; a third request adds no call that two do not make,
since requests meet only in pairs over one row or one Secret. Two runs are enough
for one to find, take over or tear down the other's object, and one tool for a
writer that belongs to neither; two counts for a call that asks for neither of
them. Two pages and two settings let two saves cross, one overwrite what the other
has stored, and one half of a save fail; two saves of one page show a handler that
goes on behind the next save.

Fairness. `HealingAgent`: weak fairness of the goroutine as a whole, which
stands for the Go scheduler and for calls that return or time out; nobody is
obliged to click or to cancel, and `Finishes` therefore promises an end only
without a prompt or with a context that is over. `HealingStream` adds the
handler that returns and the ticker. `ClusterController`: each worker runs;
strong fairness of `Exit`, because `select` chooses between ready cases at
random and so does not prefer the ticker for ever; strong fairness of `Collect`
and `SetLands` says that the cluster and Redis do not fail for ever, which is
the condition under which `ProblemsReported` holds. `ProblemList` claims no
liveness: a key may expire before each reading, and time is not modelled.
`ClusterAdmin`: each request goes on (its calls return or its context ends); for
`Deletable` an administrator who wants a cluster gone tries again after an error,
and the database does not refuse for ever (strong fairness of `Get` and `Erase`
for each cluster). Nothing is assumed of the Kubernetes API: the Secret may stay
undeletable for ever. `TestOrch`: each run's goroutine goes on, its calls ending
with the context's five minutes at the latest; tools, Kubernetes and the end of
the process are obliged to nothing. `Watcher` and `Settings` claim no liveness:
a poll is a straight line, and nobody is obliged to save.

`Watcher` and `TestOrch` are checked for deadlock. The others say
`CHECK_DEADLOCK FALSE`: sessions, workers, requests and pages come to rest, and the
bounds stop the rest.

## Findings

1. `agent.go:108`: a click is accepted without a pending write and pays for a
   later one (`FreshConsent`).
2. `api/healing.go:67`: a session ends with the request that started it
   (`WaitsForAdmin`).
3. `controller.go:121`: an expired or unreadable key is displayed as good health
   (`NoFalseGreen`).
4. `cmd/server/main.go:87`: after a restart the registered clusters are all
   monitored as the cluster the server runs in (`OwnCluster`).

## Seen and not run

Met while modelling, each clear from a line or two, without a run of its own:

- `agent.go:260`: in COUNTDOWN mode a rejection that is accepted when the timer
  has fired stays in the channel and rejects the next write.
- `api/healing.go:148`, `160`: the lengths are read again after the loops that
  used them; a message or result appended in between is counted as sent and never
  is (`Mark` in HealingStream).
- `api/healing.go:165`: the stream's last look at the dialog comes before its
  look at the status, so that the session's last message may never be sent.
- `HealingStream.tsx:64`: a session that failed or was aborted is displayed as
  healed, against `ARCHITECTURE.md:142`.
- `watcher.go:339`: `parseCerts` reads a certificate in PEM only with its private
  key in the same block, and else DER (`Readable` in StatusRules): that of a
  usual `kubernetes.io/tls` Secret is never parsed and expires unnoticed, against
  `ARCHITECTURE.md:92`.
- `watcher.go:140`: an evicted pod is in phase Failed and is reported as Error;
  the branch for Evicted is reached only with a phase the code does not know.
- `watcher.go:143`: a pod that cannot pull its image is in phase Pending and is
  reported as Pending, after five minutes; the branch for ImagePullBackOff is
  that of running pods.
- `watcher.go:81`: two problems of one node have one ID, which the dashboard
  uses as the key of its rows.
- `watcher.go:145`: a pod listed just before its five minutes are over, and judged
  after them, is reported although it started in time (also claims, 265, and
  certificates, 299). `PollTruthful` allows it.
- `watcher.go:310`: days are cut off towards zero, so that for a day after its end a
  certificate of status Expired is described as one that runs out in 0 days, where
  the knowledge base says "TLS-Zertifikat ist bereits abgelaufen." (`mapper.go:180`).
  `ExpiryText` allows that day.
- `cmd/server/main.go:175`: the cluster handlers are given no secret store (`wired =
  FALSE` in ClusterAdmin). Registering panics after the row is inserted, deleting
  after the worker is stopped and before the row is, at every try: a cluster can be
  added and never removed, against `ARCHITECTURE.md:229`. The agent is given no
  executor: the first tool that needs the cluster dereferences nil.
- `scenarios.go:193`: the teardown of one run of node-cordon uncordons the node that
  another run still shows. `OwnObject` promises a run its node only until another
  run writes it.
- `scenarios.go:169`: node-cordon "triggers Node.Unschedulable warning", which the
  watcher never reports: it looks at conditions only.
- `cmd/testorch/main.go` mounts nothing of the orchestrator's controller.
- `api/clusters.go:155`: names with one sanitized form share a Secret; the
  second upload replaces the first, and deleting either deletes both (`Shared`, the
  first of the exceptions of `SecretKept`; `late` and `dropped` are the others).
- `tools.go:220`: `scale_deployment`, which is to scale "to a specific replica count",
  scales to zero when its input has no number, and answers success; a fraction is
  cut off. `Replicas` says so, and `ImplementsToolContract` promises no better.
- `Settings.tsx:42`: what is typed wins over what is loaded for as long as the
  page is open, also after it has been saved: the page goes on showing, and
  saves again with every later change, a value another administrator has
  replaced since.
- `Settings.tsx:38`: "Gespeichert" stays for its two seconds when a second save
  has failed meanwhile, next to "Fehler beim Speichern".
- `auth/oidc.go:250`: a login by way of Google is recorded as one of Entra.
- `types.go:58`: `approval_required` is only ever emitted into the channel that
  nobody reads, so that no prompt appears.

## Proofs

All theorems hold for every value of the constants under the named assumptions
of the modules. `BoundsAssumption`, `WatcherAssumption`: the bounds are naturals;
`ObjectsAssumption`: the dates of the objects that may appear are dates and the
containers of a pod are numbered;
`TimesAssumption`: the thresholds are naturals and a day is not empty;
`ControllerAssumption`: there is a cluster; `AdminAssumption`: the numbers are
naturals and the marks for "none" are no names; `KindsAssumption`: pods,
deployments and nodes are different things, of which there are some, zero is a
count, and to delete is not one; `RunsAssumption`: runs are no sessions;
`FetchesAssumption`: the number of requests is a natural;
`SettingsAssumption`: there is a setting, and the first value and the mark for
"no request" differ from what may be typed and sent.

*HealingAgent.* The properties are not inductive by themselves. The invariant
joins the types with `Control` (which place goes with which call in hand and
which head of `todo`), facts about the channel and the call in hand (the click
in the channel is the last one accepted and has not been taken; a taken click is
not in the channel), and facts that tie the recorded actions to the changes of
the cluster. From it follow `Consent`, `Audit` and `Final`; `Complete` needs a
counting argument of its own about the texts, calls and results of an answer.
`Budget` counts: the clicks that decided the changes of a MANUAL session are
different approvals, so that there are no more changes than approvals. `Refines`
maps each step of a session to a step of `WriteGate` or to a stutter, the tickets
being the approving click in the channel and the one the call about to be executed
has taken. `Ending` is the part of termination that needs no fairness: the pair
`CallsLeft`, `WorkLeft` of naturals gets lexicographically smaller with every step
of the goroutine and is left alone by everybody else. That the goroutine does take
its steps, unless it waits for a click, is left to `Finishes`.

*HealingStream.* A step of the handlers, of the browser or of an append taken apart
is a step of the session or leaves it alone, so that the session's invariant holds
as before (`SessionKept`). `StreamTypeOK` keeps the handler's positions within the
session's lengths; `Behind` adds that everything written so far lies at or below
them, and that only a handler that has ended, of a session no longer running, has
written a verdict. From the two follow `Ordered` and `Rest`.

*ClusterController.* `Fresh` says that workers not yet started have nothing and
are not cancelled; with it `OneWorker` is inductive. `Order` says that results
and stored versions are never newer than the cluster, and that an open worker
about to store has the newest result of its cluster. A write that takes the
cache back must then come from a cancelled worker, which is `Newest`.

*ProblemList.* On top of the controller's invariant: a key holds what was last
written under it or is gone (`Cached`); nothing read or shown is newer than the
cluster (`Real`) or, of a cluster that is not `overtaken`, than its stored state
(`Known`); and what the current request has read is no older than anything shown
before (`Ahead`). `Ahead` survives a read because of `Known`, and `Known` the
controller's steps because stored results do not go back. `NoWayBack` follows,
and `Implements`: each step is one of `Display` or a stutter, a late write of a
stopped worker being the one that spoils a cluster.

*TestOrch.* The tools' promise rests on `Coherent`: a copy that is still current
equals the object it was read from, so that an update the API server accepts
changes only what was asked for. With `Calls` (a call in hand is one a tool makes)
this gives `Refines`: each step of a tool maps to a step of `ToolContract` or to a
stutter, next to any other writers. It says that a call has one effect, the one
its input is taken for; with no number in it that is a scaling to zero
(`Replicas`). A run's own objects follow from `Making` (what a run has made is the
object of its scenario, and only after it has set up) and `NodesStay` (nobody
deletes a node).

*ClusterAdmin.* The request that inserted a row is the only one that registers it
(`Alone`), names in the table are unique (`Unique`), a delete past its stop has
left no worker unless it overtook the registration (`Past`), and a registration
that has written its Secret still owns it when it comes to start the worker
(`Written`), or somebody accounts for the loss (`Accounted`: `Shared`, `late`,
`dropped`), which is all `Kept` says: a request that changes a Secret accounts for
itself and leaves every other row accounted for (`TouchesOthers`), because names
in the table are unique. Together with the properties themselves these are
inductive over every call that may fail and over restarts. `Lived` maps a cluster
to "new", "listed" or "gone" by its name and its row, and lets it be leaving while
a delete is past its worker. `Alone` makes every answer the first one, the unique
names are `NameFree` at each insert, and `Past` is the condition under which a row
may be erased; the calls that concern the Secret only are stutters.

*Watcher.* `Dated`: the cluster's objects, and those held during the poll, are
what the rules take them to be. `Listed`: in the middle of a poll what has been
found has been seen, and nothing that lasted is missing of the kinds listed so
far, nor of the answer in hand, which may only have grown older; `Older` and
`LaterFound` say what a problem becomes meanwhile. The look at the last answer
turns this into `Truthful`. From `Dated` follow `Sentence`, with a lemma on
division that cuts off towards zero (`Truncated`), and `Stays`, by a lemma for
each rule that a status only changes from Expiring to Expired when time passes
(`Older`). `Vocabulary` goes through the rules of each kind, for whatever object;
for a pod it needs that the container quoted is the first of those that have
something to say (`Least`, `FirstSpeaks`).

*Settings.* `Carried`: a request under way holds what was typed and, for the
rest, what its page had read, and what was typed and is no longer left has been
stored by it. `Finished`: a request whose success is shown has nothing left. Both
survive the other requests because rows only grow (`Stored`, `CarriedOn`).
Together they give `Stays`; `Reverts` compares the entry a request stores with the
one its page had read: either that is still the last one, and nothing changes, or
the page was out of date. `Keeps` forgets pages and loads: the values of a row are
the contract's `past`, and `Carried` says that the value a handler stores is the
one the contract wants of it (`BodyIsWanted`), so that each step of a handler is
one of the contract's and a page's step shows, forgets or stutters.

Only model-checked: liveness (`Finishes`, `StreamEnds`, `WorkersStop`,
`ProblemsReported`, `Deletable`, `RunsEnd`), because temporal induction under
fairness and `ENABLED` are beyond the prover. Every other property of the passing
runs is a theorem.

## Not modelled

- That the settings have an effect: no part of the program but the form reads
  them.
- Login (`auth/`): per request a sequence of library calls over cookies that the
  browser keeps; the server has no state that requests could race for.
- Teams notifier: built and dropped by `main.go`, called by nobody. Metrics:
  counters that nothing reads back. Migrations, Helm, end-to-end tests, test
  dashboard: no behaviour of the system.
- Sessions across a restart: they live in memory only, nothing is there to
  recover.
- Within the modelled parts: the wording of messages, problems and advice; the
  WebSocket's frames (they only cause a request that may come at any time
  anyway); `GET /{id}` of a session (one unlocked read); pod grace periods; a
  Redis write carried out long after the client gave it up.

## What is left

1. One hazard has no property: a verdict read before its reason (`agent.go:305`).
   HealingStream has the step (a "done" event that is not whole), but nothing
   that the program or its documents say is broken by it; what it costs the
   browser is a sentence.
2. ClusterLife leaves the Secrets out. What holds of them is `SecretKept`, with
   its three exceptions; a promise without them would need Secrets that are not
   shared between names and deletes that look at what they delete.
3. What is safety in the remaining liveness properties, as `ComesCloser` is for
   the session, has not been stated for the requests of ClusterAdmin and the runs
   of TestOrch: both are straight lines without a loop, so that the work left is
   the distance to the last step.

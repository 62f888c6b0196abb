-------------------------- MODULE ClusterController --------------------------
(***************************************************************************)
(* internal/cluster/controller.go over internal/cache/redis.go: one worker *)
(* goroutine per monitored cluster collects the cluster's problems, stores *)
(* them in Redis under a key that expires, and announces the poll.  What   *)
(* the browser makes of it is in ProblemList.                              *)
(*                                                                         *)
(* The state of a monitored cluster is a version number that grows each    *)
(* time its set of problems changes; a worker's result and a cached value  *)
(* are versions.                                                           *)
(***************************************************************************)
EXTENDS Naturals

CONSTANTS
  Clusters,       \* cluster ids
  MaxWorkers,     \* bound: workers started over the run
  MaxVersion      \* bound: changes of a cluster's problems

ASSUME ControllerAssumption ==
  Clusters # {} /\ MaxWorkers \in Nat /\ MaxVersion \in Nat \ {0}

VARIABLES
  clusters,       \* c.clusters: the registered worker of an id, 0 for none
  started,        \* number of workers started so far
  owner,          \* the cluster a worker polls
  wpc,            \* where a worker's goroutine stands
  cancelled,      \* the workers whose context has been cancelled
  got,            \* the result of a worker's last successful Collect
  cache,          \* the key problems:<id> in Redis, 0 when there is none
  stored,         \* history: the last version SetProblems wrote, 0 for none
  world           \* the clusters themselves

registry == <<clusters, started, owner, cancelled>>
workers == <<registry, wpc, got>>
redis == <<cache, stored>>
vars == <<workers, redis, world>>

Worker == 1..MaxWorkers
Live == {w \in Worker : wpc[w] \notin {"unborn", "gone"}}

Init ==
  /\ clusters = [c \in Clusters |-> 0]
  /\ started = 0
  /\ owner = [w \in Worker |-> CHOOSE c \in Clusters : TRUE]
  /\ wpc = [w \in Worker |-> "unborn"]
  /\ cancelled = {}
  /\ got = [w \in Worker |-> 0]
  /\ cache = [c \in Clusters |-> 0]
  /\ stored = [c \in Clusters |-> 0]
  /\ world = [c \in Clusters |-> 1]

-----------------------------------------------------------------------------
(* The registry.                                                            *)

\* MUTANT of Replaced: the entry is overwritten and the old worker runs on.
ReplacedUnnoticed(c) == {}

\* MUTANT of Replaced: a worker is cancelled whether or not there is one.
ReplacedUnchecked(c) == {clusters[c]}

\* The worker a new registration of c puts out of work.
Replaced(c) == {clusters[c]} \ {0}

\* AddCluster: without a usable kubeconfig nothing happens at all (no action);
\* otherwise the entry is replaced under the lock and a worker spawned.
AddCluster(c) ==
  /\ started < MaxWorkers
  /\ started' = started + 1
  /\ owner' = [owner EXCEPT ![started'] = c]
  /\ wpc' = [wpc EXCEPT ![started'] = "poll"]
  /\ cancelled' = cancelled \cup Replaced(c)
  /\ clusters' = [clusters EXCEPT ![c] = started']
  /\ UNCHANGED <<got, redis, world>>

\* RemoveCluster: the cached problems stay where they are.
RemoveCluster(c) ==
  /\ clusters[c] # 0
  /\ cancelled' = cancelled \cup {clusters[c]}
  /\ clusters' = [clusters EXCEPT ![c] = 0]
  /\ UNCHANGED <<started, owner, wpc, got, redis, world>>

-----------------------------------------------------------------------------
(* A worker: runWorker and poll.                                            *)

At(w, from, to) == wpc[w] = from /\ wpc' = [wpc EXCEPT ![w] = to]

\* Collect lists everything; once the context is over its calls fail.
Collect(w) ==
  /\ At(w, "poll", "set")
  /\ w \notin cancelled
  /\ got' = [got EXCEPT ![w] = world[owner[w]]]
  /\ UNCHANGED <<registry, redis, world>>

\* MUTANT of Dropped: an error ends the worker instead of the poll.
DroppedForGood(w) == At(w, "poll", "gone")

\* poll returns to runWorker's loop.
Dropped(w) == At(w, "poll", "wait")

\* One failing list call, and the whole poll is dropped: nothing is stored.
CollectFails(w) ==
  /\ Dropped(w)
  /\ UNCHANGED <<registry, got, redis, world>>

\* The Redis client looks at the context before it sends, not after.
MaySend(w) == w \notin cancelled

\* SetProblems takes a connection; from here on the write is on its way.
SetBegins(w) ==
  /\ At(w, "set", "inflight")
  /\ MaySend(w)
  /\ UNCHANGED <<registry, got, redis, world>>

\* The write reaches Redis, whatever happened to the worker meanwhile.
SetLands(w) ==
  /\ At(w, "inflight", "publish")
  /\ cache' = [cache EXCEPT ![owner[w]] = got[w]]
  /\ stored' = [stored EXCEPT ![owner[w]] = got[w]]
  /\ UNCHANGED <<registry, got, world>>

\* No connection for a cancelled worker, or Redis does not take the write: the
\* error is logged and the poll goes on.
SetFails(w) ==
  /\ \/ ~MaySend(w) /\ At(w, "set", "publish")
     \/ At(w, "inflight", "publish")
  /\ UNCHANGED <<registry, got, redis, world>>

\* Publish: announced or not, the poll is over.
Publish(w) ==
  /\ At(w, "publish", "wait")
  /\ UNCHANGED <<registry, got, redis, world>>

\* The ticker fires; select may prefer it to a context that is over.
Tick(w) ==
  /\ At(w, "wait", "poll")
  /\ UNCHANGED <<registry, got, redis, world>>

\* MUTANT of Stop: runWorker only looks at the ticker.
StopNever(w) == FALSE /\ wpc' = wpc

\* runWorker leaves its loop when select sees the cancelled context.
Stop(w) == w \in cancelled /\ At(w, "wait", "gone")

Exit(w) ==
  /\ Stop(w)
  /\ UNCHANGED <<registry, got, redis, world>>

Poll(w) ==
  \/ Collect(w) \/ CollectFails(w)
  \/ SetBegins(w) \/ SetLands(w) \/ SetFails(w) \/ Publish(w)

-----------------------------------------------------------------------------
(* The environment.                                                         *)

\* problemsTTL passes without a write: Redis drops the key.
Expire(c) ==
  /\ cache[c] # 0
  /\ cache' = [cache EXCEPT ![c] = 0]
  /\ UNCHANGED <<workers, stored, world>>

\* Something breaks in the cluster, or is repaired.
Change(c) ==
  /\ world[c] < MaxVersion
  /\ world' = [world EXCEPT ![c] = @ + 1]
  /\ UNCHANGED <<workers, redis>>

Next ==
  \/ \E c \in Clusters :
       AddCluster(c) \/ RemoveCluster(c) \/ Expire(c) \/ Change(c)
  \/ \E w \in Worker : Poll(w) \/ Tick(w) \/ Exit(w)

\* Every call of a poll returns and tickers tick.  Select is not biased, so a
\* context that stays cancelled is seen although the ticker competes with it.
\* And, for ProblemsReported, neither the cluster nor Redis fails for ever.
Fairness ==
  \A w \in Worker :
    /\ WF_vars(Poll(w) \/ Tick(w)) /\ SF_vars(Exit(w))
    /\ SF_vars(Collect(w)) /\ SF_vars(SetLands(w))

Spec == Init /\ [][Next]_vars /\ Fairness

-----------------------------------------------------------------------------
(* What the controller guarantees.                                          *)

\* Every variable has its type.
TypeOK ==
  /\ clusters \in [Clusters -> 0..MaxWorkers]
  /\ started \in 0..MaxWorkers
  /\ owner \in [Worker -> Clusters]
  /\ wpc \in [Worker -> {"unborn", "poll", "set", "inflight", "publish",
                         "wait", "gone"}]
  /\ cancelled \subseteq Worker
  /\ got \in [Worker -> Nat]
  /\ cache \in [Clusters -> Nat]
  /\ stored \in [Clusters -> Nat]
  /\ world \in [Clusters -> 1..MaxVersion]

\* A cluster is polled by the worker the registry names and by no other: every
\* worker that runs with an open context is the registered one of its cluster,
\* and a registered worker has not been stopped (controller.go:52-57, 64-71).
OneWorker ==
  /\ \A w \in Live \ cancelled : clusters[owner[w]] = w
  /\ \A c \in Clusters : clusters[c] # 0 =>
       clusters[c] \in Live \ cancelled /\ owner[clusters[c]] = c

\* The stored problems of a cluster never go back to an older state, unless a
\* worker that was replaced or removed had its write on the way
\* (controller.go:89-98, redis.go:37-44).
NoOlderResult ==
  [][\A c \in Clusters : stored'[c] < stored[c] =>
       \E w \in cancelled : owner[w] = c /\ SetLands(w)]_vars

\* A worker whose cluster was removed or replaced comes to an end
\* (controller.go:79-86).
WorkersStop == \A w \in Worker : (w \in cancelled) ~> (wpc[w] = "gone")

\* What happens in a monitored cluster reaches the cache, as long as polls
\* succeed again and again and the cluster stays registered
\* (controller.go:73-107).
ProblemsReported ==
  \A c \in Clusters :
    (clusters[c] # 0) ~> (clusters[c] = 0 \/ cache[c] = world[c])
==============================================================================

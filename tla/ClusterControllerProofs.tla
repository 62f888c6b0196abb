----------------------- MODULE ClusterControllerProofs -----------------------
(***************************************************************************)
(* Theorems about ClusterController, for every set of clusters and every   *)
(* number of workers and versions.  Fresh describes workers not started    *)
(* yet; Order says that what an open worker is about to store is at least  *)
(* as new as anything stored or collected for its cluster.                 *)
(***************************************************************************)
EXTENDS ClusterController, TLAPS

Open == Live \ cancelled

\* Workers are started in order, with nothing collected and an open context;
\* only a cancelled worker ends.
Fresh ==
  \A w \in Worker :
    /\ w > started => wpc[w] = "unborn" /\ got[w] = 0 /\ w \notin cancelled
    /\ wpc[w] = "gone" => w \in cancelled

\* Results are no newer than the world; the open worker with a result in hand
\* has the newest one of its cluster.
Order ==
  /\ \A w \in Worker : got[w] <= world[owner[w]]
  /\ \A c \in Clusters : stored[c] <= world[c]
  /\ \A w \in Open : wpc[w] \in {"set", "inflight"} =>
       /\ stored[owner[w]] <= got[w]
       /\ \A v \in Worker : owner[v] = owner[w] => got[v] <= got[w]

Inv == TypeOK /\ Fresh /\ OneWorker /\ Order

-----------------------------------------------------------------------------

\* Moving one worker from one place to another keeps the type of wpc.
LEMMA Moved ==
  ASSUME TypeOK, NEW w \in Worker, NEW from,
         NEW to \in {"poll", "set", "inflight", "publish", "wait", "gone"},
         At(w, from, to)
  PROVE  wpc' \in [Worker -> {"unborn", "poll", "set", "inflight", "publish",
                              "wait", "gone"}]
BY DEF TypeOK, At

\* Types are preserved by every step.
LEMMA Typed ==
  ASSUME TypeOK, [Next]_vars
  PROVE  TypeOK'
<1>1. ASSUME NEW c \in Clusters, AddCluster(c) PROVE TypeOK'
  <2>1. started' \in 1..MaxWorkers
    BY <1>1, ControllerAssumption DEF AddCluster, TypeOK
  <2>2. owner' \in [Worker -> Clusters]
    BY <1>1, <2>1 DEF AddCluster, TypeOK, Worker
  <2>3. wpc' \in [Worker -> {"unborn", "poll", "set", "inflight", "publish",
                             "wait", "gone"}]
    BY <1>1, <2>1 DEF AddCluster, TypeOK, Worker
  <2>4. cancelled' \subseteq Worker
    <3>1. clusters[c] \in 0..MaxWorkers
      BY DEF TypeOK
    <3>2. Replaced(c) \subseteq Worker
      BY <3>1, ControllerAssumption DEF Replaced, Worker
    <3> QED BY <1>1, <3>2 DEF AddCluster, TypeOK
  <2>5. clusters' \in [Clusters -> 0..MaxWorkers]
    BY <1>1, <2>1, ControllerAssumption DEF AddCluster, TypeOK
  <2> QED
    BY <1>1, <2>1, <2>2, <2>3, <2>4, <2>5, ControllerAssumption
    DEF AddCluster, TypeOK, redis, Worker
<1>2. ASSUME NEW c \in Clusters, RemoveCluster(c) PROVE TypeOK'
  <2>1. cancelled' \subseteq Worker
    <3>1. clusters[c] \in 0..MaxWorkers
      BY DEF TypeOK
    <3>2. clusters[c] \in Worker
      BY <1>2, <3>1, ControllerAssumption DEF RemoveCluster, Worker
    <3> QED BY <1>2, <3>2 DEF RemoveCluster, TypeOK
  <2>2. clusters' \in [Clusters -> 0..MaxWorkers]
    BY <1>2, ControllerAssumption DEF RemoveCluster, TypeOK
  <2> QED BY <1>2, <2>1, <2>2 DEF RemoveCluster, TypeOK, redis, Worker
<1>3. ASSUME NEW c \in Clusters, Expire(c) PROVE TypeOK'
  BY <1>3 DEF Expire, TypeOK, workers, registry, Worker
<1>4. ASSUME NEW c \in Clusters, Change(c) PROVE TypeOK'
  <2>1. world' \in [Clusters -> 1..MaxVersion]
    BY <1>4, ControllerAssumption DEF Change, TypeOK
  <2> QED BY <1>4, <2>1 DEF Change, TypeOK, workers, registry, redis, Worker
<1>5. ASSUME NEW w \in Worker, Collect(w) PROVE TypeOK'
  <2>1. got' \in [Worker -> Nat]
    BY <1>5, ControllerAssumption DEF Collect, TypeOK
  <2> QED BY <1>5, <2>1, Moved DEF Collect, TypeOK, registry, redis, Worker
<1>6. ASSUME NEW w \in Worker, CollectFails(w) PROVE TypeOK'
  BY <1>6, Moved DEF CollectFails, Dropped, TypeOK, registry, redis, Worker
<1>7. ASSUME NEW w \in Worker, SetBegins(w) PROVE TypeOK'
  BY <1>7, Moved DEF SetBegins, TypeOK, registry, redis, Worker
<1>8. ASSUME NEW w \in Worker, SetLands(w) PROVE TypeOK'
  <2>1. cache' \in [Clusters -> Nat] /\ stored' \in [Clusters -> Nat]
    BY <1>8 DEF SetLands, TypeOK
  <2> QED BY <1>8, <2>1, Moved DEF SetLands, TypeOK, registry, Worker
<1>9. ASSUME NEW w \in Worker, SetFails(w) PROVE TypeOK'
  BY <1>9, Moved DEF SetFails, TypeOK, registry, redis, Worker
<1>10. ASSUME NEW w \in Worker, Publish(w) PROVE TypeOK'
  BY <1>10, Moved DEF Publish, TypeOK, registry, redis, Worker
<1>11. ASSUME NEW w \in Worker, Tick(w) PROVE TypeOK'
  BY <1>11, Moved DEF Tick, TypeOK, registry, redis, Worker
<1>12. ASSUME NEW w \in Worker, Exit(w) PROVE TypeOK'
  BY <1>12, Moved DEF Exit, Stop, TypeOK, registry, redis, Worker
<1>13. CASE UNCHANGED vars
  BY <1>13 DEF vars, workers, registry, redis, TypeOK, Worker
<1> QED BY <1>1, <1>2, <1>3, <1>4, <1>5, <1>6, <1>7, <1>8, <1>9, <1>10,
           <1>11, <1>12, <1>13 DEF Next, Poll

-----------------------------------------------------------------------------

\* A worker that moves between two places of its loop stays alive, and nothing
\* about the other workers changes.
LEMMA StillLive ==
  ASSUME TypeOK, Fresh, NEW w \in Worker,
         NEW from \in {"poll", "set", "inflight", "publish", "wait"},
         NEW to \in {"poll", "set", "inflight", "publish", "wait"},
         At(w, from, to), UNCHANGED registry
  PROVE  /\ Live' = Live /\ w \in Live /\ w <= started
         /\ \A v \in Worker : wpc'[v] = IF v = w THEN to ELSE wpc[v]
         /\ \A v \in Worker : v > started => wpc'[v] = "unborn"
         /\ \A v \in Worker : wpc'[v] = "gone" => v \in cancelled
<1>1. \A v \in Worker : wpc'[v] = IF v = w THEN to ELSE wpc[v]
  BY DEF TypeOK, At
<1>2. wpc[w] = from
  BY DEF At
<1>3. w <= started
  BY <1>2, ControllerAssumption DEF Fresh, TypeOK, Worker
<1>4. Live' = Live
  BY <1>1, <1>2 DEF Live
<1> QED
  BY <1>1, <1>2, <1>3, <1>4, ControllerAssumption DEF Live, Fresh, Worker, TypeOK

\* A step that leaves the registry and the live workers alone keeps OneWorker.
LEMMA SameRegistry ==
  ASSUME OneWorker, UNCHANGED registry, Live' = Live
  PROVE  OneWorker'
BY DEF OneWorker, registry

\* A new registration takes the cluster over from the worker before it.
LEMMA Adding ==
  ASSUME TypeOK, Fresh, OneWorker, NEW c \in Clusters, AddCluster(c)
  PROVE  Fresh' /\ OneWorker'
<1> DEFINE n == started + 1
<1>1. n \in Worker /\ started' = n /\ wpc[n] = "unborn" /\ got[n] = 0
      /\ n \notin cancelled
  BY ControllerAssumption DEF AddCluster, TypeOK, Fresh, Worker
<1>2. \A v \in Worker : /\ wpc'[v] = IF v = n THEN "poll" ELSE wpc[v]
                        /\ owner'[v] = IF v = n THEN c ELSE owner[v]
  BY <1>1 DEF AddCluster, TypeOK
<1>3. \A d \in Clusters : clusters'[d] = IF d = c THEN n ELSE clusters[d]
  BY <1>1 DEF AddCluster, TypeOK
<1>4. \A v \in Worker : v \in cancelled' <=> v \in cancelled \/ v = clusters[c]
  BY ControllerAssumption DEF AddCluster, Replaced, Worker
<1>5. Live' = Live \cup {n} /\ n \notin Live
  BY <1>1, <1>2 DEF Live
<1>6. clusters[c] # n
  BY <1>1, <1>5, ControllerAssumption DEF OneWorker, Worker
<1>7. Fresh'
  <2> SUFFICES ASSUME NEW v \in Worker
               PROVE  /\ v > n => wpc'[v] = "unborn" /\ got'[v] = 0
                                  /\ v \notin cancelled'
                      /\ wpc'[v] = "gone" => v \in cancelled'
    BY <1>1 DEF Fresh, Worker
  <2>1. v > n => v > started /\ v # n
    BY <1>1, ControllerAssumption DEF Worker, TypeOK
  <2>2. v > n => v # clusters[c]
    <3>1. v > n => v # 0 /\ v \notin Live
      BY <2>1, ControllerAssumption DEF Fresh, Live, Worker
    <3> QED BY <3>1 DEF OneWorker
  <2> QED BY <2>1, <2>2, <1>2, <1>4 DEF Fresh, AddCluster
<1>8. OneWorker'
  <2>1. ASSUME NEW v \in Worker, v \in Live', v \notin cancelled'
        PROVE  clusters'[owner'[v]] = v
    <3>1. CASE v = n
      BY <3>1, <1>2, <1>3
    <3>2. CASE v # n
      <4>1. v \in Live \ cancelled /\ v # clusters[c]
        BY <3>2, <2>1, <1>4, <1>5
      <4>2. clusters[owner[v]] = v /\ owner[v] \in Clusters
        BY <4>1 DEF OneWorker, TypeOK
      <4> QED BY <3>2, <4>1, <4>2, <1>2, <1>3
    <3> QED BY <3>1, <3>2
  <2>2. ASSUME NEW d \in Clusters, clusters'[d] # 0
        PROVE  /\ clusters'[d] \in Live' \ cancelled'
               /\ owner'[clusters'[d]] = d
    <3>1. CASE d = c
      BY <3>1, <1>1, <1>2, <1>3, <1>4, <1>5, <1>6
    <3>2. CASE d # c
      <4>1. /\ clusters'[d] = clusters[d] /\ clusters[d] \in Live \ cancelled
            /\ owner[clusters[d]] = d /\ clusters[d] \in Worker
        BY <3>2, <2>2, <1>3 DEF OneWorker, Live
      <4>2. clusters[d] # clusters[c]
        BY <3>2, <4>1, <2>2 DEF OneWorker
      <4>3. clusters[d] # n
        BY <4>1, <1>5
      <4> QED BY <4>1, <4>2, <4>3, <1>2, <1>4, <1>5
    <3> QED BY <3>1, <3>2
  <2>3. Live' \subseteq Worker
    BY DEF Live, Worker
  <2> QED BY <2>1, <2>2, <2>3 DEF OneWorker
<1> QED BY <1>7, <1>8

\* A removal stops the registered worker and no other.
LEMMA Removing ==
  ASSUME TypeOK, Fresh, OneWorker, NEW c \in Clusters, RemoveCluster(c)
  PROVE  Fresh' /\ OneWorker'
<1>1. \A d \in Clusters : clusters'[d] = IF d = c THEN 0 ELSE clusters[d]
  BY DEF RemoveCluster, TypeOK
<1>2. cancelled' = cancelled \cup {clusters[c]} /\ Live' = Live
      /\ owner' = owner /\ started' = started /\ got' = got /\ wpc' = wpc
  BY DEF RemoveCluster, Live
<1>3. clusters[c] \in Live /\ owner[clusters[c]] = c
  BY DEF RemoveCluster, OneWorker
<1>4. Fresh'
  BY <1>2, <1>3 DEF Fresh, Live
<1>5. OneWorker'
  <2>1. ASSUME NEW v \in Live, v \notin cancelled'
        PROVE  clusters'[owner[v]] = v
    <3>1. clusters[owner[v]] = v /\ owner[v] \in Clusters /\ v # clusters[c]
      BY <2>1, <1>2 DEF OneWorker, TypeOK, Live
    <3> QED BY <3>1, <1>1
  <2>2. ASSUME NEW d \in Clusters, clusters'[d] # 0
        PROVE  /\ clusters'[d] \in Live \ cancelled'
               /\ owner[clusters'[d]] = d
    <3>1. /\ d # c /\ clusters'[d] = clusters[d] /\ owner[clusters[d]] = d
          /\ clusters[d] \in Live \ cancelled
      BY <2>2, <1>1 DEF OneWorker
    <3> QED BY <3>1, <1>2, <1>3
  <2> QED BY <2>1, <2>2, <1>2 DEF OneWorker
<1> QED BY <1>4, <1>5

\* The registry names the worker of each cluster, whatever step is taken.
LEMMA RegistryStep ==
  ASSUME TypeOK, Fresh, OneWorker, [Next]_vars
  PROVE  Fresh' /\ OneWorker'
<1>1. ASSUME NEW c \in Clusters, AddCluster(c) PROVE Fresh' /\ OneWorker'
  BY <1>1, Adding
<1>2. ASSUME NEW c \in Clusters, RemoveCluster(c) PROVE Fresh' /\ OneWorker'
  BY <1>2, Removing
<1>3. ASSUME NEW c \in Clusters, Expire(c) \/ Change(c)
      PROVE  Fresh' /\ OneWorker'
  <2>1. UNCHANGED workers
    BY <1>3 DEF Expire, Change
  <2> QED BY <2>1, SameRegistry DEF Fresh, Live, workers, registry
<1>4. ASSUME NEW w \in Worker, Collect(w) PROVE Fresh' /\ OneWorker'
  <2>1. UNCHANGED registry /\ At(w, "poll", "set")
    BY <1>4 DEF Collect
  <2>2. \A v \in Worker : v > started => got'[v] = got[v]
    <3>1. w <= started
      BY <2>1, StillLive
    <3>2. \A v \in Worker : v # w => got'[v] = got[v]
      BY <1>4 DEF Collect, TypeOK
    <3> QED BY <3>1, <3>2, ControllerAssumption DEF TypeOK, Worker
  <2> QED BY <2>1, <2>2, StillLive, SameRegistry DEF Fresh, registry
<1>5. ASSUME NEW w \in Worker, UNCHANGED registry, got' = got,
             NEW from \in {"poll", "set", "inflight", "publish", "wait"},
             NEW to \in {"poll", "set", "inflight", "publish", "wait"},
             At(w, from, to)
      PROVE  Fresh' /\ OneWorker'
  BY <1>5, StillLive, SameRegistry DEF Fresh, registry
<1>6. ASSUME NEW w \in Worker, CollectFails(w) PROVE Fresh' /\ OneWorker'
  BY <1>6, <1>5 DEF CollectFails, Dropped
<1>7. ASSUME NEW w \in Worker, SetBegins(w) PROVE Fresh' /\ OneWorker'
  BY <1>7, <1>5 DEF SetBegins
<1>8. ASSUME NEW w \in Worker, SetLands(w) PROVE Fresh' /\ OneWorker'
  BY <1>8, <1>5 DEF SetLands
<1>9. ASSUME NEW w \in Worker, SetFails(w) PROVE Fresh' /\ OneWorker'
  BY <1>9, <1>5 DEF SetFails
<1>10. ASSUME NEW w \in Worker, Publish(w) PROVE Fresh' /\ OneWorker'
  BY <1>10, <1>5 DEF Publish
<1>11. ASSUME NEW w \in Worker, Tick(w) PROVE Fresh' /\ OneWorker'
  BY <1>11, <1>5 DEF Tick
<1>12. ASSUME NEW w \in Worker, Exit(w) PROVE Fresh' /\ OneWorker'
  <2>1. UNCHANGED registry /\ got' = got /\ w \in cancelled /\ wpc[w] = "wait"
    BY <1>12 DEF Exit, Stop, At
  <2>2. \A v \in Worker : wpc'[v] = IF v = w THEN "gone" ELSE wpc[v]
    BY <1>12 DEF Exit, Stop, At, TypeOK
  <2>3. Live' = Live \ {w}
    BY <2>2 DEF Live
  <2>4. Fresh'
    BY <2>1, <2>2 DEF Fresh, registry
  <2>5. OneWorker'
    BY <2>1, <2>3 DEF OneWorker, registry
  <2> QED BY <2>4, <2>5
<1>13. CASE UNCHANGED vars
  BY <1>13, SameRegistry DEF vars, workers, registry, Fresh, Live
<1> QED BY <1>1, <1>2, <1>3, <1>4, <1>6, <1>7, <1>8, <1>9, <1>10, <1>11,
           <1>12, <1>13 DEF Next, Poll

-----------------------------------------------------------------------------

\* Order needs nothing but results, writes, open workers and a growing world.
LEMMA SameOrder ==
  ASSUME TypeOK, Order, UNCHANGED <<owner, got, stored>>,
         \A c \in Clusters : world'[c] >= world[c] /\ world'[c] \in Nat,
         \A w \in Open' : wpc'[w] \in {"set", "inflight"} =>
           w \in Open /\ wpc[w] \in {"set", "inflight"}
  PROVE  Order'
<1>1. \A w \in Worker : got'[w] <= world'[owner'[w]]
  BY DEF Order, TypeOK
<1>2. \A c \in Clusters : stored'[c] <= world'[c]
  BY DEF Order, TypeOK
<1> QED BY <1>1, <1>2 DEF Order

\* What an open worker is about to store stays the newest of its cluster.
LEMMA OrderStep ==
  ASSUME Inv, [Next]_vars
  PROVE  Order'
<1> USE DEF Inv
<1>0. /\ world \in [Clusters -> Nat] /\ owner \in [Worker -> Clusters]
      /\ Open \subseteq Worker
  BY DEF TypeOK, Open, Live
<1>1. ASSUME NEW c \in Clusters, AddCluster(c) PROVE Order'
  <2> DEFINE n == started + 1
  <2>1. n \in Worker /\ got[n] = 0 /\ started' = n
    BY <1>1, ControllerAssumption DEF AddCluster, TypeOK, Fresh, Worker
  <2>2. \A v \in Worker : /\ wpc'[v] = IF v = n THEN "poll" ELSE wpc[v]
                          /\ owner'[v] = IF v = n THEN c ELSE owner[v]
    BY <1>1, <2>1 DEF AddCluster, TypeOK
  <2>3. UNCHANGED <<got, world, stored>> /\ cancelled \subseteq cancelled'
    BY <1>1 DEF AddCluster, redis
  <2>4. \A w \in Worker : got'[w] <= world'[owner'[w]]
    BY <2>1, <2>2, <2>3, <1>0 DEF Order, TypeOK
  <2>5. \A w \in Open' : wpc'[w] \in {"set", "inflight"} =>
          w # n /\ w \in Open /\ owner'[w] = owner[w] /\ wpc'[w] = wpc[w]
    BY <2>1, <2>2, <2>3 DEF Open, Live
  <2>6. ASSUME NEW w \in Open', wpc'[w] \in {"set", "inflight"}
        PROVE  /\ stored'[owner'[w]] <= got'[w]
               /\ \A v \in Worker : owner'[v] = owner'[w] => got'[v] <= got'[w]
    <3>1. w \in Open /\ owner'[w] = owner[w] /\ wpc[w] \in {"set", "inflight"}
      BY <2>5, <2>6
    <3>2. stored'[owner'[w]] <= got'[w]
      BY <3>1, <2>3 DEF Order
    <3>3. ASSUME NEW v \in Worker, owner'[v] = owner'[w]
          PROVE  got'[v] <= got'[w]
      <4>1. CASE v = n
        BY <4>1, <3>1, <2>1, <2>3, <1>0 DEF TypeOK
      <4>2. CASE v # n
        BY <4>2, <3>3, <3>1, <2>2, <2>3 DEF Order
      <4> QED BY <4>1, <4>2
    <3> QED BY <3>2, <3>3
  <2> QED BY <2>3, <2>4, <2>6 DEF Order
<1>2. ASSUME NEW c \in Clusters, RemoveCluster(c) PROVE Order'
  BY <1>2, <1>0, SameOrder DEF RemoveCluster, redis, Open, Live
<1>3. ASSUME NEW c \in Clusters, Expire(c) PROVE Order'
  BY <1>3, <1>0, SameOrder DEF Expire, workers, registry, Open, Live
<1>4. ASSUME NEW c \in Clusters, Change(c) PROVE Order'
  <2>1. \A d \in Clusters : world'[d] >= world[d] /\ world'[d] \in Nat
    BY <1>4, <1>0 DEF Change
  <2> QED
    BY <1>4, <2>1, SameOrder DEF Change, workers, registry, redis, Open, Live
<1>5. ASSUME NEW w \in Worker, Collect(w) PROVE Order'
  <2>1. /\ UNCHANGED <<owner, clusters, cancelled, stored, world>>
        /\ w \in Open
    BY <1>5 DEF Collect, registry, redis, At, Open, Live
  <2>2. \A v \in Worker :
          /\ got'[v] = IF v = w THEN world[owner[w]] ELSE got[v]
          /\ wpc'[v] = IF v = w THEN "set" ELSE wpc[v]
    BY <1>5 DEF Collect, At, TypeOK
  <2>3. \A v \in Worker : got'[v] <= world[owner[v]]
    BY <2>2, <1>0 DEF Order
  <2>4. ASSUME NEW u \in Open', wpc'[u] \in {"set", "inflight"}
        PROVE  /\ stored[owner[u]] <= got'[u]
               /\ \A v \in Worker : owner[v] = owner[u] => got'[v] <= got'[u]
    <3>0. u \in Worker
      BY DEF Open, Live
    <3>1. CASE u = w
      BY <3>1, <2>2, <2>3, <1>0 DEF Order
    <3>2. CASE u # w
      <4>1. u \in Open /\ wpc[u] \in {"set", "inflight"}
        BY <3>0, <3>2, <2>1, <2>2, <2>4 DEF Open, Live
      <4>2. owner[u] # owner[w]
        BY <3>2, <4>1, <2>1 DEF OneWorker, Open
      <4> QED BY <3>0, <3>2, <4>1, <4>2, <2>2 DEF Order
    <3> QED BY <3>1, <3>2
  <2> QED BY <2>1, <2>3, <2>4 DEF Order
<1>6. ASSUME NEW w \in Worker, NEW from, NEW to \in {"wait", "publish", "poll"},
             At(w, from, to), UNCHANGED <<registry, got, redis, world>>
      PROVE  Order'
  <2>1. \A v \in Worker : wpc'[v] \in {"set", "inflight"} => wpc'[v] = wpc[v]
    BY <1>6 DEF At, TypeOK
  <2> QED BY <1>6, <2>1, <1>0, SameOrder DEF registry, redis, Open, Live
<1>7. ASSUME NEW w \in Worker, CollectFails(w) PROVE Order'
  BY <1>7, <1>6 DEF CollectFails, Dropped
<1>8. ASSUME NEW w \in Worker, SetBegins(w) PROVE Order'
  <2>1. \A v \in Worker : wpc'[v] \in {"set", "inflight"} =>
                            wpc[v] \in {"set", "inflight"}
    BY <1>8 DEF SetBegins, At, TypeOK
  <2> QED
    BY <1>8, <2>1, <1>0, SameOrder DEF SetBegins, registry, redis, Open, Live
<1>9. ASSUME NEW w \in Worker, SetLands(w) PROVE Order'
  <2>1. /\ UNCHANGED <<owner, got, cancelled, world>>
        /\ \A c \in Clusters :
             stored'[c] = IF c = owner[w] THEN got[w] ELSE stored[c]
    BY <1>9, <1>0 DEF SetLands, registry, TypeOK
  <2>2. \A v \in Worker : wpc'[v] \in {"set", "inflight"} => wpc'[v] = wpc[v]
    BY <1>9 DEF SetLands, At, TypeOK
  <2>3. \A c \in Clusters : stored'[c] <= world[c]
    BY <2>1, <1>0 DEF Order
  <2>4. ASSUME NEW u \in Open', wpc'[u] \in {"set", "inflight"}
        PROVE  stored'[owner[u]] <= got[u]
    <3>1. u \in Open /\ wpc[u] \in {"set", "inflight"}
      BY <2>1, <2>2, <2>4 DEF Open, Live
    <3> QED BY <3>1, <2>1, <1>0 DEF Order
  <2>5. \A u \in Open' : wpc'[u] \in {"set", "inflight"} =>
          u \in Open /\ wpc[u] \in {"set", "inflight"}
    BY <2>1, <2>2 DEF Open, Live
  <2> QED BY <2>1, <2>3, <2>4, <2>5 DEF Order
<1>10. ASSUME NEW w \in Worker, SetFails(w) PROVE Order'
  BY <1>10, <1>6 DEF SetFails
<1>11. ASSUME NEW w \in Worker, Publish(w) PROVE Order'
  BY <1>11, <1>6 DEF Publish
<1>12. ASSUME NEW w \in Worker, Tick(w) PROVE Order'
  BY <1>12, <1>6 DEF Tick
<1>13. ASSUME NEW w \in Worker, Exit(w) PROVE Order'
  <2>1. \A v \in Worker : wpc'[v] \in {"set", "inflight"} => wpc'[v] = wpc[v]
    BY <1>13 DEF Exit, Stop, At, TypeOK
  <2> QED
    BY <1>13, <2>1, <1>0, SameOrder DEF Exit, registry, redis, Open, Live
<1>14. CASE UNCHANGED vars
  BY <1>14, <1>0, SameOrder DEF vars, workers, registry, redis, Open, Live
<1> QED BY <1>1, <1>2, <1>3, <1>4, <1>5, <1>7, <1>8, <1>9, <1>10, <1>11,
           <1>12, <1>13, <1>14 DEF Next, Poll

\* Nothing is registered, collected or stored at the start.
LEMMA Initially == Init => Inv
<1> SUFFICES ASSUME Init PROVE Inv
  OBVIOUS
<1>1. PICK home \in Clusters : owner = [w \in Worker |-> home]
  <2>1. (CHOOSE c \in Clusters : TRUE) \in Clusters
    BY ControllerAssumption
  <2> QED BY <2>1 DEF Init
<1>2. TypeOK
  <2>1. owner \in [Worker -> Clusters]
    BY <1>1
  <2>2. started \in 0..MaxWorkers /\ clusters \in [Clusters -> 0..MaxWorkers]
    BY ControllerAssumption DEF Init
  <2>3. world \in [Clusters -> 1..MaxVersion]
    BY ControllerAssumption DEF Init
  <2>4. /\ wpc \in [Worker -> {"unborn", "poll", "set", "inflight", "publish",
                               "wait", "gone"}]
        /\ got \in [Worker -> Nat] /\ cancelled \subseteq Worker
        /\ cache \in [Clusters -> Nat] /\ stored \in [Clusters -> Nat]
    BY DEF Init
  <2> QED BY <2>1, <2>2, <2>3, <2>4 DEF TypeOK
<1>3. Live = {}
  BY DEF Init, Live
<1>4. Fresh /\ OneWorker /\ Order
  <2>1. Fresh /\ OneWorker
    <3>1. Fresh
      BY DEF Init, Fresh
    <3>2. OneWorker
      BY <1>3 DEF Init, OneWorker
    <3> QED BY <3>1, <3>2
  <2>2. \A w \in Worker : got[w] <= world[owner[w]]
    BY <1>1 DEF Init
  <2>3. ASSUME NEW c \in Clusters PROVE stored[c] <= world[c]
    <3>1. stored[c] = 0 /\ world[c] = 1
      BY DEF Init
    <3>2. 0 <= 1
      OBVIOUS
    <3> QED BY <3>1, <3>2, Zenon
  <2> QED BY <1>3, <2>2, <2>3, <2>1 DEF Order, Open
<1> QED BY <1>2, <1>4 DEF Inv

-----------------------------------------------------------------------------

\* Every step keeps the joined invariant.
LEMMA InvStep ==
  ASSUME Inv, [Next]_vars
  PROVE  Inv'
BY Typed, RegistryStep, OrderStep DEF Inv

\* Only SetLands writes to the store, and only its worker's cluster.
LEMMA Stores ==
  ASSUME Inv, [Next]_vars, NEW c \in Clusters, stored'[c] # stored[c]
  PROVE  \E w \in Worker : /\ SetLands(w) /\ owner[w] = c
                           /\ stored'[c] = got[w]
<1>1. stored' # stored
  OBVIOUS
<1>2. PICK w \in Worker : SetLands(w)
  BY <1>1 DEF Next, Poll, AddCluster, RemoveCluster, Expire, Change, Collect,
    CollectFails, SetBegins, SetFails, Publish, Tick, Exit, vars, workers, redis
<1>3. \A d \in Clusters : stored'[d] = IF d = owner[w] THEN got[w] ELSE stored[d]
  BY <1>2 DEF SetLands, Inv, TypeOK
<1> QED BY <1>2, <1>3

\* A write that replaces a newer state is one of a stopped worker.
LEMMA OlderWrite ==
  ASSUME Inv, [Next]_vars, NEW c \in Clusters, stored'[c] < stored[c]
  PROVE  \E w \in cancelled : owner[w] = c /\ SetLands(w)
<1>1. stored[c] \in Nat
  BY DEF Inv, TypeOK
<1>2. PICK w \in Worker : SetLands(w) /\ owner[w] = c /\ stored'[c] = got[w]
  BY <1>1, Stores
<1>3. got[w] \in Nat /\ got[w] < stored[c]
  BY <1>2 DEF Inv, TypeOK
<1>4. w \in Live /\ wpc[w] = "inflight"
  BY <1>2 DEF SetLands, At, Live
<1>5. w \in cancelled
  BY <1>1, <1>2, <1>3, <1>4 DEF Inv, Order, Open
<1> QED BY <1>2, <1>5

-----------------------------------------------------------------------------

\* The joined invariant holds throughout every run.
THEOREM Invariant == Spec => []Inv
BY Initially, InvStep, PTL DEF Spec

\* Every variable of the controller keeps its type (controller.go:21-107).
THEOREM TypeCorrect == Spec => []TypeOK
BY Invariant, PTL DEF Inv

\* However registrations, removals and polls interleave, the registry names
\* the one open worker of each cluster (controller.go:52-57, 64-71).
THEOREM Registry == Spec => []OneWorker
BY Invariant, PTL DEF Inv

\* Only a write that was on its way when its worker was stopped can replace a
\* stored state by an older one (controller.go:89-98, redis.go:37-44).
THEOREM Newest == Spec => NoOlderResult
<1> DEFINE Good == \A c \in Clusters : stored'[c] < stored[c] =>
                     \E w \in cancelled : owner[w] = c /\ SetLands(w)
<1>1. Inv /\ [Next]_vars => [Good]_vars
  BY OlderWrite
<1> QED BY Invariant, <1>1, PTL DEF Spec, NoOlderResult
==============================================================================

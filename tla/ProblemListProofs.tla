--------------------------- MODULE ProblemListProofs ---------------------------
(***************************************************************************)
(* Theorems about ProblemList, for any number of clusters, workers and      *)
(* requests.  Nothing that is read or has been shown is newer than the      *)
(* cluster (Real) or, but for a stopped worker's write, than its stored     *)
(* state (Known).  So what the current request has read is no older than    *)
(* anything shown before (Ahead).                                           *)
(***************************************************************************)
EXTENDS ProblemList, ClusterControllerProofs

\* A key holds what was last written under it, or is gone.
Cached == \A c \in Clusters : cache[c] \in {0, stored[c]}

\* Nothing read or shown is newer than the cluster.
Real ==
  \A c \in Clusters :
    /\ best[c] <= world[c] /\ shown.found[c] <= best[c]
    /\ \A f \in Fetch : fetch[f].found[c] <= world[c]

\* Nothing read or shown is newer than what is stored, and nothing older than
\* the newest that was shown is on display.
Known ==
  \A c \in Clusters \ overtaken :
    /\ best[c] <= stored[c]
    /\ shown.found[c] = 0 \/ shown.found[c] = best[c]
    /\ \A f \in Fetch : fetch[f].found[c] <= stored[c]

\* The request that will replace the list has read nothing older than it has
\* ever shown.
Ahead ==
  \A c \in Clusters \ overtaken : \A f \in Fetch :
    fetch[f].pc = "reading" /\ Current(f) =>
      fetch[f].found[c] = 0 \/ best[c] <= fetch[f].found[c]

ListInv == Inv /\ ListTypeOK /\ Cached /\ Real /\ Known /\ Ahead

Request == [pc : {"unborn", "reading", "done"}, ids : SUBSET Clusters,
            found : [Clusters -> 0..MaxVersion], missed : SUBSET Clusters]
Answer == [by : 0..asked, found : [Clusters -> 0..MaxVersion],
           missed : SUBSET Clusters]

-----------------------------------------------------------------------------
(* The controller under the list.                                           *)

\* Requests take nothing from the controller and give it nothing.
LEMMA ControllerOrNothing == [ListNext]_listVars => [Next]_vars
BY DEF ListNext, ControllerStep, Ask, Read, Respond, Lose, listVars

\* A version in the cache is one the cluster has been in.
LEMMA CachedVersion ==
  ASSUME Inv, Cached, NEW c \in Clusters
  PROVE  /\ cache[c] \in 0..MaxVersion /\ cache[c] <= stored[c]
         /\ stored[c] \in Nat /\ cache[c] <= world[c] /\ world[c] \in Nat
<1>1. stored[c] \in Nat /\ world[c] \in 1..MaxVersion /\ stored[c] <= world[c]
  BY DEF Inv, TypeOK, Order
<1>2. cache[c] = 0 \/ cache[c] = stored[c]
  BY DEF Cached
<1> QED BY <1>1, <1>2, ControllerAssumption

\* A cluster's version only grows.
LEMMA WorldGrows ==
  ASSUME Inv, [Next]_vars
  PROVE  \A c \in Clusters : world[c] \in Nat /\ world'[c] \in Nat /\ world[c] <= world'[c]
<1>1. ASSUME NEW c \in Clusters, Change(c)
      PROVE  \A d \in Clusters : world'[d] = IF d = c THEN world[d] + 1 ELSE world[d]
  BY <1>1 DEF Change, Inv, TypeOK
<1>2. (\E c \in Clusters : Change(c)) \/ world' = world
  BY DEF Next, Poll, AddCluster, RemoveCluster, Expire, Collect, CollectFails,
    SetBegins, SetLands, SetFails, Publish, Tick, Exit, vars
<1>3. \A c \in Clusters : world[c] \in Nat
  BY DEF Inv, TypeOK
<1> QED BY <1>1, <1>2, <1>3

\* A key is only ever written together with the store.
LEMMA CachedStep ==
  ASSUME Inv, Cached, [Next]_vars
  PROVE  Cached'
<1>1. ASSUME NEW c \in Clusters, Expire(c) PROVE Cached'
  <2>1. stored' = stored /\ \A d \in Clusters : cache'[d] \in {0, cache[d]}
    BY <1>1 DEF Expire, Inv, TypeOK
  <2> QED BY <2>1 DEF Cached
<1>2. ASSUME NEW w \in Worker, SetLands(w) PROVE Cached'
  <2>1. \A d \in Clusters :
          /\ stored'[d] = IF d = owner[w] THEN got[w] ELSE stored[d]
          /\ cache'[d] = IF d = owner[w] THEN got[w] ELSE cache[d]
    BY <1>2 DEF SetLands, Inv, TypeOK
  <2> QED BY <2>1 DEF Cached
<1>3. CASE UNCHANGED redis
  BY <1>3 DEF redis, Cached
<1> QED BY <1>1, <1>2, <1>3 DEF Next, Poll, AddCluster, RemoveCluster, Change, Collect,
  CollectFails, SetBegins, SetFails, Publish, Tick, Exit, vars

-----------------------------------------------------------------------------
(* The requests.                                                            *)

\* At the start nothing is asked and nothing shown.
LEMMA ListInitially == ListInit => ListInv
<1> SUFFICES ASSUME ListInit PROVE ListInv
  OBVIOUS
<1>1. Inv
  BY Initially DEF ListInit
<1>2. Nothing \in [Clusters -> 0..MaxVersion]
  BY ControllerAssumption DEF Nothing
<1>3. NoFetch \in Request /\ NoFetch.pc = "unborn" /\ NoFetch.ids = {}
      /\ NoFetch.found = Nothing
  BY <1>2 DEF NoFetch, Request
<1>4. fetch \in [Fetch -> Request] /\ \A f \in Fetch : fetch[f] = NoFetch
  <2> HIDE DEF Request
  <2> QED BY <1>3 DEF ListInit
<1>5. ListTypeOK
  <2>1. 0 \in 0..MaxFetches /\ 0 \in 0..0
    BY FetchesAssumption
  <2>2. shown \in [by : 0..asked, found : [Clusters -> 0..MaxVersion],
                   missed : SUBSET Clusters] /\ shown.by = 0
    BY <1>2, <2>1 DEF ListInit
  <2> QED BY <1>2, <1>3, <1>4, <2>1, <2>2 DEF ListInit, ListTypeOK, Request
<1>6. Cached /\ Real /\ Known /\ Ahead
  <2>1. \A c \in Clusters :
          stored[c] = 0 /\ cache[c] = 0 /\ Nothing[c] = 0 /\ world[c] = 1
    BY DEF ListInit, Init, Nothing
  <2>2. shown.found = Nothing /\ best = Nothing
    BY DEF ListInit
  <2>3. Real
    <3> SUFFICES ASSUME NEW c \in Clusters
                 PROVE  /\ best[c] <= world[c] /\ shown.found[c] <= best[c]
                        /\ \A f \in Fetch : fetch[f].found[c] <= world[c]
      BY DEF Real
    <3>1. \A f \in Fetch : fetch[f].found[c] = 0
      BY <1>3, <1>4, <2>1
    <3> QED BY <2>1, <2>2, <3>1
  <2> QED BY <1>3, <1>4, <2>1, <2>2, <2>3 DEF Cached, Known, Ahead
<1> QED BY <1>1, <1>5, <1>6 DEF ListInv

\* The controller goes on while requests read.
LEMMA ControllerKeeps ==
  ASSUME ListInv, ControllerStep
  PROVE  ListInv'
<1>1. Inv' /\ Cached' /\ Inv /\ ListTypeOK
  BY InvStep, CachedStep DEF ControllerStep, ListInv
<1>2. UNCHANGED <<asked, fetch, shown, best>> /\ overtaken \subseteq overtaken'
      /\ overtaken' \subseteq Clusters
  BY <1>1 DEF ControllerStep, ListTypeOK
<1>3. ListTypeOK'
  BY <1>1, <1>2 DEF ListTypeOK
<1>4. ASSUME NEW c \in Clusters \ overtaken'
      PROVE  stored[c] <= stored'[c] /\ stored[c] \in Nat /\ stored'[c] \in Nat
  <2>1. stored[c] \in Nat /\ stored'[c] \in Nat
    BY <1>1 DEF Inv, TypeOK
  <2>2. ~(stored'[c] < stored[c])
    BY <1>1, OlderWrite DEF ControllerStep
  <2> QED BY <2>1, <2>2
<1>5. Known'
  <2> SUFFICES ASSUME NEW c \in Clusters \ overtaken'
               PROVE  /\ best[c] <= stored'[c]
                      /\ shown.found[c] = 0 \/ shown.found[c] = best[c]
                      /\ \A f \in Fetch : fetch[f].found[c] <= stored'[c]
    BY <1>2 DEF Known
  <2>1. best[c] \in Nat /\ \A f \in Fetch : fetch[f].found[c] \in Nat
    BY <1>1 DEF ListTypeOK
  <2>2. /\ best[c] <= stored[c]
        /\ shown.found[c] = 0 \/ shown.found[c] = best[c]
        /\ \A f \in Fetch : fetch[f].found[c] <= stored[c]
    BY <1>2 DEF ListInv, Known
  <2> QED BY <1>4, <2>1, <2>2
<1>7. Real'
  BY <1>1, <1>2, WorldGrows DEF ControllerStep, ListInv, Real, ListTypeOK
<1>6. Ahead'
  BY <1>2 DEF ListInv, Ahead, Current
<1> QED BY <1>1, <1>3, <1>5, <1>6, <1>7 DEF ListInv

\* A new request starts from nothing and is the current one from now on.
LEMMA AskKeeps ==
  ASSUME ListInv, Ask
  PROVE  ListInv'
<1> DEFINE n == asked + 1
           new == [NoFetch EXCEPT !.pc = "reading",
                                  !.ids = {c \in Clusters : clusters[c] # 0}]
<1>1. Inv /\ ListTypeOK /\ Inv' /\ Cached'
  BY InvStep, CachedStep DEF Ask, ListInv
<1>2. n \in Fetch /\ asked' = n /\ asked \in Nat
  BY <1>1, FetchesAssumption DEF Ask, ListTypeOK, Fetch
<1>3. /\ new \in Request /\ new.pc = "reading" /\ new.found = Nothing
      /\ new.missed = {}
  <2>1. Nothing \in [Clusters -> 0..MaxVersion]
    BY ControllerAssumption DEF Nothing
  <2> QED BY <2>1 DEF NoFetch, Request
<1>4. /\ \A f \in Fetch : fetch'[f] = IF f = n THEN new ELSE fetch[f]
      /\ fetch' \in [Fetch -> Request]
  <2> HIDE DEF new
  <2>1. fetch \in [Fetch -> Request]
    BY <1>1 DEF ListTypeOK, Request
  <2>2. fetch' = [fetch EXCEPT ![n] = new]
    BY <1>2 DEF Ask, new
  <2> QED BY <1>2, <1>3, <2>1, <2>2
<1>5. \A c \in Clusters : Nothing[c] = 0
  BY DEF Nothing
<1> HIDE DEF new
<1>6. ListTypeOK'
  <2>1. asked' \in 0..MaxFetches
    BY <1>2 DEF Fetch
  <2>2. \A f \in Fetch : \A c \in fetch'[f].ids :
          fetch'[f].found[c] = 0 /\ c \notin fetch'[f].missed
    <3> SUFFICES ASSUME NEW f \in Fetch, NEW c \in fetch'[f].ids
                 PROVE  fetch'[f].found[c] = 0 /\ c \notin fetch'[f].missed
      OBVIOUS
    <3>1. CASE f = n
      <4>1. c \in Clusters
        BY <3>1, <1>3, <1>4 DEF Request
      <4> QED BY <3>1, <4>1, <1>3, <1>4, <1>5
    <3>2. CASE f # n
      BY <3>2, <1>1, <1>4 DEF ListTypeOK
    <3> QED BY <3>1, <3>2
  <2>3. shown.by # 0 => fetch'[shown.by].pc = "done"
    BY <1>1, <1>2, <1>4, FetchesAssumption DEF ListTypeOK, Fetch
  <2>4. shown \in [by : 0..asked', found : [Clusters -> 0..MaxVersion],
                   missed : SUBSET Clusters]
    <3>1. 0..asked \subseteq 0..asked'
      BY <1>2
    <3> QED BY <1>1, <3>1 DEF ListTypeOK
  <2> QED BY <1>1, <1>4, <2>1, <2>2, <2>3, <2>4 DEF ListTypeOK, Ask, Request
<1>7. Known' /\ Real'
  <2>1. UNCHANGED <<stored, world, shown, best, overtaken>>
    BY DEF Ask, vars, redis
  <2>2. \A c \in Clusters : stored[c] \in Nat /\ world[c] \in Nat
    BY <1>1 DEF Inv, TypeOK
  <2>3. \A f \in Fetch : \A c \in Clusters :
          fetch'[f].found[c] = 0 \/ fetch'[f].found[c] = fetch[f].found[c]
    BY <1>3, <1>4, <1>5
  <2>4. Known'
    BY <2>1, <2>2, <2>3 DEF ListInv, Known
  <2>5. Real'
    BY <2>1, <2>2, <2>3 DEF ListInv, Real
  <2> QED BY <2>4, <2>5
<1>8. Ahead'
  <2> SUFFICES ASSUME NEW c \in Clusters, NEW f \in Fetch, f = asked'
               PROVE  fetch'[f].found[c] = 0
    BY DEF Ahead, Current
  <2> QED BY <1>2, <1>3, <1>4, <1>5
<1> QED BY <1>1, <1>6, <1>7, <1>8 DEF ListInv

\* A read takes the stored state or nothing; both are as new as the display.
LEMMA ReadKeeps ==
  ASSUME ListInv, NEW f \in Fetch, NEW c \in Clusters, Read(f, c)
  PROVE  ListInv'
<1>1. /\ Inv /\ ListTypeOK /\ Cached /\ Real /\ Known /\ Ahead /\ Inv' /\ Cached'
      /\ UNCHANGED <<stored, world, asked, shown, best, overtaken>>
  BY InvStep, CachedStep DEF Read, ListInv, vars, redis
<1>2. PICK v \in {cache[c], 0} :
        fetch' = [fetch EXCEPT
          ![f].ids = Left(f, c, v),
          ![f].found[c] = v,
          ![f].missed = IF v = 0 /\ Sick(stored[c]) THEN @ \cup {c} ELSE @]
  BY DEF Read
<1>3. /\ v \in 0..MaxVersion /\ v <= stored[c] /\ stored[c] \in Nat
      /\ v <= world[c] /\ world[c] \in Nat
  BY <1>1, <1>2, CachedVersion, ControllerAssumption
<1>4. fetch \in [Fetch -> Request] /\ fetch[f] \in Request
  BY <1>1 DEF ListTypeOK, Request
<1>5. /\ \A g \in Fetch : g # f => fetch'[g] = fetch[g]
      /\ fetch'[f] \in Request /\ fetch'[f].pc = fetch[f].pc
      /\ fetch'[f].ids = fetch[f].ids \ {c}
      /\ \A d \in Clusters :
           fetch'[f].found[d] = IF d = c THEN v ELSE fetch[f].found[d]
      /\ fetch'[f].missed \subseteq fetch[f].missed \cup {c}
      /\ fetch' \in [Fetch -> Request]
  <2>1. fetch'[f] = [pc |-> fetch[f].pc, ids |-> fetch[f].ids \ {c},
                     found |-> [fetch[f].found EXCEPT ![c] = v],
                     missed |-> IF v = 0 /\ Sick(stored[c])
                                THEN fetch[f].missed \cup {c} ELSE fetch[f].missed]
    BY <1>2, <1>4 DEF Left, Request
  <2>2. fetch'[f] \in Request
    BY <1>3, <1>4, <2>1 DEF Request
  <2>3. \A g \in Fetch : g # f => fetch'[g] = fetch[g]
    BY <1>2, <1>4
  <2>4. \A d \in Clusters :
          fetch'[f].found[d] = IF d = c THEN v ELSE fetch[f].found[d]
    BY <1>4, <2>1 DEF Request
  <2>5. fetch' \in [Fetch -> Request]
    <3>1. fetch' = [g \in Fetch |-> fetch'[g]]
      BY <1>2, <1>4
    <3>2. \A g \in Fetch : fetch'[g] \in Request
      BY <1>4, <2>2, <2>3
    <3> HIDE DEF Request
    <3> QED BY <3>1, <3>2
  <2> QED BY <2>1, <2>2, <2>3, <2>4, <2>5
<1>6. ListTypeOK'
  <2>1. ASSUME NEW g \in Fetch, NEW d \in fetch'[g].ids
        PROVE  fetch'[g].found[d] = 0 /\ d \notin fetch'[g].missed
    <3>1. CASE g # f
      BY <3>1, <1>1, <1>5 DEF ListTypeOK
    <3>2. CASE g = f
      <4>1. d \in fetch[f].ids /\ d # c /\ d \in Clusters
        BY <2>1, <3>2, <1>4, <1>5 DEF Request
      <4> QED BY <3>2, <4>1, <1>1, <1>5 DEF ListTypeOK
    <3> QED BY <3>1, <3>2
  <2>2. shown.by # 0 => fetch'[shown.by].pc = "done"
    <3>1. shown.by \in 0..asked /\ asked \in 0..MaxFetches
      BY <1>1 DEF ListTypeOK
    <3>2. shown.by # 0 => shown.by \in Fetch
      BY <3>1, FetchesAssumption DEF Fetch
    <3> QED BY <3>2, <1>1, <1>5 DEF ListTypeOK
  <2> QED BY <1>1, <1>5, <2>1, <2>2 DEF ListTypeOK, Request
<1>7. Known' /\ Real'
  <2>1. Known'
    BY <1>1, <1>3, <1>5 DEF Known
  <2>2. Real'
    BY <1>1, <1>3, <1>5 DEF Real
  <2> QED BY <2>1, <2>2
<1>8. Ahead'
  <2> SUFFICES ASSUME NEW d \in Clusters \ overtaken, NEW g \in Fetch,
                      fetch'[g].pc = "reading", g = asked
               PROVE  fetch'[g].found[d] = 0 \/ best[d] <= fetch'[g].found[d]
    BY <1>1 DEF Ahead, Current
  <2>1. CASE g = f /\ d = c
    <3>1. v = 0 \/ v = stored[c]
      BY <1>1, <1>2 DEF Cached
    <3>2. best[c] <= stored[c]
      BY <1>1, <2>1 DEF Known
    <3> QED BY <1>5, <2>1, <3>1, <3>2
  <2>2. CASE ~(g = f /\ d = c)
    <3>1. fetch[g].pc = "reading" /\ fetch'[g].found[d] = fetch[g].found[d]
      BY <1>5, <2>2
    <3> QED BY <1>1, <3>1 DEF Ahead, Current
  <2> QED BY <2>1, <2>2
<1> QED BY <1>1, <1>6, <1>7, <1>8 DEF ListInv

\* A request ends, whether its answer is displayed or not.
LEMMA EndKeeps ==
  ASSUME ListInv, NEW f \in Fetch, Respond(f) \/ Lose(f)
  PROVE  ListInv'
<1>1. /\ Inv /\ ListTypeOK /\ Cached /\ Real /\ Known /\ Ahead /\ Inv' /\ Cached'
      /\ UNCHANGED <<stored, world, asked, overtaken>> /\ fetch[f].pc = "reading"
      /\ fetch' = [fetch EXCEPT ![f].pc = "done"]
  BY InvStep, CachedStep DEF Respond, Lose, ListInv, vars, redis
<1>2. \/ shown' = shown /\ best' = best
      \/ /\ f = asked
         /\ shown' = [by |-> f, found |-> fetch[f].found, missed |-> fetch[f].missed]
         /\ best' = Latest(best, fetch[f].found)
  BY DEF Respond, Lose, Current
<1>3. fetch \in [Fetch -> Request] /\ fetch[f] \in Request
  BY <1>1 DEF ListTypeOK, Request
<1>4. /\ \A g \in Fetch : g # f => fetch'[g] = fetch[g]
      /\ fetch'[f].pc = "done" /\ fetch'[f].ids = fetch[f].ids
      /\ fetch'[f].found = fetch[f].found /\ fetch'[f].missed = fetch[f].missed
      /\ fetch' \in [Fetch -> Request]
  <2>1. fetch'[f] = [pc |-> "done", ids |-> fetch[f].ids, found |-> fetch[f].found,
                     missed |-> fetch[f].missed]
    BY <1>1, <1>3 DEF Request
  <2>2. \A g \in Fetch : g # f => fetch'[g] = fetch[g]
    BY <1>1, <1>3
  <2>3. fetch'[f] \in Request
    BY <1>3, <2>1 DEF Request
  <2>4. fetch' \in [Fetch -> Request]
    <3>1. fetch' = [g \in Fetch |-> fetch'[g]]
      BY <1>1, <1>3
    <3>2. \A g \in Fetch : fetch'[g] \in Request
      BY <1>3, <2>2, <2>3
    <3> HIDE DEF Request
    <3> QED BY <3>1, <3>2
  <2> QED BY <2>1, <2>2, <2>4
<1>5. shown'.found \in [Clusters -> 0..MaxVersion] /\ shown' \in Answer
  <2>1. shown \in Answer /\ asked \in 0..MaxFetches
    BY <1>1 DEF ListTypeOK, Answer
  <2>2. f = asked => f \in 0..asked
    BY <2>1, FetchesAssumption DEF Fetch
  <2> QED BY <1>2, <1>3, <2>1, <2>2 DEF Answer, Request
<1>9. /\ best' \in [Clusters -> 0..MaxVersion]
      /\ \/ shown' = shown /\ best' = best
         \/ /\ f = asked /\ shown'.found = fetch[f].found
            /\ \A c \in Clusters :
                 best'[c] = IF shown'.found[c] > best[c] THEN shown'.found[c] ELSE best[c]
  <2>1. best \in [Clusters -> 0..MaxVersion]
    BY <1>1 DEF ListTypeOK
  <2>2. ASSUME f = asked, best' = Latest(best, fetch[f].found),
               shown' = [by |-> f, found |-> fetch[f].found, missed |-> fetch[f].missed]
        PROVE  /\ best' \in [Clusters -> 0..MaxVersion]
               /\ f = asked /\ shown'.found = fetch[f].found
               /\ \A c \in Clusters :
                    best'[c] = IF shown'.found[c] > best[c] THEN shown'.found[c] ELSE best[c]
    <3>1. shown'.found = fetch[f].found /\ fetch[f].found \in [Clusters -> 0..MaxVersion]
      BY <1>3, <2>2 DEF Request
    <3> QED BY <2>1, <2>2, <3>1 DEF Latest
  <2> QED BY <1>2, <2>1, <2>2
<1>6. ListTypeOK'
  <2>1. shown'.by # 0 => fetch'[shown'.by].pc = "done"
    <3>1. shown.by \in 0..asked /\ asked \in 0..MaxFetches
      BY <1>1 DEF ListTypeOK
    <3>2. shown.by # 0 => shown.by \in Fetch
      BY <3>1, FetchesAssumption DEF Fetch
    <3> QED BY <3>2, <1>1, <1>2, <1>4 DEF ListTypeOK
  <2>2. \A g \in Fetch : \A d \in fetch'[g].ids :
          fetch'[g].found[d] = 0 /\ d \notin fetch'[g].missed
    BY <1>1, <1>4 DEF ListTypeOK
  <2> QED BY <1>1, <1>4, <1>5, <1>9, <2>1, <2>2 DEF ListTypeOK, Request, Answer
<1>7. Known' /\ Real'
  <2>1. \A g \in Fetch : fetch'[g].found = fetch[g].found
    BY <1>4
  <2>2. \A c \in Clusters :
          /\ best[c] \in Nat /\ fetch[f].found[c] \in Nat
          /\ stored[c] \in Nat /\ world[c] \in Nat
    <3>1. \A c \in Clusters : stored[c] \in Nat /\ world[c] \in Nat
      BY <1>1 DEF Inv, TypeOK
    <3>2. \A c \in Clusters : best[c] \in 0..MaxVersion /\ fetch[f].found[c] \in 0..MaxVersion
      BY <1>1, <1>3 DEF ListTypeOK, Request
    <3>3. \A v \in 0..MaxVersion : v \in Nat
      BY ControllerAssumption
    <3> QED BY <3>1, <3>2, <3>3
  <2>3. \A c \in Clusters \ overtaken : f = asked =>
          fetch[f].found[c] = 0 \/ best[c] <= fetch[f].found[c]
    BY <1>1 DEF Ahead, Current
  <2>4. Known'
    <3> SUFFICES ASSUME NEW c \in Clusters \ overtaken
                 PROVE  /\ best'[c] <= stored[c]
                        /\ shown'.found[c] = 0 \/ shown'.found[c] = best'[c]
      BY <1>1, <2>1 DEF Known
    <3> QED BY <1>1, <1>9, <2>2, <2>3 DEF Known
  <2>5. Real'
    <3> SUFFICES ASSUME NEW c \in Clusters
                 PROVE  best'[c] <= world[c] /\ shown'.found[c] <= best'[c]
      BY <1>1, <2>1 DEF Real
    <3> QED BY <1>1, <1>9, <2>2 DEF Real
  <2> QED BY <2>4, <2>5
<1>8. Ahead'
  <2> SUFFICES ASSUME NEW d \in Clusters \ overtaken, NEW g \in Fetch,
                      fetch'[g].pc = "reading", g = asked
               PROVE  fetch'[g].found[d] = 0 \/ best'[d] <= fetch'[g].found[d]
    BY <1>1 DEF Ahead, Current
  <2>1. g # f /\ fetch'[g] = fetch[g]
    BY <1>4
  <2>2. best' = best
    BY <1>2, <2>1
  <2> QED BY <1>1, <2>1, <2>2 DEF Ahead, Current
<1> QED BY <1>1, <1>6, <1>7, <1>8 DEF ListInv

\* Every step keeps the invariant.
LEMMA ListStep ==
  ASSUME ListInv, [ListNext]_listVars
  PROVE  ListInv'
<1>1. CASE UNCHANGED listVars
  <2>1. Inv' /\ Cached'
    BY <1>1, InvStep, CachedStep, ControllerOrNothing DEF ListInv
  <2> QED BY <1>1, <2>1 DEF listVars, vars, redis, ListInv, ListTypeOK, Real, Known,
          Ahead, Current
<1> QED BY <1>1, ControllerKeeps, AskKeeps, ReadKeeps, EndKeeps DEF ListNext

-----------------------------------------------------------------------------

\* The joined invariant holds however polls, registrations, requests and answers
\* interleave.
THEOREM ListInvariant == ListSpec => []ListInv
BY ListInitially, ListStep, PTL DEF ListSpec

\* Every cluster is answered for at most once per request, and only a finished
\* request is on display (controller.go:111-128).
THEOREM ListTypeCorrect == ListSpec => []ListTypeOK
BY ListInvariant, PTL DEF ListInv

\* What a request may put on display: nothing newer than the cluster and, but for
\* a stopped worker's write, nothing older than was shown before.
LEMMA Fit ==
  ASSUME ListInv, NEW f \in Fetch, Respond(f), shown' # shown \/ best' # best,
         NEW c \in Clusters
  PROVE  /\ shown'.found[c] \in Nat /\ best[c] \in Nat /\ shown'.found[c] <= world[c]
         /\ c \notin overtaken => shown'.found[c] = 0 \/ best[c] <= shown'.found[c]
<1>1. Current(f) /\ fetch[f].pc = "reading" /\ shown'.found = fetch[f].found
  BY DEF Respond
<1>2. fetch[f].found[c] \in 0..MaxVersion /\ best[c] \in 0..MaxVersion
  BY DEF ListInv, ListTypeOK
<1>3. fetch[f].found[c] <= world[c]
  BY DEF ListInv, Real
<1>4. c \notin overtaken => fetch[f].found[c] = 0 \/ best[c] <= fetch[f].found[c]
  BY <1>1 DEF ListInv, Ahead
<1> QED BY <1>1, <1>2, <1>3, <1>4, ControllerAssumption

\* Whatever order answers come in, the list shows nothing of a cluster or
\* something at least as new as it ever has, unless a stopped worker's write
\* overtook a newer one (controller.go:89-128, useProblems.ts:14-29).
THEOREM NoWayBack == ListSpec => NeverBack
<1> DEFINE Good == \A c \in Clusters \ overtaken :
                     shown'.found[c] # 0 => shown'.found[c] >= best[c]
<1>1. ASSUME ListInv, [ListNext]_listVars
      PROVE  Good
  <2> SUFFICES ASSUME NEW c \in Clusters \ overtaken, shown'.found[c] # 0
               PROVE  shown'.found[c] >= best[c]
    OBVIOUS
  <2>1. CASE shown' = shown
    <3>1. shown.found[c] = best[c] /\ best[c] \in Nat
      BY <1>1, <2>1 DEF ListInv, ListTypeOK, Known
    <3> QED BY <2>1, <3>1
  <2>2. ASSUME NEW f \in Fetch, Respond(f), shown' # shown
        PROVE  shown'.found[c] >= best[c]
    <3>1. /\ shown'.found[c] \in Nat /\ best[c] \in Nat
          /\ shown'.found[c] = 0 \/ best[c] <= shown'.found[c]
      BY <1>1, <2>2, Fit
    <3> QED BY <3>1
  <2> QED BY <1>1, <2>1, <2>2 DEF ListNext, ControllerStep, Ask, Read, Lose, listVars
<1>2. ListInv /\ [ListNext]_listVars => [Good]_listVars
  BY <1>1
<1> QED BY ListInvariant, <1>2, PTL DEF ListSpec, NeverBack

-----------------------------------------------------------------------------
(* The list implements Display.                                             *)

\* A step of the controller is a change of a cluster, a late write of a stopped
\* worker, or nothing that Display knows of.
LEMMA ControllerShows ==
  ASSUME ListInv, ControllerStep
  PROVE  Shows!Next \/ UNCHANGED Shows!vars
<1>1. Inv /\ UNCHANGED <<shown, best>> /\ overtaken \subseteq Clusters
      /\ overtaken' = overtaken \cup
           {c \in Clusters : /\ stored'[c] < stored[c]
                            /\ \E w \in cancelled : owner[w] = c /\ SetLands(w)}
  BY DEF ListInv, ListTypeOK, ControllerStep
<1>2. \A c \in Clusters : stored[c] \in Nat /\ world[c] \in Nat
  BY <1>1 DEF Inv, TypeOK
<1>3. ASSUME NEW d \in Clusters, Change(d)
      PROVE  Shows!Next
  <2>1. stored' = stored
    BY <1>3 DEF Change, redis
  <2>2. overtaken' = overtaken
    BY <1>1, <1>2, <2>1
  <2>3. world' = [world EXCEPT ![d] = @ + 1]
    BY <1>3 DEF Change
  <2> QED BY <1>1, <2>2, <2>3 DEF Shows!Next, Shows!Change
<1>4. ASSUME NEW w \in Worker, SetLands(w)
      PROVE  Shows!Next \/ UNCHANGED Shows!vars
  <2>1. owner[w] \in Clusters /\ world' = world
    BY <1>1, <1>4 DEF Inv, TypeOK, SetLands
  <2>2. stored' = [stored EXCEPT ![owner[w]] = got[w]]
    BY <1>4 DEF SetLands
  <2>3. \A c \in Clusters : c # owner[w] => stored'[c] = stored[c]
    BY <1>1, <2>2 DEF Inv, TypeOK
  <2>4. \A c \in Clusters : stored'[c] < stored[c] => c = owner[w]
    BY <1>2, <2>3
  <2>5. overtaken' = overtaken \/ overtaken' = overtaken \cup {owner[w]}
    BY <1>1, <2>4
  <2> QED BY <1>1, <2>1, <2>5 DEF Shows!Next, Shows!Spoil, Shows!vars
<1>5. ASSUME stored' = stored, world' = world
      PROVE  UNCHANGED Shows!vars
  <2>1. overtaken' = overtaken
    BY <1>1, <1>2, <1>5
  <2> QED BY <1>1, <1>5, <2>1 DEF Shows!vars
<1>6. \/ \E d \in Clusters : Change(d)
      \/ \E w \in Worker : SetLands(w)
      \/ stored' = stored /\ world' = world
  BY DEF ControllerStep, Next, Poll, AddCluster, RemoveCluster, Expire, Collect,
    CollectFails, SetBegins, SetFails, Publish, Tick, Exit, redis
<1> QED BY <1>3, <1>4, <1>5, <1>6

\* An answer that is displayed is one Display allows.
LEMMA AnswerShows ==
  ASSUME ListInv, NEW f \in Fetch, Respond(f)
  PROVE  Shows!Next \/ UNCHANGED Shows!vars
<1>1. UNCHANGED <<world, overtaken>>
  BY DEF Respond, vars
<1>2. CASE shown' = shown /\ best' = best
  BY <1>1, <1>2 DEF Shows!vars
<1>3. CASE shown' # shown \/ best' # best
  <2>1. shown'.found = fetch[f].found /\ best' = Latest(best, fetch[f].found)
    BY <1>3 DEF Respond
  <2>2. shown'.found \in [Clusters -> Nat]
    <3>1. fetch[f].found \in [Clusters -> 0..MaxVersion]
      BY DEF ListInv, ListTypeOK
    <3>2. 0..MaxVersion \subseteq Nat
      BY ControllerAssumption
    <3> QED BY <2>1, <3>1, <3>2
  <2>3. ASSUME NEW c \in Clusters
        PROVE  shown'.found[c] = 0 \/ Shows!Showable(c, shown'.found[c])
    <3>1. /\ shown'.found[c] \in Nat /\ best[c] \in Nat /\ shown'.found[c] <= world[c]
          /\ c \notin overtaken => shown'.found[c] = 0 \/ best[c] <= shown'.found[c]
      BY <1>3, Fit
    <3> QED BY <3>1 DEF Shows!Showable
  <2>4. best' = [c \in Clusters |->
                   IF shown'.found[c] > best[c] THEN shown'.found[c] ELSE best[c]]
    BY <2>1 DEF Latest
  <2> QED BY <1>1, <2>2, <2>3, <2>4 DEF Shows!Next, Shows!Show
<1> QED BY <1>2, <1>3

\* Every state the list shows is one the cluster has been in, and none comes back:
\* registry, workers, cache and requests together implement Display
\* (controller.go:73-128, useProblems.ts:11-29).
THEOREM Implements == ListSpec => ImplementsDisplay
<1>1. ListInit => Shows!Init
  <2> SUFFICES ASSUME ListInit PROVE Shows!Init
    OBVIOUS
  <2>1. world \in [Clusters -> Nat]
    BY DEF ListInit, Init
  <2>2. shown.found = Nothing
    BY DEF ListInit
  <2> QED BY <2>1, <2>2 DEF ListInit, Nothing, Shows!Init
<1>2. ListInv /\ [ListNext]_listVars => [Shows!Next]_Shows!vars
  <2> SUFFICES ASSUME ListInv, [ListNext]_listVars
               PROVE  Shows!Next \/ UNCHANGED Shows!vars
    OBVIOUS
  <2>1. ASSUME Ask \/ (\E f \in Fetch : (\E c \in Clusters : Read(f, c)) \/ Lose(f))
               \/ UNCHANGED listVars
        PROVE  UNCHANGED Shows!vars
    BY <2>1 DEF Ask, Read, Lose, vars, listVars, Shows!vars
  <2> QED BY <2>1, ControllerShows, AnswerShows DEF ListNext
<1> QED BY ListInvariant, <1>1, <1>2, PTL DEF ListSpec, ImplementsDisplay

-----------------------------------------------------------------------------

\* The list takes nothing of what the controller promises: beside it every
\* cluster still has one open worker, and only a stopped worker's write goes back.
THEOREM ControllerKept == ListSpec => []OneWorker /\ NoOlderResult
<1> DEFINE Good == \A c \in Clusters : stored'[c] < stored[c] =>
                     \E w \in cancelled : owner[w] = c /\ SetLands(w)
<1>1. ListInv => OneWorker
  BY DEF ListInv, Inv
<1>2. ListInv /\ [ListNext]_listVars => [Good]_vars
  BY ControllerOrNothing, OlderWrite DEF ListInv
<1> QED BY ListInvariant, <1>1, <1>2, PTL DEF ListSpec, NoOlderResult
==============================================================================

----------------------------- MODULE ProblemList -----------------------------
(***************************************************************************)
(* The list the dashboard shows: GET /api/problems reads the cached        *)
(* problems of the registered clusters one by one while the workers of     *)
(* ClusterController go on (controller.go, GetProblems), and the browser   *)
(* asks again every 30 seconds and whenever a poll is announced            *)
(* (useProblems.ts).  A request the browser gave up is still answered by   *)
(* the server.                                                             *)
(*                                                                         *)
(* Versions stand for sets of problems: the odd ones are empty.            *)
(***************************************************************************)
EXTENDS ClusterController

CONSTANT MaxFetches     \* bound: requests of the browser

ASSUME FetchesAssumption == MaxFetches \in Nat

VARIABLES
  asked,          \* number of requests so far; the last is the current one
  fetch,          \* the requests: the ids still to be read, what was read
  shown,          \* the answer on display, with the number of its request
  best,           \* history: the newest version of each cluster ever displayed
  overtaken       \* history: clusters a stopped worker wrote an older result for

listVars == <<vars, asked, fetch, shown, best, overtaken>>

Fetch == 1..MaxFetches
Sick(v) == v # 0 /\ v % 2 = 0

Nothing == [c \in Clusters |-> 0]
NoFetch == [pc |-> "unborn", ids |-> {}, found |-> Nothing, missed |-> {}]

ListInit ==
  /\ Init
  /\ asked = 0
  /\ fetch = [f \in Fetch |-> NoFetch]
  /\ shown = [by |-> 0, found |-> Nothing, missed |-> {}]
  /\ best = Nothing
  /\ overtaken = {}

\* A step of the controller, its cache or its clusters.
ControllerStep ==
  /\ Next
  /\ overtaken' = overtaken \cup
       {c \in Clusters : /\ stored'[c] < stored[c]
                        /\ \E w \in cancelled : owner[w] = c /\ SetLands(w)}
  /\ UNCHANGED <<asked, fetch, shown, best>>

\* MUTANT of Current: an answer is displayed whenever it arrives.
CurrentOrLate(f) == TRUE

\* Only the latest request's answer is displayed: invalidateQueries cancels
\* the query's request in flight.
Current(f) == f = asked

\* The browser asks, because the interval is over or a poll was announced; the
\* handler copies the registered ids under the read lock.
Ask ==
  /\ asked < MaxFetches
  /\ asked' = asked + 1
  /\ fetch' = [fetch EXCEPT ![asked'] =
       [NoFetch EXCEPT !.pc = "reading",
                       !.ids = {c \in Clusters : clusters[c] # 0}]]
  /\ UNCHANGED <<vars, shown, best, overtaken>>

\* MUTANT of Left: a key that could not be read is tried again.
LeftWithRetry(f, c, v) == IF v = 0 THEN fetch[f].ids ELSE fetch[f].ids \ {c}

\* Each id is visited once, whether its key could be read or not.
Left(f, c, v) == fetch[f].ids \ {c}

\* One key is read.  A key that is not there and one that cannot be read both
\* leave the cluster out.
Read(f, c) ==
  /\ fetch[f].pc = "reading" /\ c \in fetch[f].ids
  /\ \E v \in {cache[c], 0} :
       fetch' = [fetch EXCEPT
         ![f].ids = Left(f, c, v),
         ![f].found[c] = v,
         ![f].missed = IF v = 0 /\ Sick(stored[c]) THEN @ \cup {c} ELSE @]
  /\ UNCHANGED <<vars, asked, shown, best, overtaken>>

Latest(old, new) == [c \in Clusters |-> IF new[c] > old[c] THEN new[c] ELSE old[c]]

\* The answer goes out, never with an error, and is displayed if the browser
\* still waits for it.
Respond(f) ==
  /\ fetch[f].pc = "reading" /\ fetch[f].ids = {}
  /\ fetch' = [fetch EXCEPT ![f].pc = "done"]
  /\ \/ /\ Current(f)
        /\ shown' = [by |-> f, found |-> fetch[f].found, missed |-> fetch[f].missed]
        /\ best' = Latest(best, fetch[f].found)
     \/ ~Current(f) /\ UNCHANGED <<shown, best>>
  /\ UNCHANGED <<vars, asked, overtaken>>

\* The answer is lost, or the browser gave up on it.
Lose(f) ==
  /\ fetch[f].pc = "reading"
  /\ fetch' = [fetch EXCEPT ![f].pc = "done"]
  /\ UNCHANGED <<vars, asked, shown, best, overtaken>>

ListNext ==
  \/ ControllerStep
  \/ Ask
  \/ \E f \in Fetch :
       (\E c \in Clusters : Read(f, c)) \/ Respond(f) \/ Lose(f)

ListSpec == ListInit /\ [][ListNext]_listVars

-----------------------------------------------------------------------------

\* Every variable has its type; a cluster still to be read has not been
\* answered for, and what is displayed is the answer of a finished request.
ListTypeOK ==
  /\ asked \in 0..MaxFetches
  /\ fetch \in [Fetch -> [pc : {"unborn", "reading", "done"},
                          ids : SUBSET Clusters,
                          found : [Clusters -> 0..MaxVersion],
                          missed : SUBSET Clusters]]
  /\ \A f \in Fetch : \A c \in fetch[f].ids :
       fetch[f].found[c] = 0 /\ c \notin fetch[f].missed
  /\ shown.by # 0 => fetch[shown.by].pc = "done"
  /\ shown \in [by : 0..asked, found : [Clusters -> 0..MaxVersion],
                missed : SUBSET Clusters]
  /\ best \in [Clusters -> 0..MaxVersion]
  /\ overtaken \subseteq Clusters

\* The list never goes back: what it shows of a cluster is nothing or at least as
\* new as anything shown of it before, also after it has shown nothing, whatever
\* order answers come in, unless a stopped worker's write overtook a newer one
\* (controller.go:89-128, useProblems.ts:14-29).
NeverBack ==
  [][\A c \in Clusters \ overtaken :
       shown'.found[c] # 0 => shown'.found[c] >= best[c]]_listVars

Shows == INSTANCE Display WITH
  truth <- world, display <- shown.found, spoilt <- overtaken

\* Registry, workers, cache and requests together keep what Display promises:
\* every state shown is one the cluster has been in, and none comes back
\* (controller.go:73-128, useProblems.ts:11-29).
ImplementsDisplay == Shows!Init /\ [][Shows!Next]_Shows!vars

\* Dashboard.tsx: the green banner, once an answer has arrived.
Green == shown.by # 0 /\ \A c \in Clusters : ~Sick(shown.found[c])

\* "Wenn alles OK ist, sieht der Nutzer ein gruenes Banner": the banner is not
\* green over a cluster that was found sick and has not been found well since.
NoFalseGreen == Green => shown.missed = {}
==============================================================================

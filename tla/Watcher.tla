------------------------------- MODULE Watcher -------------------------------
(***************************************************************************)
(* One poll of a cluster (internal/cluster/watcher.go, Collect): the kinds *)
(* of objects are listed one after the other, each by a call of its own.   *)
(* The API server answers with the objects of one moment; the watcher      *)
(* compares their dates with the clock when the answer has come.  All the  *)
(* while the cluster goes on changing and time passes.  StatusRules says   *)
(* what is a problem.  One object of each kind is enough: the code looks   *)
(* at each for itself.                                                     *)
(***************************************************************************)
EXTENDS StatusRules

CONSTANTS
  States(_, _),   \* the objects of a kind that may appear at a time
  AtFirst,        \* the objects of the cluster at first
  MaxTime,        \* bound: how far the clock runs
  MaxChanges      \* bound: changes of objects

ASSUME WatcherAssumption == MaxTime \in Nat /\ MaxChanges \in Nat

\* The order in which Collect goes through the kinds.
Order == <<"Pod", "Node", "Deployment", "StatefulSet", "DaemonSet", "PVC",
           "Certificate">>
Kinds == {Order[i] : i \in DOMAIN Order}

\* What the rules take for granted of the API: dates are dates, and the
\* containers of a pod are numbered.
Shaped(kind, o) ==
  CASE kind = "Pod" -> /\ o.created \in Int /\ o.deleted \in Int
                       /\ DOMAIN o.containers \subseteq Nat /\ DOMAIN o.init \subseteq Nat
    [] kind = "PVC"         -> o.created \in Int
    [] kind = "Certificate" -> o.notAfter \in Int
    [] OTHER                -> TRUE

ASSUME ObjectsAssumption ==
  /\ DOMAIN AtFirst = Kinds /\ \A k \in Kinds : Shaped(k, AtFirst[k])
  /\ \A k \in Kinds, t \in 0..MaxTime : \A o \in States(k, t) : Shaped(k, o)

VARIABLES
  now,            \* the time
  objects,        \* the cluster: its object of each kind
  changes,        \* number of changes so far
  at,             \* the kind being listed next, 0 between polls
  listed,         \* <<the object of that kind>> once the server has answered
  found,          \* problems of this poll so far
  answer,         \* what the last poll returned: problems, or an error
  held,           \* history: the objects there were at some time of the poll
  seen,           \* history: problems one of them has had since it was there
  lasting         \* history: problems there were all the time

cluster == <<now, objects, changes>>
poll == <<at, listed, found, answer>>
history == <<held, seen, lasting>>
vars == <<cluster, poll, history>>

\* The problems of an object of a kind, as makeProblem builds them.
Found(k, o, t) == {k} \X Statuses(k, o, t)

\* Those of a set of objects, and those the cluster has.
FoundIn(h, t) == UNION {Found(p[1], p[2], t) : p \in h}
Present == {<<k, objects[k]>> : k \in Kinds}
Problems == FoundIn(Present, now)

Unanswered == [ok |-> FALSE, problems |-> {}]

Init ==
  /\ now = 0 /\ objects = AtFirst /\ changes = 0
  /\ at = 0 /\ listed = <<>> /\ found = {} /\ answer = Unanswered
  /\ held = {} /\ seen = {} /\ lasting = {}

-----------------------------------------------------------------------------
(* The poll.                                                                *)

Begin ==
  /\ at = 0
  /\ at' = 1 /\ listed' = <<>> /\ found' = {} /\ answer' = Unanswered
  /\ held' = Present /\ seen' = Problems /\ lasting' = Problems
  /\ UNCHANGED cluster

\* The API server answers the list call of one kind.
Serve ==
  /\ at # 0 /\ listed = <<>>
  /\ listed' = <<objects[Order[at]]>>
  /\ UNCHANGED <<cluster, at, found, answer, history>>

\* The watcher looks at the answer; after the last kind Collect returns.
List ==
  /\ listed # <<>>
  /\ LET all == found \cup Found(Order[at], listed[1], now)
     IN  IF at < Len(Order)
         THEN at' = at + 1 /\ found' = all /\ UNCHANGED answer
         ELSE at' = 0 /\ found' = {} /\ answer' = [ok |-> TRUE, problems |-> all]
  /\ listed' = <<>>
  /\ UNCHANGED <<cluster, history>>

\* MUTANT of OnError: what was found so far is returned without the error.
OnErrorKeep == [ok |-> TRUE, problems |-> found]

\* A failed list call makes the whole poll fail.
OnError == Unanswered

\* The call fails, or its answer is lost.
ListFails ==
  /\ at # 0
  /\ at' = 0 /\ listed' = <<>> /\ found' = {} /\ answer' = OnError
  /\ UNCHANGED <<cluster, history>>

-----------------------------------------------------------------------------
(* The cluster.                                                             *)

\* What the poll could have met grows, what it had to meet shrinks.
Observe ==
  IF at = 0 THEN UNCHANGED history
  ELSE /\ held' = held \cup Present'
       /\ seen' = seen \cup FoundIn(held', now')
       /\ lasting' = lasting \cap Problems'

\* An object is replaced by another one.
Change(k) ==
  /\ changes < MaxChanges
  /\ changes' = changes + 1
  /\ \E o \in States(k, now) : objects' = [objects EXCEPT ![k] = o]
  /\ UNCHANGED <<now, poll>>
  /\ Observe

Tick ==
  /\ now < MaxTime
  /\ now' = now + 1
  /\ UNCHANGED <<objects, changes, poll>>
  /\ Observe

Next == Begin \/ Serve \/ List \/ ListFails \/ Tick \/ \E k \in Kinds : Change(k)

Spec == Init /\ [][Next]_vars

-----------------------------------------------------------------------------

\* A problem names its kind and what is wrong.
IsProblem(p) == p[1] \in Kinds /\ p[2] # ""

\* Every variable has its type; between polls nothing is half collected.
TypeOK ==
  /\ now \in 0..MaxTime
  /\ changes \in 0..MaxChanges
  /\ at \in 0..Len(Order)
  /\ at = 0 => found = {} /\ listed = <<>>
  /\ listed # <<>> => listed = <<listed[1]>> /\ <<Order[at], listed[1]>> \in held
  /\ \A p \in found \cup answer.problems : IsProblem(p)
  /\ lasting \subseteq seen

\* What becomes of a problem while its object only grows older.
Later(p) ==
  IF p = <<"Certificate", "Expiring">> THEN {p, <<"Certificate", "Expired">>} ELSE {p}

\* Although the kinds are listed at different moments and judged later still, a
\* poll that succeeds reports every problem that lasted from its first call to its
\* last, if only as what it has become meanwhile; and what it reports has been true,
\* by the end of its last call, of an object the cluster held during the poll, as
\* it stood then.  The object may have changed before its problem came true: a pod
\* listed just before its five minutes are over is reported although it started in
\* time (watcher.go:30-76, 96-145, 261-265, 276-302).
PollTruthful ==
  answer.ok =>
    /\ \A p \in lasting : Later(p) \cap answer.problems # {}
    /\ answer.problems \subseteq seen

\* How grave the dashboard takes a problem to be.
Grave(p) == CASE Severity(p[1], p[2]) = "critical" -> 3
              [] Severity(p[1], p[2]) = "warning"  -> 2
              [] OTHER                             -> 1

\* Time alone heals nothing: a problem of an object that nobody touches does not
\* drop out of the list or become a lesser one by growing older
\* (watcher.go:143-158, 263-270, 299-307, mapper.go:258).
TimeHealsNothing ==
  [][objects' = objects =>
       \A k \in Kinds : \A p \in Found(k, objects[k], now) :
         \E q \in Found(k, objects[k], now)' : Grave(q) >= Grave(p)]_vars

\* The watcher never names a status the knowledge base cannot explain, only
\* passes on what a container or, after "Init:", an init container says of itself
\* (watcher.go:112-188, mapper.go:11).
OwnWords ==
  LET pod == objects["Pod"]
      said == {pod.containers[i].waits : i \in DOMAIN pod.containers}
                \cup {"Init:" \o pod.init[i].waits : i \in DOMAIN pod.init}
  IN  \A p \in Problems :
        Explained(p[1], p[2]) \/ (p[1] = "Pod" /\ p[2] \in said)

\* The text of a certificate never calls a valid one expired, and calls one that
\* has been invalid for a day what its status says.  On the day in between it does
\* not: days are cut off towards zero (watcher.go:296-313).
ExpiryText ==
  LET cert == objects["Certificate"]
  IN  /\ SaysExpired(cert, now) => cert.notAfter < now
      /\ cert.notAfter + Day <= now => SaysExpired(cert, now)
==============================================================================

----------------------------- MODULE WatcherProofs -----------------------------
(***************************************************************************)
(* Theorems about Watcher and StatusRules, for every threshold, any number *)
(* of changes, any time and whatever objects a cluster may hold.  First    *)
(* the rules themselves: a status changes only from Expiring to Expired    *)
(* when time passes (Older).  Then the poll: what it has found so far has  *)
(* been true of an object it could have met, and of the kinds that have    *)
(* been listed, and of the answer it has in hand, nothing that lasted is   *)
(* missing (Listed).                                                       *)
(***************************************************************************)
EXTENDS Watcher, FiniteSetTheorems, TLAPS

-----------------------------------------------------------------------------
(* The rules.                                                               *)

\* The kinds in their order.
LEMMA OrderIs ==
  /\ Len(Order) = 7 /\ DOMAIN Order = 1..7
  /\ Kinds = {"Pod", "Node", "Deployment", "StatefulSet", "DaemonSet", "PVC",
              "Certificate"}
  /\ \A k \in Kinds : \E i \in 1..7 : Order[i] = k
  /\ \A i \in 1..7 : Order[i] \in Kinds
BY DEF Order, Kinds

\* No kind calls an object a problem without naming it.
LEMMA Named ==
  ASSUME NEW k \in Kinds, NEW o, NEW t, NEW s \in Statuses(k, o, t)
  PROVE  s # ""
<1>1. k \in {"Pod", "Node", "Deployment", "StatefulSet", "DaemonSet", "PVC",
             "Certificate"}
  BY OrderIs
<1> QED BY <1>1 DEF Statuses, Reported, NodeStatuses, If, Pressures

\* What has waited too long will have waited too long later.
LEMMA TooOldStays ==
  ASSUME NEW since \in Int, NEW t \in Int, NEW later \in Int, t <= later,
         TooOld(since, t)
  PROVE  TooOld(since, later)
BY TimesAssumption DEF TooOld

\* An object nobody touches keeps its status, but for a certificate that expires.
LEMMA Older ==
  ASSUME NEW k \in Kinds, NEW o, Shaped(k, o), NEW t \in Int, NEW later \in Int,
         t <= later, NEW s \in Statuses(k, o, t)
  PROVE  \/ s \in Statuses(k, o, later)
         \/ /\ k = "Certificate" /\ s = "Expiring"
            /\ "Expired" \in Statuses(k, o, later)
<1>1. t \in Int
  OBVIOUS
<1>2. CASE k = "Pod"
  <2>1. o.created \in Int /\ o.deleted \in Int
    BY <1>2 DEF Shaped
  <2>2. PodStatus(o, t) = s /\ s # ""
    BY <1>2 DEF Statuses, Reported
  <2>3. PendingStatus(o, t) = s => PendingStatus(o, later) = s
    BY <1>1, <2>1, <2>2, TooOldStays DEF PendingStatus
  <2>4. OtherStatus(o, t) = s => OtherStatus(o, later) = s
    <3>1. CASE o.deleted # Never
      <4>1. TooOld(o.deleted, t) => TooOld(o.deleted, later)
        BY <1>1, <2>1, TooOldStays
      <4> QED BY <2>2, <3>1, <4>1 DEF OtherStatus
    <3>2. CASE ~(o.deleted # Never)
      <4>1. OtherStatus(o, later) = OtherStatus(o, t)
        BY <3>2, Zenon DEF OtherStatus
      <4> QED BY <4>1
    <3> QED BY <3>1, <3>2
  <2>5. PodStatus(o, later) = s
    BY <2>2, <2>3, <2>4 DEF PodStatus
  <2> QED BY <1>2, <2>2, <2>5 DEF Statuses, Reported
<1>3. CASE k = "PVC"
  <2>1. o.created \in Int
    BY <1>3 DEF Shaped
  <2>2. ClaimStatus(o, t) = s /\ s # ""
    BY <1>3 DEF Statuses, Reported
  <2>3. ClaimStatus(o, later) = s
    BY <1>1, <2>1, <2>2, TooOldStays DEF ClaimStatus
  <2> QED BY <1>3, <2>2, <2>3 DEF Statuses, Reported
<1>4. CASE k = "Certificate"
  <2>1. o.notAfter \in Int /\ WarnBefore \in Nat
    BY <1>4, TimesAssumption DEF Shaped
  <2>2. CertificateStatus(o, t) = s /\ s # ""
    BY <1>4 DEF Statuses, Reported
  <2>3. CertificateStatus(o, later) \in {s, "Expired"}
    <3>1. Readable(o)
      BY <2>2 DEF CertificateStatus, Readable
    <3>2. o.notAfter < t + WarnBefore
      <4>1. o.notAfter < t \/ o.notAfter < t + WarnBefore
        BY <2>2, Zenon DEF CertificateStatus
      <4> QED BY <1>1, <2>1, <4>1
    <3>3. o.notAfter < later + WarnBefore
      BY <1>1, <2>1, <3>2
    <3>4. o.notAfter < t => o.notAfter < later
      BY <1>1, <2>1
    <3> QED BY <2>2, <3>1, <3>2, <3>3, <3>4 DEF CertificateStatus
  <2>4. s \in {"Expired", "Expiring"}
    BY <2>2 DEF CertificateStatus
  <2> QED BY <1>4, <2>2, <2>3, <2>4 DEF Statuses, Reported
<1>5. CASE k \in {"Node", "Deployment", "StatefulSet", "DaemonSet"}
  BY <1>5 DEF Statuses
<1> QED BY <1>2, <1>3, <1>4, <1>5, OrderIs

\* So a problem of an object that only grows older stays, or becomes what Later
\* says.
LEMMA LaterFound ==
  ASSUME NEW k \in Kinds, NEW o, Shaped(k, o), NEW t \in Int, NEW later \in Int,
         t <= later, NEW p, Later(p) \cap Found(k, o, t) # {}
  PROVE  Later(p) \cap Found(k, o, later) # {}
<1>1. PICK q \in Later(p) : q \in Found(k, o, t)
  OBVIOUS
<1>2. PICK s \in Statuses(k, o, t) : q = <<k, s>>
  BY <1>1 DEF Found
<1>3. CASE s \in Statuses(k, o, later)
  <2>1. q \in Found(k, o, later)
    BY <1>2, <1>3 DEF Found
  <2> QED BY <1>1, <2>1
<1>4. CASE k = "Certificate" /\ s = "Expiring" /\ "Expired" \in Statuses(k, o, later)
  <2>1. <<"Certificate", "Expired">> \in Found(k, o, later)
    BY <1>4 DEF Found
  <2>2. p = <<"Certificate", "Expiring">>
    <3>1. q # <<"Certificate", "Expired">>
      BY <1>2, <1>4
    <3>2. q = p
      BY <1>1, <3>1 DEF Later
    <3> QED BY <1>2, <1>4, <3>2
  <2>3. <<"Certificate", "Expired">> \in Later(p)
    BY <2>2 DEF Later
  <2> QED BY <2>1, <2>3
<1> QED BY <1>2, <1>3, <1>4, Older

\* A problem is one of those it may become, which are of its kind.
LEMMA LaterIs ==
  ASSUME NEW p
  PROVE  p \in Later(p)
BY DEF Later

\* A problem of an object names a kind and a status.
LEMMA FoundNamed ==
  ASSUME NEW k \in Kinds, NEW o, NEW t, NEW p \in Found(k, o, t)
  PROVE  IsProblem(p) /\ p[1] = k
<1>1. PICK s \in Statuses(k, o, t) : p = <<k, s>>
  BY DEF Found
<1>2. s # ""
  BY Named
<1>3. p[1] = k /\ p[2] = s
  BY <1>1
<1> QED BY <1>2, <1>3 DEF IsProblem

-----------------------------------------------------------------------------
(* The poll.                                                                *)

\* The cluster has an object of each kind, and these and those it had during the
\* poll are what the rules take them to be.
Dated ==
  /\ DOMAIN objects = Kinds /\ \A k \in Kinds : Shaped(k, objects[k])
  /\ \A h \in held : h[1] \in Kinds /\ Shaped(h[1], h[2])

\* In the middle of a poll: what there is has been held, what was held has been
\* seen, what has lasted is there, and has been found of the kinds listed so far
\* or will be found in the answer in hand.
Listed ==
  at # 0 =>
    /\ Present \subseteq held /\ FoundIn(held, now) \subseteq seen
    /\ found \subseteq seen /\ lasting \subseteq Problems
    /\ \A i \in 1..(at - 1) : \A p \in lasting :
         p[1] = Order[i] => Later(p) \cap found # {}
    /\ listed # <<>> =>
         \A p \in lasting :
           p[1] = Order[at] => Later(p) \cap Found(Order[at], listed[1], now) # {}

Inv == TypeOK /\ Dated /\ Listed /\ PollTruthful

\* The problems the cluster has, each of the object of its kind.
LEMMA ProblemIs ==
  ASSUME NEW p \in Problems
  PROVE  p[1] \in Kinds /\ p \in Found(p[1], objects[p[1]], now)
<1>1. PICK h \in Present : p \in Found(h[1], h[2], now)
  BY DEF Problems, FoundIn
<1>2. PICK k \in Kinds : h = <<k, objects[k]>>
  BY DEF Present
<1>3. p \in Found(k, objects[k], now)
  BY <1>1, <1>2
<1>4. p[1] = k
  BY <1>3, FoundNamed
<1> QED BY <1>3, <1>4

\* The invariant holds at the start.
LEMMA InitInv == Init => Inv
<1> SUFFICES ASSUME Init PROVE Inv
  OBVIOUS
<1>1. TypeOK
  <2>1. now \in 0..MaxTime /\ changes \in 0..MaxChanges
    BY WatcherAssumption DEF Init
  <2>2. at \in 0..Len(Order)
    BY OrderIs DEF Init
  <2>3. found = {} /\ answer.problems = {} /\ lasting = {} /\ listed = <<>>
    BY DEF Init, Unanswered
  <2> QED BY <2>1, <2>2, <2>3 DEF TypeOK
<1>2. Dated
  BY ObjectsAssumption DEF Init, Dated
<1>3. Listed
  BY DEF Init, Listed
<1>4. PollTruthful
  BY DEF Init, PollTruthful, Unanswered
<1> QED BY <1>1, <1>2, <1>3, <1>4 DEF Inv

\* A poll begins with nothing found.
LEMMA BeginKeeps ==
  ASSUME Inv, Begin
  PROVE  Inv'
<1>1. TypeOK /\ Dated /\ at' = 1 /\ listed' = <<>> /\ found' = {}
      /\ answer' = Unanswered /\ held' = Present /\ seen' = Problems
      /\ lasting' = Problems /\ UNCHANGED <<now, objects, changes>>
  BY DEF Inv, Begin, cluster
<1>2. Present' = Present /\ Problems' = Problems
  BY <1>1 DEF Problems, Present
<1>3. TypeOK'
  <2>1. now' \in 0..MaxTime /\ changes' \in 0..MaxChanges /\ at' \in 0..Len(Order)
    BY <1>1, OrderIs DEF TypeOK
  <2>2. answer'.problems = {} /\ lasting' \subseteq seen'
    BY <1>1 DEF Unanswered
  <2> QED BY <1>1, <2>1, <2>2 DEF TypeOK
<1>4. Dated'
  <2>1. \A h \in Present : h[1] \in Kinds /\ Shaped(h[1], h[2])
    BY <1>1 DEF Dated, Present
  <2> QED BY <1>1, <2>1 DEF Dated
<1>5. Listed'
  <2>1. FoundIn(held', now') = Problems
    BY <1>1 DEF Problems
  <2> QED BY <1>1, <1>2, <2>1 DEF Listed
<1>6. PollTruthful'
  BY <1>1 DEF PollTruthful, Unanswered
<1> QED BY <1>3, <1>4, <1>5, <1>6 DEF Inv

\* The answer holds every problem of its kind that has lasted.
LEMMA ServeKeeps ==
  ASSUME Inv, Serve
  PROVE  Inv'
<1> DEFINE k == Order[at]
<1>1. /\ TypeOK /\ Dated /\ Listed /\ at # 0 /\ k \in Kinds
      /\ listed' = <<objects[k]>>
      /\ UNCHANGED <<now, objects, changes, at, found, answer, held, seen, lasting>>
  BY OrderIs DEF Inv, TypeOK, Serve, cluster, history
<1>2. listed'[1] = objects[k] /\ listed' = <<listed'[1]>>
  BY <1>1
<1>3. <<k, objects[k]>> \in held
  BY <1>1 DEF Listed, Present
<1>4. TypeOK'
  BY <1>1, <1>2, <1>3 DEF TypeOK
<1>5. Dated'
  BY <1>1 DEF Dated
<1>6. Present' = Present /\ Problems' = Problems
  BY <1>1 DEF Problems, Present
<1>7. \A p \in lasting : p[1] = k => Later(p) \cap Found(k, objects[k], now) # {}
  <2> SUFFICES ASSUME NEW p \in lasting, p[1] = k
               PROVE  Later(p) \cap Found(k, objects[k], now) # {}
    OBVIOUS
  <2>1. p \in Found(k, objects[k], now)
    BY <1>1, ProblemIs DEF Listed
  <2> QED BY <2>1, LaterIs
<1>8. Listed'
  BY <1>1, <1>2, <1>6, <1>7 DEF Listed
<1>9. PollTruthful'
  BY <1>1 DEF Inv, PollTruthful
<1> QED BY <1>4, <1>5, <1>8, <1>9 DEF Inv

\* A kind is looked at; with the last one the poll is complete.
LEMMA ListKeeps ==
  ASSUME Inv, List
  PROVE  Inv'
<1> DEFINE k == Order[at]
<1> DEFINE here == Found(k, listed[1], now)
<1> DEFINE all == found \cup here
<1>1. /\ TypeOK /\ Dated /\ Listed /\ at \in 1..7 /\ listed # <<>> /\ listed' = <<>>
      /\ UNCHANGED <<now, objects, changes, held, seen, lasting>>
  BY OrderIs DEF Inv, TypeOK, List, cluster, history
<1>2. k \in Kinds /\ <<k, listed[1]>> \in held
  BY <1>1, OrderIs DEF TypeOK
<1>3. Present' = Present /\ Problems' = Problems
  BY <1>1 DEF Problems, Present
<1>4. all \subseteq seen
  <2>1. here \subseteq FoundIn(held, now)
    <3>1. Found(<<k, listed[1]>>[1], <<k, listed[1]>>[2], now) \subseteq FoundIn(held, now)
      BY <1>2, Zenon DEF FoundIn
    <3> QED BY <3>1
  <2> QED BY <1>1, <2>1 DEF Listed
<1>5. \A i \in 1..at : \A p \in lasting : p[1] = Order[i] => Later(p) \cap all # {}
  <2> SUFFICES ASSUME NEW i \in 1..at, NEW p \in lasting, p[1] = Order[i]
               PROVE  Later(p) \cap all # {}
    OBVIOUS
  <2>1. CASE i = at
    <3>1. Later(p) \cap here # {}
      BY <1>1, <2>1 DEF Listed
    <3> QED BY <3>1
  <2>2. CASE i # at
    <3>1. Later(p) \cap found # {}
      BY <1>1, <2>2 DEF Listed
    <3> QED BY <3>1
  <2> QED BY <2>1, <2>2
<1>6. \A p \in all : IsProblem(p)
  BY <1>1, <1>2, FoundNamed DEF TypeOK
<1> HIDE DEF all
<1>7. Dated'
  BY <1>1 DEF Dated
<1>8. CASE at < Len(Order)
  <2>1. at' = at + 1 /\ found' = all /\ answer' = answer
    BY <1>8 DEF List, all
  <2>2. TypeOK'
    BY <1>1, <1>6, <1>8, <2>1, OrderIs DEF TypeOK
  <2>3. Listed'
    <3>1. 1..(at' - 1) = 1..at
      BY <1>1, <2>1
    <3> QED BY <1>1, <1>3, <1>4, <1>5, <2>1, <3>1 DEF Listed
  <2>4. PollTruthful'
    BY <1>1, <2>1 DEF Inv, PollTruthful
  <2> QED BY <1>7, <2>2, <2>3, <2>4 DEF Inv
<1>9. CASE ~(at < Len(Order))
  <2>1. at' = 0 /\ found' = {} /\ answer' = [ok |-> TRUE, problems |-> all] /\ at = 7
    BY <1>1, <1>9, OrderIs DEF List, all
  <2>2. TypeOK'
    BY <1>1, <1>6, <2>1, OrderIs DEF TypeOK
  <2>3. \A p \in lasting : Later(p) \cap all # {}
    <3> SUFFICES ASSUME NEW p \in lasting PROVE Later(p) \cap all # {}
      OBVIOUS
    <3>1. p[1] \in Kinds
      BY <1>1, <2>1, ProblemIs DEF Listed
    <3>2. PICK i \in 1..7 : Order[i] = p[1]
      BY <3>1, OrderIs
    <3> QED BY <1>5, <2>1, <3>2
  <2>4. PollTruthful'
    BY <1>1, <1>4, <2>1, <2>3 DEF PollTruthful
  <2>5. Listed'
    BY <2>1 DEF Listed
  <2> QED BY <1>7, <2>2, <2>4, <2>5 DEF Inv
<1> QED BY <1>8, <1>9

\* A poll that fails answers nothing.
LEMMA ListFailsKeeps ==
  ASSUME Inv, ListFails
  PROVE  Inv'
<1>1. /\ TypeOK /\ Dated /\ at' = 0 /\ listed' = <<>> /\ found' = {}
      /\ answer' = Unanswered
      /\ UNCHANGED <<now, objects, changes, held, seen, lasting>>
  BY DEF Inv, ListFails, OnError, cluster, history
<1>2. TypeOK'
  BY <1>1, OrderIs DEF TypeOK, Unanswered
<1>3. Dated'
  BY <1>1 DEF Dated
<1>4. Listed' /\ PollTruthful'
  BY <1>1 DEF Listed, PollTruthful, Unanswered
<1> QED BY <1>2, <1>3, <1>4 DEF Inv

\* The cluster moves on: what it has now is held and seen, what it has no more has
\* not lasted, and an answer in hand may only have grown older.
LEMMA ObserveKeeps ==
  ASSUME Inv, Observe, UNCHANGED poll, now' \in 0..MaxTime, now <= now',
         changes' \in 0..MaxChanges,
         DOMAIN objects' = Kinds, \A k \in Kinds : Shaped(k, objects'[k])
  PROVE  Inv'
<1>1. /\ TypeOK /\ Dated /\ Listed /\ PollTruthful /\ now \in Int /\ now' \in Int
      /\ UNCHANGED <<at, listed, found, answer>>
  BY DEF Inv, TypeOK, poll
<1>2. CASE at = 0
  <2>1. UNCHANGED <<held, seen, lasting>>
    BY <1>2 DEF Observe, history
  <2>2. TypeOK'
    BY <1>1, <2>1 DEF TypeOK
  <2>3. Dated'
    BY <1>1, <2>1 DEF Dated
  <2>4. Listed'
    BY <1>1, <1>2 DEF Listed
  <2>5. PollTruthful'
    BY <1>1, <2>1 DEF PollTruthful
  <2> QED BY <2>2, <2>3, <2>4, <2>5 DEF Inv
<1>3. CASE at # 0
  <2>1. /\ held' = held \cup Present' /\ seen' = seen \cup FoundIn(held', now')
        /\ lasting' = lasting \cap Problems'
    BY <1>3 DEF Observe
  <2>2. TypeOK'
    <3>1. lasting' \subseteq seen'
      BY <1>1, <2>1 DEF TypeOK
    <3>2. listed' # <<>> => listed' = <<listed'[1]>> /\ <<Order[at'], listed'[1]>> \in held'
      BY <1>1, <2>1 DEF TypeOK
    <3> QED BY <1>1, <3>1, <3>2 DEF TypeOK
  <2>3. Dated'
    <3>1. \A h \in Present' : h[1] \in Kinds /\ Shaped(h[1], h[2])
      BY DEF Present
    <3> QED BY <1>1, <2>1, <3>1 DEF Dated
  <2>4. listed' # <<>> =>
          \A p \in lasting' :
            p[1] = Order[at'] => Later(p) \cap Found(Order[at'], listed'[1], now') # {}
    <3> SUFFICES ASSUME listed # <<>>, NEW p \in lasting, p[1] = Order[at]
                 PROVE  Later(p) \cap Found(Order[at], listed[1], now') # {}
      BY <1>1, <2>1
    <3>1. Later(p) \cap Found(Order[at], listed[1], now) # {}
      BY <1>1, <1>3 DEF Listed
    <3>2. <<Order[at], listed[1]>> \in held
      BY <1>1 DEF TypeOK
    <3>3. Order[at] \in Kinds /\ Shaped(Order[at], listed[1])
      BY <1>1, <3>2 DEF Dated
    <3> QED BY <1>1, <3>1, <3>3, LaterFound
  <2>5. Listed'
    BY <1>1, <1>3, <2>1, <2>4 DEF Listed
  <2>6. PollTruthful'
    BY <1>1, <1>3, <2>1 DEF PollTruthful
  <2> QED BY <2>2, <2>3, <2>5, <2>6 DEF Inv
<1> QED BY <1>2, <1>3

\* Every step keeps the invariant.
LEMMA StepKeeps ==
  ASSUME Inv, [Next]_vars
  PROVE  Inv'
<1>1. TypeOK /\ Dated /\ now \in 0..MaxTime
  BY DEF Inv, TypeOK
<1>2. ASSUME NEW k \in Kinds, Change(k) PROVE Inv'
  <2>1. PICK o \in States(k, now) : objects' = [objects EXCEPT ![k] = o]
    BY <1>2 DEF Change
  <2>2. Shaped(k, o)
    BY <1>1, <2>1, ObjectsAssumption
  <2>3. DOMAIN objects' = Kinds /\ \A j \in Kinds : Shaped(j, objects'[j])
    BY <1>1, <2>1, <2>2 DEF Dated
  <2>4. now' = now /\ changes' \in 0..MaxChanges /\ Observe /\ UNCHANGED poll
    BY <1>1, <1>2, WatcherAssumption DEF Change, TypeOK
  <2> QED BY <1>1, <2>3, <2>4, ObserveKeeps
<1>3. CASE Tick
  <2>1. /\ now' \in 0..MaxTime /\ now <= now' /\ changes' \in 0..MaxChanges
        /\ objects' = objects /\ Observe /\ UNCHANGED poll
    BY <1>1, <1>3, WatcherAssumption DEF Tick, TypeOK
  <2> QED BY <1>1, <2>1, ObserveKeeps DEF Dated
<1>4. CASE UNCHANGED vars
  <2>1. UNCHANGED <<now, objects, changes, at, listed, found, answer, held, seen, lasting>>
    BY <1>4 DEF vars, cluster, poll, history
  <2>2. Present' = Present /\ Problems' = Problems
    BY <2>1 DEF Problems, Present
  <2>3. TypeOK' /\ Dated' /\ PollTruthful'
    BY <2>1 DEF Inv, TypeOK, Dated, PollTruthful
  <2>4. Listed'
    BY <2>1, <2>2 DEF Inv, Listed
  <2> QED BY <2>3, <2>4 DEF Inv
<1> QED BY <1>2, <1>3, <1>4, BeginKeeps, ServeKeeps, ListKeeps, ListFailsKeeps DEF Next

\* The invariant holds in every reachable state.
THEOREM Invariant == Spec => []Inv
BY InitInv, StepKeeps, PTL DEF Spec

\* Every variable keeps its type, and no problem is nameless.
THEOREM TypeCorrect == Spec => []TypeOK
<1>1. Inv => TypeOK
  BY DEF Inv
<1> QED BY <1>1, Invariant, PTL

\* Whatever the cluster does between the list calls, their answers and the look
\* at them, a poll that succeeds reports every problem that lasted, as what it has
\* become, and nothing that was not true of an object it could have met
\* (watcher.go:30-76, 96-145, 261-265, 276-302).
THEOREM Truthful == Spec => []PollTruthful
<1>1. Inv => PollTruthful
  BY DEF Inv
<1> QED BY <1>1, Invariant, PTL

-----------------------------------------------------------------------------
(* Time.                                                                    *)

\* Cut off towards zero, a number of days is below zero exactly when a whole day
\* has passed.
LEMMA Truncated ==
  ASSUME NEW cert, cert.notAfter \in Int, NEW t \in Int
  PROVE  SaysExpired(cert, t) <=> cert.notAfter + Day <= t
<1> DEFINE d == cert.notAfter - t
<1>1. d \in Int /\ Day \in Nat /\ Day > 0
  BY TimesAssumption
<1>2. CASE d >= 0
  <2>1. d \div Day >= 0
    BY <1>1, <1>2
  <2> QED BY <1>1, <1>2, <2>1 DEF SaysExpired, DaysLeft
<1>3. CASE d < 0
  <2>1. -d \in Nat
    BY <1>1, <1>3
  <2>2. (-d) \div Day \in Nat /\ ((-d) \div Day >= 1 <=> -d >= Day)
    BY <1>1, <2>1
  <2> QED BY <1>1, <1>3, <2>2 DEF SaysExpired, DaysLeft
<1> QED BY <1>1, <1>2, <1>3

\* The sentence about a certificate agrees with its dates (watcher.go:296-313).
THEOREM Sentence == Spec => []ExpiryText
<1>1. Inv => ExpiryText
  <2> SUFFICES ASSUME Inv PROVE ExpiryText
    OBVIOUS
  <2> DEFINE cert == objects["Certificate"]
  <2>1. cert.notAfter \in Int /\ now \in Int /\ Day \in Nat /\ Day > 0
    BY TimesAssumption, OrderIs DEF Inv, TypeOK, Dated, Shaped
  <2>2. SaysExpired(cert, now) <=> cert.notAfter + Day <= now
    BY <2>1, Truncated
  <2> QED BY <2>1, <2>2 DEF ExpiryText
<1> QED BY <1>1, Invariant, PTL

\* The graver of the two certificate problems is the later one.
LEMMA Graver ==
  /\ \A p : Grave(p) \in 1..3
  /\ Grave(<<"Certificate", "Expired">>) = 3
<1>1. Severity("Certificate", "Expired") = "critical"
  <2>1. <<"Certificate", "Expired">> \in Critical
    BY DEF Critical
  <2>2. <<"Certificate", "Expired">> \notin Info
    BY DEF Info
  <2> QED BY <2>1, <2>2 DEF Severity
<1>2. \A p : Grave(p) \in 1..3
  BY DEF Grave
<1>3. Grave(<<"Certificate", "Expired">>) = 3
  BY <1>1 DEF Grave
<1> QED BY <1>2, <1>3

\* A problem of an object nobody touches does not go away or look less grave by
\* growing older (watcher.go:143-158, 263-270, 299-307, mapper.go:258).
THEOREM Stays == Spec => TimeHealsNothing
<1>1. ASSUME Inv, [Next]_vars, objects' = objects,
             NEW k \in Kinds, NEW p \in Found(k, objects[k], now)
      PROVE  \E q \in Found(k, objects[k], now)' : Grave(q) >= Grave(p)
  <2>1. now \in Int /\ now' \in Int /\ now <= now' /\ Shaped(k, objects[k])
    BY <1>1 DEF Inv, TypeOK, Dated, Next, Begin, Serve, List, ListFails, Change, Tick,
                cluster, vars
  <2>2. PICK s \in Statuses(k, objects[k], now) : p = <<k, s>>
    BY <1>1 DEF Found
  <2>3. \A later \in Statuses(k, objects[k], now') :
          <<k, later>> \in Found(k, objects[k], now)'
    BY <1>1 DEF Found
  <2>4. CASE s \in Statuses(k, objects[k], now')
    <3>1. p \in Found(k, objects[k], now)'
      BY <2>2, <2>3, <2>4
    <3>2. Grave(p) >= Grave(p)
      BY Graver
    <3> QED BY <3>1, <3>2
  <2>5. CASE k = "Certificate" /\ "Expired" \in Statuses(k, objects[k], now')
    <3>1. <<"Certificate", "Expired">> \in Found(k, objects[k], now)'
      BY <2>3, <2>5
    <3>2. Grave(<<"Certificate", "Expired">>) >= Grave(p)
      BY Graver
    <3> QED BY <3>1, <3>2
  <2> QED BY <1>1, <2>1, <2>2, <2>4, <2>5, Older
<1>2. Inv /\ [Next]_vars =>
        [objects' = objects =>
           \A k \in Kinds : \A p \in Found(k, objects[k], now) :
             \E q \in Found(k, objects[k], now)' : Grave(q) >= Grave(p)]_vars
  BY <1>1
<1> QED BY <1>2, Invariant, PTL DEF Spec, TimeHealsNothing

-----------------------------------------------------------------------------
(* Words.                                                                   *)

\* A set of natural numbers that is not empty has a least element: of the
\* intervals from 0 to its elements, all finite, one contains no smaller one.
LEMMA Least ==
  ASSUME NEW T, T \subseteq Nat, T # {}
  PROVE  \E m \in T : \A k \in T : m <= k
<1> DEFINE Intervals == {0..n : n \in T}
<1>1. Intervals \subseteq FiniteSubsetsOf(Nat) /\ Intervals # {}
  <2>1. ASSUME NEW n \in T PROVE 0..n \in SUBSET Nat /\ IsFiniteSet(0..n)
    BY FS_Interval
  <2> QED BY <2>1 DEF FiniteSubsetsOf
<1>2. IsWellFoundedOn(StrictSubsetOrdering(Nat), FiniteSubsetsOf(Nat))
  BY FS_StrictSubsetOrderingWellFounded
<1> HIDE DEF Intervals
<1>3. PICK I \in Intervals :
        \A J \in Intervals : <<J, I>> \notin StrictSubsetOrdering(Nat)
  BY <1>1, <1>2, WFMin
<1>4. PICK m \in T : I = 0..m
  BY DEF Intervals
<1>5. ASSUME NEW k \in T PROVE m <= k
  <2> SUFFICES ASSUME k < m PROVE FALSE
    OBVIOUS
  <2>1. 0..k \in Intervals
    BY DEF Intervals
  <2>2. 0..k \subseteq 0..m /\ m \in 0..m /\ m \notin 0..k
    OBVIOUS
  <2>3. <<0..k, I>> \in StrictSubsetOrdering(Nat)
    <3>1. 0..k \in SUBSET Nat /\ 0..m \in SUBSET Nat
      OBVIOUS
    <3> QED BY <1>4, <2>2, <3>1 DEF StrictSubsetOrdering
  <2> QED BY <1>3, <2>1, <2>3
<1> QED BY <1>5

\* FirstWaiting says nothing that no container says: it is the reason of the first
\* container that does not keep silent.
LEMMA FirstSpeaks ==
  ASSUME NEW containers, NEW silent, DOMAIN containers \subseteq Nat,
         FirstWaiting(containers, silent) # ""
  PROVE  \E i \in DOMAIN containers :
           /\ containers[i].waits = FirstWaiting(containers, silent)
           /\ containers[i].waits \notin silent
           /\ \A j \in DOMAIN containers : containers[j].waits \notin silent => i <= j
<1> DEFINE telling == {i \in DOMAIN containers : containers[i].waits \notin silent}
<1>1. telling # {} /\ telling \subseteq DOMAIN containers
  BY DEF FirstWaiting
<1>2. \E m \in telling : \A j \in telling : m <= j
  <2>1. telling \subseteq Nat
    BY <1>1
  <2> HIDE DEF telling
  <2> QED BY <1>1, <2>1, Least
<1>3. PICK first \in telling : /\ \A j \in telling : first <= j
                               /\ FirstWaiting(containers, silent) = containers[first].waits
  <2>1. FirstWaiting(containers, silent) =
          containers[CHOOSE i \in telling : \A j \in telling : i <= j].waits
    BY <1>1 DEF FirstWaiting
  <2> HIDE DEF telling
  <2> QED BY <1>2, <2>1
<1>4. \A j \in DOMAIN containers : containers[j].waits \notin silent => first <= j
  BY <1>3
<1>5. first \in DOMAIN containers /\ containers[first].waits \notin silent
  OBVIOUS
<1> QED BY <1>3, <1>4, <1>5

\* A running pod has the status of one of its containers.
LEMMA Running ==
  ASSUME NEW pod, DOMAIN pod.containers \subseteq Nat, RunningStatus(pod) # ""
  PROVE  \E i \in DOMAIN pod.containers : RunningStatus(pod) = pod.containers[i].waits
BY FirstSpeaks DEF RunningStatus

\* A pod that is being initialised has the status of one of its init containers.
LEMMA Initialising ==
  ASSUME NEW pod, DOMAIN pod.init \subseteq Nat, InitStatus(pod) # ""
  PROVE  \E i \in DOMAIN pod.init : InitStatus(pod) = "Init:" \o pod.init[i].waits
<1> DEFINE reason == FirstWaiting(pod.init, {""})
<1>1. reason # "" /\ InitStatus(pod) = "Init:" \o reason
  BY DEF InitStatus
<1>2. PICK i \in DOMAIN pod.init : pod.init[i].waits = reason
  BY <1>1, FirstSpeaks
<1> QED BY <1>1, <1>2

\* What a container or an init container says of itself.
SaidBy(pod) == {pod.containers[i].waits : i \in DOMAIN pod.containers}
                 \cup {"Init:" \o pod.init[i].waits : i \in DOMAIN pod.init}

\* Every status of any object is in the knowledge base, but for what a container
\* waits for.
LEMMA Words ==
  ASSUME NEW k \in Kinds, NEW o, Shaped(k, o), NEW t, NEW s \in Statuses(k, o, t)
  PROVE  Explained(k, s) \/ (k = "Pod" /\ s \in SaidBy(o))
<1>1. CASE k = "Pod"
  <2>1. /\ PodStatus(o, t) = s /\ s # ""
        /\ DOMAIN o.containers \subseteq Nat /\ DOMAIN o.init \subseteq Nat
    BY <1>1 DEF Statuses, Reported, Shaped
  <2>2. CASE o.phase = "Running"
    <3>1. s = RunningStatus(o)
      BY <2>1, <2>2 DEF PodStatus
    <3>2. \E i \in DOMAIN o.containers : s = o.containers[i].waits
      BY <2>1, <3>1, Running
    <3> QED BY <1>1, <3>2 DEF SaidBy
  <2>3. CASE s = InitStatus(o)
    <3>1. \E i \in DOMAIN o.init : s = "Init:" \o o.init[i].waits
      BY <2>1, <2>3, Initialising
    <3> QED BY <1>1, <3>1 DEF SaidBy
  <2>4. CASE o.phase # "Running" /\ s # InitStatus(o)
    <3>1. \/ s \in {"OOMKilled", "Error", "Pending"}
          \/ s = OtherStatus(o, t)
      BY <2>1, <2>4 DEF PodStatus, FailedStatus, PendingStatus
    <3>2. s = OtherStatus(o, t) => s \in {"Terminating", "Evicted", "Unknown"}
      BY <2>1, <2>4 DEF OtherStatus
    <3>3. s \in {"OOMKilled", "Error", "Pending", "Terminating", "Evicted", "Unknown"}
      BY <3>1, <3>2
    <3> QED BY <1>1, <3>3 DEF Explained, Critical, CriticalPods, Warning
  <2> QED BY <2>2, <2>3, <2>4
<1>2. CASE k = "Node"
  <2>1. s \in {"NotReady", "DiskPressure", "MemoryPressure", "PIDPressure",
               "NetworkUnavailable"}
    BY <1>2 DEF Statuses, NodeStatuses, If, Pressures
  <2> QED BY <1>2, <2>1 DEF Explained, Critical, Warning
<1>3. CASE k \in {"Deployment", "StatefulSet", "DaemonSet"}
  BY <1>3 DEF Statuses, If, Explained, Critical, Warning
<1>4. CASE k = "PVC"
  <2>1. s \in {"Pending", "Lost"}
    BY <1>4 DEF Statuses, Reported, ClaimStatus
  <2> QED BY <1>4, <2>1 DEF Explained, Critical
<1>5. CASE k = "Certificate"
  <2>1. s \in {"Expired", "Expiring"}
    BY <1>5 DEF Statuses, Reported, CertificateStatus
  <2> QED BY <1>5, <2>1 DEF Explained, Critical, Warning
<1> QED BY <1>1, <1>2, <1>3, <1>4, <1>5, OrderIs

\* Of whatever objects a cluster may hold, the watcher names no status of its own
\* that the knowledge base cannot explain (watcher.go:112-188, mapper.go:11).
THEOREM Vocabulary == Spec => []OwnWords
<1>1. Inv => OwnWords
  <2> SUFFICES ASSUME Inv, NEW p \in Problems
               PROVE  \/ Explained(p[1], p[2])
                      \/ p[1] = "Pod" /\ p[2] \in SaidBy(objects["Pod"])
    BY DEF OwnWords, SaidBy
  <2>1. p[1] \in Kinds /\ p \in Found(p[1], objects[p[1]], now)
    BY ProblemIs
  <2>2. p[2] \in Statuses(p[1], objects[p[1]], now)
    BY <2>1 DEF Found
  <2>3. Shaped(p[1], objects[p[1]])
    BY <2>1 DEF Inv, Dated
  <2> QED BY <2>1, <2>2, <2>3, Words
<1> QED BY <1>1, Invariant, PTL
==============================================================================

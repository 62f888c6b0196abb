-------------------------- MODULE ClusterAdminProofs --------------------------
(***************************************************************************)
(* Theorems about ClusterAdmin, for any number of names, requests, rows    *)
(* and restarts.  Two facts carry them: a cluster is registered by one     *)
(* request only (Alone), and names in the table are unique (Unique).       *)
(***************************************************************************)
EXTENDS ClusterAdmin, TLAPS

\* The request that inserted a row is the only one that registers it; it has
\* not ended, and no worker runs yet.
Alone ==
  /\ \A r \in Requests : req[r].pc \in Creating =>
       /\ created[req[r].id] = "open" /\ workers[req[r].id] = "none"
       /\ \A q \in Requests : req[q].pc \in Creating /\ req[q].id = req[r].id => q = r
  /\ \A i \in Id : nameOf[i] = NoName => created[i] = "open"

\* A delete that has stopped its worker finds no other to stop, unless the
\* registration was still under way.
Past ==
  \A r \in Requests : req[r].pc \in {"drop", "erase"} =>
    workers[req[r].id] = "none" \/ created[req[r].id] = "raced"

\* No two rows have one name.
Unique == \A i, j \in rows : nameOf[i] = nameOf[j] => i = j

\* The Secret of a cluster is its own, or has got lost in one of the three ways.
Accounted ==
  {i \in Id : secrets[SecretName(nameOf[i])] = i \/ Shared(i) \/ i \in late \/ i \in dropped}

\* What AllAccounted says of a cluster holds as soon as its Secret is written.
Written ==
  \A r \in Requests : req[r].pc = "add" /\ req[r].id \in rows => req[r].id \in Accounted

\* SecretKept, said of the ids accounted for.
AllAccounted == \A i \in rows : created[i] = "ok" => i \in Accounted

Inv == /\ TypeOK /\ Alone /\ Past /\ Unique /\ Written
       /\ NoStrayWorker /\ FailureIsUndone /\ AllAccounted

-----------------------------------------------------------------------------

\* While Secrets and names stay, so does what is accounted for.
LEMMA AccountedStays ==
  ASSUME UNCHANGED <<secrets, nameOf, late, dropped>>
  PROVE  Accounted' = Accounted
BY DEF Accounted, Shared

\* Ids of requests in hand are ids of rows that have been inserted.
LEMMA InHand ==
  ASSUME TypeOK, NEW r \in Requests, req[r].pc \in Creating \cup Deleting
  PROVE  /\ req[r].id \in Id /\ nameOf[req[r].id] \in Names
         /\ req[r].id # 0
BY AdminAssumption DEF TypeOK, Creating, Deleting, Idle, Id

\* Every name has a Secret of the table of Secrets.
LEMMA HasSecret ==
  ASSUME NEW n \in Names
  PROVE  SecretName(n) \in {SecretName(m) : m \in Names}
OBVIOUS

\* A request that goes on keeps its cluster.
LEMMA GoesOn ==
  ASSUME TypeOK, NEW r \in Requests, req[r].pc \in Creating \cup Deleting,
         NEW to \in Creating \cup Deleting, Goes(r, to)
  PROVE  /\ req'[r] = [pc |-> to, id |-> req[r].id]
         /\ \A q \in Requests : q # r => req'[q] = req[q]
         /\ req' \in [Requests -> {Idle} \cup
              [pc : Creating \cup Deleting, id : {i \in Id : nameOf[i] # NoName}]]
<1>1. req[r] \in [pc : Creating \cup Deleting, id : {i \in Id : nameOf[i] # NoName}]
  BY DEF TypeOK, Creating, Deleting, Idle
<1>2. req' = [req EXCEPT ![r] = [pc |-> to, id |-> req[r].id]]
  <2>1. [req[r] EXCEPT !.pc = to] = [pc |-> to, id |-> req[r].id]
    BY <1>1
  <2> QED BY <2>1 DEF Goes
<1> QED BY <1>1, <1>2 DEF TypeOK

\* A request that is answered is out of the way.
LEMMA AnsweredOut ==
  ASSUME TypeOK, NEW r \in Requests, Answered(r)
  PROVE  /\ req'[r] = Idle
         /\ \A q \in Requests : q # r => req'[q] = req[q]
         /\ req' \in [Requests -> {Idle} \cup
              [pc : Creating \cup Deleting, id : {i \in Id : nameOf[i] # NoName}]]
BY DEF TypeOK, Answered

\* An idle request is neither registering nor deleting.
LEMMA IdleIs == Idle.pc \notin Creating \cup Deleting
BY DEF Idle, Creating, Deleting

\* The invariant holds at the start.
LEMMA InitInv == Init => Inv
<1> SUFFICES ASSUME Init PROVE Inv
  OBVIOUS
<1>1. TypeOK
  BY AdminAssumption DEF Init, TypeOK, Id
<1>2. \A r \in Requests : req[r].pc \notin Creating \cup Deleting
  BY IdleIs DEF Init
<1> QED BY <1>1, <1>2 DEF Init, Inv, Alone, Past, Unique, Written, NoStrayWorker,
        FailureIsUndone, AllAccounted, Deleting, Creating

-----------------------------------------------------------------------------
(* Steps that only move a request.                                          *)

\* A registration goes on to a step other than AddCluster, or a deletion to one
\* for which its worker has been stopped.
LEMMA MoveKeeps ==
  ASSUME Inv, NEW r \in Requests, NEW to \in Creating \cup Deleting, Goes(r, to),
         UNCHANGED <<wired, table, secrets, workers, history, restarts>>,
         \/ req[r].pc \in Creating /\ to \in Creating \ {"add"}
         \/ req[r].pc \in {"drop", "erase"} /\ to \in {"drop", "erase"}
  PROVE  Inv'
<1>1. /\ TypeOK /\ Alone /\ Past /\ Unique /\ Written
      /\ NoStrayWorker /\ FailureIsUndone /\ AllAccounted
      /\ UNCHANGED <<wired, rows, nameOf, secrets, workers, created, dbFailed, late, dropped, restarts>>
  BY DEF Inv, table, history
<1>2. req[r].pc \in Creating \cup Deleting
  BY DEF Deleting
<1>3. /\ req'[r] = [pc |-> to, id |-> req[r].id]
      /\ \A q \in Requests : q # r => req'[q] = req[q]
      /\ req' \in [Requests -> {Idle} \cup
           [pc : Creating \cup Deleting, id : {i \in Id : nameOf[i] # NoName}]]
  BY <1>1, <1>2, GoesOn
<1>4. TypeOK'
  BY <1>1, <1>3 DEF TypeOK
<1>5. Alone'
  BY <1>1, <1>3 DEF Alone, Creating, Deleting
<1>6. Past'
  BY <1>1, <1>3 DEF Past, Creating, Deleting
<1>7. Unique' /\ NoStrayWorker' /\ FailureIsUndone' /\ AllAccounted'
  BY <1>1, AccountedStays DEF Unique, NoStrayWorker, FailureIsUndone, AllAccounted
<1>8. Written'
  BY <1>1, <1>3, AccountedStays DEF Written, SecretOf, Creating
<1> QED BY <1>4, <1>5, <1>6, <1>7, <1>8 DEF Inv

\* A request that is answered and changes nothing leaves everything true.
LEMMA LeaveKeeps ==
  ASSUME Inv, NEW r \in Requests, Answered(r),
         UNCHANGED <<wired, table, secrets, workers, history, restarts>>
  PROVE  Inv'
<1>1. /\ TypeOK /\ Alone /\ Past /\ Unique /\ Written
      /\ NoStrayWorker /\ FailureIsUndone /\ AllAccounted
      /\ UNCHANGED <<wired, rows, nameOf, secrets, workers, created, dbFailed, late, dropped, restarts>>
  BY DEF Inv, table, history
<1>2. /\ req'[r] = Idle
      /\ \A q \in Requests : q # r => req'[q] = req[q]
      /\ req' \in [Requests -> {Idle} \cup
           [pc : Creating \cup Deleting, id : {i \in Id : nameOf[i] # NoName}]]
  BY <1>1, AnsweredOut
<1>3. TypeOK'
  BY <1>1, <1>2 DEF TypeOK
<1>4. Alone' /\ Past' /\ Written'
  BY <1>1, <1>2, IdleIs, AccountedStays DEF Alone, Past, Written, SecretOf, Creating, Deleting
<1>5. Unique' /\ NoStrayWorker' /\ FailureIsUndone' /\ AllAccounted'
  BY <1>1, AccountedStays DEF Unique, NoStrayWorker, FailureIsUndone, AllAccounted
<1> QED BY <1>3, <1>4, <1>5 DEF Inv

-----------------------------------------------------------------------------
(* The steps of a registration.                                             *)

\* A row is inserted.
LEMMA InsertKeeps ==
  ASSUME Inv, NEW r \in Requests, NEW n \in Names, Insert(r, n)
  PROVE  Inv'
<1>1. /\ TypeOK /\ Alone /\ Past /\ Unique /\ Written
      /\ NoStrayWorker /\ FailureIsUndone /\ AllAccounted
      /\ UNCHANGED <<wired, secrets, workers, late, dropped, restarts>>
  BY DEF Inv, Insert
<1>2. PICK i \in Id :
        /\ NextId(i)
        /\ rows' = rows \cup {i} /\ nameOf' = [nameOf EXCEPT ![i] = n]
        /\ \/ /\ req' = [req EXCEPT ![r] = [pc |-> "save", id |-> i]]
              /\ UNCHANGED <<created, dbFailed>>
           \/ /\ Ends(i, "failed") /\ dbFailed' = dbFailed \cup {i}
              /\ UNCHANGED req
  BY DEF Insert
<1>3. /\ nameOf[i] = NoName /\ i \notin rows /\ created[i] = "open" /\ workers[i] = "none"
      /\ \A j \in rows : nameOf[j] # n
      /\ n # NoName
      /\ \A q \in Requests : req[q].pc \in Creating \cup Deleting => req[q].id # i /\ req[q].id \in Id
  BY <1>1, <1>2, InHand, AdminAssumption
  DEF Insert, NextId, NameFree, TypeOK, Alone, NoStrayWorker
<1>4. /\ \A j \in Id : nameOf'[j] = IF j = i THEN n ELSE nameOf[j]
      /\ \A j \in Id : j # i => created'[j] = created[j]
      /\ created'[i] \in {"open", "failed"}
      /\ created'[i] = "failed" => i \in dbFailed'
      /\ dbFailed \subseteq dbFailed'
      /\ \A q \in Requests : req'[q] = req[q] \/ (q = r /\ req'[q] = [pc |-> "save", id |-> i] /\ created' = created)
  BY <1>1, <1>2, <1>3 DEF TypeOK, Ends
<1>5. TypeOK'
  <2>1. nameOf' \in [Id -> Names \cup {NoName}] /\ rows' \subseteq {j \in Id : nameOf'[j] # NoName}
    BY <1>1, <1>2, <1>3, <1>4 DEF TypeOK
  <2>2. req' \in [Requests -> {Idle} \cup
           [pc : Creating \cup Deleting, id : {j \in Id : nameOf'[j] # NoName}]]
    <3>1. \A q \in Requests : req[q] \in {Idle} \cup
           [pc : Creating \cup Deleting, id : {j \in Id : nameOf'[j] # NoName}]
      BY <1>1, <1>3, <1>4 DEF TypeOK
    <3>2. [pc |-> "save", id |-> i] \in
           [pc : Creating \cup Deleting, id : {j \in Id : nameOf'[j] # NoName}]
      BY <1>3, <1>4 DEF Creating
    <3>3. req \in [Requests -> {Idle} \cup
           [pc : Creating \cup Deleting, id : {j \in Id : nameOf'[j] # NoName}]]
      BY <1>1, <3>1 DEF TypeOK
    <3> QED BY <1>2, <3>2, <3>3
  <2>3. created' \in [Id -> {"open", "ok", "raced", "failed"}] /\ dbFailed' \cup late' \cup dropped' \subseteq Id
    BY <1>1, <1>2 DEF TypeOK, Ends
  <2> QED BY <1>1, <2>1, <2>2, <2>3 DEF TypeOK
<1>6. Alone'
  BY <1>1, <1>3, <1>4 DEF Alone, Creating
<1>7. \A j \in rows : j \in Accounted => j \in Accounted'
  <2> SUFFICES ASSUME NEW j \in rows, j \in Accounted
               PROVE  j \in Accounted'
    OBVIOUS
  <2>1. j \in Id /\ j # i /\ nameOf'[j] = nameOf[j]
    BY <1>1, <1>3, <1>4 DEF TypeOK
  <2>2. Shared(j) => Shared(j)'
    <3> SUFFICES ASSUME NEW k \in Id, nameOf[k] \notin {NoName, nameOf[j]},
                        SecretName(nameOf[k]) = SecretName(nameOf[j])
                 PROVE  Shared(j)'
      BY DEF Shared
    <3>1. nameOf'[k] = nameOf[k]
      BY <1>3, <1>4
    <3> QED BY <2>1, <3>1 DEF Shared
  <2> QED BY <1>1, <2>1, <2>2 DEF Accounted
<1>8. Past' /\ Written'
  BY <1>1, <1>2, <1>3, <1>4, <1>7 DEF Past, Written, Creating, Deleting
<1>9. Unique' /\ NoStrayWorker' /\ FailureIsUndone' /\ AllAccounted'
  <2>1. \A j \in rows : j \in Id /\ j # i
    BY <1>1, <1>3 DEF TypeOK
  <2> QED BY <1>1, <1>2, <1>3, <1>4, <1>7, <2>1
          DEF Unique, NoStrayWorker, FailureIsUndone, AllAccounted
<1> QED BY <1>5, <1>6, <1>8, <1>9 DEF Inv

\* The Secret is looked for, or the handler panics for want of a store.
LEMMA SaveKeeps ==
  ASSUME Inv, NEW r \in Requests, Save(r)
  PROVE  Inv'
<1>1. CASE wired
  <2>1. PICK to \in {"create", "update", "rollback"} : Goes(r, to)
    BY <1>1 DEF Save, OnFound
  <2>2. UNCHANGED <<wired, table, secrets, workers, history, restarts>>
    BY <1>1 DEF Save, history
  <2>3. req[r].pc \in Creating /\ to \in Creating \ {"add"}
    BY DEF Save, At, Creating
  <2> QED BY <2>1, <2>2, <2>3, MoveKeeps
<1>2. CASE ~wired
  <2>1. /\ TypeOK /\ Alone /\ Past /\ Unique /\ Written
        /\ NoStrayWorker /\ FailureIsUndone /\ AllAccounted
        /\ Answered(r) /\ Ends(req[r].id, "failed") /\ req[r].pc \in Creating
        /\ UNCHANGED <<wired, rows, nameOf, secrets, workers, dbFailed, late, dropped, restarts>>
    BY <1>2 DEF Inv, Save, table, At, Creating
  <2>2. /\ req'[r] = Idle
        /\ \A q \in Requests : q # r => req'[q] = req[q]
        /\ req' \in [Requests -> {Idle} \cup
             [pc : Creating \cup Deleting, id : {i \in Id : nameOf[i] # NoName}]]
    BY <2>1, AnsweredOut
  <2>3. /\ req[r].id \in Id /\ nameOf[req[r].id] # NoName
        /\ \A i \in Id : created'[i] = IF i = req[r].id THEN "failed" ELSE created[i]
        /\ created' \in [Id -> {"open", "ok", "raced", "failed"}]
        /\ created[req[r].id] = "open" /\ workers[req[r].id] = "none"
    BY <2>1, InHand, AdminAssumption DEF TypeOK, Ends, Alone
  <2>4. TypeOK'
    BY <2>1, <2>2, <2>3 DEF TypeOK
  <2>5. \A q \in Requests : req[q].pc \in Creating \cup Deleting => req[q].id \in Id
    BY <2>1, InHand
  <2>6. Alone' /\ Past' /\ Written'
    BY <2>1, <2>2, <2>3, <2>5, IdleIs, AccountedStays DEF Alone, Past, Written, SecretOf, Creating, Deleting
  <2>7. Unique' /\ NoStrayWorker' /\ FailureIsUndone' /\ AllAccounted'
    BY <1>2, <2>1, <2>3, AccountedStays DEF Unique, NoStrayWorker, FailureIsUndone, AllAccounted, TypeOK
  <2> QED BY <2>4, <2>6, <2>7 DEF Inv
<1> QED BY <1>1, <1>2

\* Whoever changes a Secret has it itself, or has dropped it; every other listed
\* cluster is left alone, shares the Secret, or meets a late request of its name.
LEMMA TouchesOthers ==
  ASSUME TypeOK, Unique, NEW r \in Requests, req[r].pc \in Creating \cup Deleting,
         secrets' = [secrets EXCEPT ![SecretOf(r)] = IF At(r, "drop") THEN 0 ELSE req[r].id],
         Touches(r), UNCHANGED <<rows, nameOf>>
  PROVE  /\ secrets' \in [{SecretName(n) : n \in Names} -> 0..MaxId]
         /\ late' \subseteq Id /\ dropped' \subseteq Id
         /\ req[r].id \in Accounted'
         /\ \A j \in rows : j \in Accounted => j \in Accounted'
<1> DEFINE i == req[r].id
           v == IF At(r, "drop") THEN 0 ELSE i
<1>1. /\ i \in Id /\ nameOf[i] \in Names /\ nameOf[i] # NoName
      /\ SecretOf(r) \in {SecretName(n) : n \in Names}
      /\ SecretOf(r) = SecretName(nameOf[i])
  BY InHand, HasSecret, AdminAssumption DEF SecretOf
<1>2. v \in 0..MaxId
  BY <1>1, AdminAssumption DEF Id
<1>3. /\ secrets' \in [{SecretName(n) : n \in Names} -> 0..MaxId]
      /\ secrets'[SecretOf(r)] = v
      /\ \A s \in {SecretName(n) : n \in Names} : s # SecretOf(r) => secrets'[s] = secrets[s]
  <2> HIDE DEF v
  <2> QED BY <1>1, <1>2 DEF TypeOK, v
<1>4. late' \subseteq Id /\ dropped' \subseteq Id
  BY <1>1 DEF TypeOK, Touches
<1>5. i \in Accounted'
  <2>1. CASE At(r, "drop")
    BY <2>1, <1>1 DEF Touches, Accounted
  <2>2. CASE ~At(r, "drop")
    BY <2>2, <1>1, <1>3 DEF Accounted
  <2> QED BY <2>1, <2>2
<1>6. ASSUME NEW j \in rows, j # i, j \in Accounted
      PROVE  j \in Accounted'
  <2>1. j \in Id /\ nameOf[j] \in Names /\ nameOf[j] # NoName
    BY <1>6 DEF TypeOK
  <2>2. CASE SecretName(nameOf[j]) # SecretOf(r)
    <3>1. /\ secrets'[SecretName(nameOf[j])] = secrets[SecretName(nameOf[j])]
          /\ j \in late => j \in late'
          /\ j \in dropped => j \in dropped'
      BY <1>3, <1>6, <2>1, <2>2, HasSecret DEF Touches
    <3>2. Shared(j) => Shared(j)'
      BY DEF Shared
    <3> QED BY <1>6, <2>1, <3>1, <3>2 DEF Accounted
  <2>3. CASE SecretName(nameOf[j]) = SecretOf(r) /\ nameOf[j] = nameOf[i]
    <3>1. j \in late'
      BY <1>6, <2>3 DEF Touches
    <3> QED BY <2>1, <3>1 DEF Accounted
  <2>4. CASE SecretName(nameOf[j]) = SecretOf(r) /\ nameOf[j] # nameOf[i]
    <3>1. Shared(j)'
      BY <1>1, <2>4 DEF Shared
    <3> QED BY <2>1, <3>1 DEF Accounted
  <2> QED BY <2>2, <2>3, <2>4
<1> QED BY <1>3, <1>4, <1>5, <1>6

\* The Secret is written, or not.
LEMMA WriteKeeps ==
  ASSUME Inv, NEW r \in Requests, Write(r)
  PROVE  Inv'
<1>1. CASE Goes(r, "rollback") /\ UNCHANGED <<secrets, late, dropped>>
  BY <1>1, MoveKeeps DEF Write, history, Creating, At
<1>2. CASE /\ secrets' = [secrets EXCEPT ![SecretOf(r)] = req[r].id]
           /\ Touches(r)
           /\ At(r, "create") \/ At(r, "update")
           /\ Goes(r, "add") \/ Goes(r, "rollback")
  <2>1. /\ TypeOK /\ Alone /\ Past /\ Unique /\ Written
        /\ NoStrayWorker /\ FailureIsUndone /\ AllAccounted
        /\ req[r].pc \in Creating
        /\ UNCHANGED <<wired, rows, nameOf, workers, created, dbFailed, restarts>>
    BY DEF Inv, Write, table, At, Creating
  <2>2. PICK to \in {"add", "rollback"} : Goes(r, to)
    BY <1>2
  <2>3. /\ req'[r] = [pc |-> to, id |-> req[r].id]
        /\ \A q \in Requests : q # r => req'[q] = req[q]
        /\ req' \in [Requests -> {Idle} \cup
             [pc : Creating \cup Deleting, id : {i \in Id : nameOf[i] # NoName}]]
    BY <2>1, <2>2, GoesOn DEF Creating
  <2>4. req[r].id \in Id /\ req[r].id \in 0..MaxId /\ created[req[r].id] = "open"
    BY <2>1, InHand, AdminAssumption DEF Id, Alone
  <2>5. /\ secrets' \in [{SecretName(n) : n \in Names} -> 0..MaxId]
        /\ late' \subseteq Id /\ dropped' \subseteq Id
        /\ req[r].id \in Accounted'
        /\ \A j \in rows : j \in Accounted => j \in Accounted'
    <3>1. ~At(r, "drop")
      BY <1>2 DEF At
    <3> QED BY <1>2, <2>1, <3>1, TouchesOthers
  <2>6. TypeOK'
    BY <2>1, <2>3, <2>5 DEF TypeOK
  <2>7. Alone' /\ Past'
    BY <2>1, <2>2, <2>3 DEF Alone, Past, Creating, Deleting
  <2>8. Unique' /\ NoStrayWorker' /\ FailureIsUndone'
    BY <2>1 DEF Unique, NoStrayWorker, FailureIsUndone
  <2>9. AllAccounted'
    BY <2>1, <2>5 DEF AllAccounted
  <2>10. Written'
    <3> SUFFICES ASSUME NEW q \in Requests, req'[q].pc = "add", req'[q].id \in rows
                 PROVE  req'[q].id \in Accounted'
      BY <2>1 DEF Written
    <3>1. CASE q = r
      BY <3>1, <2>3, <2>5
    <3>2. CASE q # r
      <4>1. req[q].pc = "add" /\ req[q].id \in rows /\ req'[q] = req[q] /\ req[q].id # req[r].id
        BY <3>2, <2>1, <2>3 DEF Alone, Creating
      <4> QED BY <4>1, <2>1, <2>5 DEF Written
    <3> QED BY <3>1, <3>2
  <2> QED BY <2>6, <2>7, <2>8, <2>9, <2>10 DEF Inv
<1> QED BY <1>1, <1>2 DEF Write

\* The row of a failed registration is deleted again, or the database failed.
LEMMA RollbackKeeps ==
  ASSUME Inv, NEW r \in Requests, Rollback(r)
  PROVE  Inv'
<1> DEFINE i == req[r].id
<1>1. /\ TypeOK /\ Alone /\ Past /\ Unique /\ Written
      /\ NoStrayWorker /\ FailureIsUndone /\ AllAccounted
      /\ req[r].pc \in Creating /\ Answered(r) /\ Ends(i, "failed")
      /\ \/ rows' = rows \ {i} /\ dbFailed' = dbFailed
         \/ rows' = rows /\ dbFailed' = dbFailed \cup {i}
      /\ UNCHANGED <<wired, nameOf, secrets, workers, late, dropped, restarts>>
  BY DEF Inv, Rollback, Undone, At, Creating
<1>2. /\ req'[r] = Idle
      /\ \A q \in Requests : q # r => req'[q] = req[q]
      /\ req' \in [Requests -> {Idle} \cup
           [pc : Creating \cup Deleting, id : {j \in Id : nameOf[j] # NoName}]]
  BY <1>1, AnsweredOut
<1>3. /\ i \in Id /\ nameOf[i] # NoName
      /\ \A j \in Id : created'[j] = IF j = i THEN "failed" ELSE created[j]
      /\ created' \in [Id -> {"open", "ok", "raced", "failed"}]
      /\ created[i] = "open" /\ workers[i] = "none"
  BY <1>1, InHand, AdminAssumption DEF TypeOK, Ends, Alone
<1>4. TypeOK'
  BY <1>1, <1>2, <1>3 DEF TypeOK
<1>5. \A q \in Requests : req[q].pc \in Creating \cup Deleting => req[q].id \in Id
  BY <1>1, InHand
<1>6. Alone' /\ Past' /\ Written'
  BY <1>1, <1>2, <1>3, <1>5, IdleIs, AccountedStays DEF Alone, Past, Written, SecretOf, Creating, Deleting
<1>7. Unique' /\ NoStrayWorker' /\ FailureIsUndone' /\ AllAccounted'
  BY <1>1, <1>3, AccountedStays DEF Unique, NoStrayWorker, FailureIsUndone, AllAccounted, TypeOK
<1> QED BY <1>4, <1>6, <1>7 DEF Inv

\* The cluster is added; if its deletion is past the worker, that is recorded.
LEMMA AddKeeps ==
  ASSUME Inv, NEW r \in Requests, Add(r)
  PROVE  Inv'
<1> DEFINE i == req[r].id
<1>1. /\ TypeOK /\ Alone /\ Past /\ Unique /\ Written
      /\ NoStrayWorker /\ FailureIsUndone /\ AllAccounted
      /\ req[r].pc = "add" /\ req[r].pc \in Creating
      /\ Answered(r) /\ Ends(i, IF Raced(i) THEN "raced" ELSE "ok")
      /\ workers' = [workers EXCEPT ![i] = "own"] \/ workers' = workers
      /\ UNCHANGED <<wired, rows, nameOf, secrets, dbFailed, late, dropped, restarts>>
  BY DEF Inv, Add, table, At, Creating
<1>2. /\ req'[r] = Idle
      /\ \A q \in Requests : q # r => req'[q] = req[q]
      /\ req' \in [Requests -> {Idle} \cup
           [pc : Creating \cup Deleting, id : {j \in Id : nameOf[j] # NoName}]]
  BY <1>1, AnsweredOut
<1>3. /\ i \in Id /\ nameOf[i] # NoName
      /\ \A j \in Id : created'[j] = IF j = i THEN IF Raced(i) THEN "raced" ELSE "ok"
                                              ELSE created[j]
      /\ created' \in [Id -> {"open", "ok", "raced", "failed"}]
      /\ workers' \in [Id -> {"none", "own", "incluster"}]
      /\ \A j \in Id : j # i => workers'[j] = workers[j]
  BY <1>1, InHand, AdminAssumption DEF TypeOK, Ends
<1>4. \A q \in Requests : req[q].pc \in Creating \cup Deleting => req[q].id \in Id
  BY <1>1, InHand
<1>5. TypeOK'
  BY <1>1, <1>2, <1>3 DEF TypeOK
<1>6. Alone' /\ Written'
  BY <1>1, <1>2, <1>3, <1>4, IdleIs, AccountedStays DEF Alone, Written, SecretOf, Creating
<1>7. Past'
  <2> SUFFICES ASSUME NEW q \in Requests, req'[q].pc \in {"drop", "erase"}
               PROVE  workers'[req'[q].id] = "none" \/ created'[req'[q].id] = "raced"
    BY DEF Past
  <2>1. q # r /\ req'[q] = req[q] /\ req[q].id \in Id
    BY <1>2, <1>4, IdleIs DEF Deleting
  <2>2. CASE req[q].id = i
    <3>1. Raced(i)
      BY <2>1, <2>2 DEF Raced
    <3> QED BY <1>3, <2>1, <2>2, <3>1
  <2>3. CASE req[q].id # i
    BY <1>1, <1>3, <2>1, <2>3 DEF Past
  <2> QED BY <2>2, <2>3
<1>8. NoStrayWorker'
  BY <1>1, <1>3 DEF NoStrayWorker, Raced
<1>9. AllAccounted'
  BY <1>1, <1>3, AccountedStays DEF AllAccounted, Written, SecretOf, TypeOK
<1>10. Unique' /\ FailureIsUndone'
  BY <1>1, <1>3 DEF Unique, FailureIsUndone, TypeOK
<1> QED BY <1>5, <1>6, <1>7, <1>8, <1>9, <1>10 DEF Inv

-----------------------------------------------------------------------------
(* The steps of a deletion.                                                 *)

\* A delete finds its row.
LEMMA GetKeeps ==
  ASSUME Inv, NEW r \in Requests, NEW i \in Id, Get(r, i)
  PROVE  Inv'
<1>1. /\ TypeOK /\ Alone /\ Past /\ Unique /\ Written
      /\ NoStrayWorker /\ FailureIsUndone /\ AllAccounted
      /\ req' = [req EXCEPT ![r] = [pc |-> "remove", id |-> i]] /\ i \in rows
      /\ UNCHANGED <<wired, rows, nameOf, secrets, workers, created, dbFailed, late, dropped, restarts>>
  BY DEF Inv, Get, table, history
<1>2. [pc |-> "remove", id |-> i] \in
        [pc : Creating \cup Deleting, id : {j \in Id : nameOf[j] # NoName}]
  BY <1>1 DEF TypeOK, Deleting
<1>3. /\ req'[r] = [pc |-> "remove", id |-> i]
      /\ \A q \in Requests : q # r => req'[q] = req[q]
      /\ req' \in [Requests -> {Idle} \cup
           [pc : Creating \cup Deleting, id : {j \in Id : nameOf[j] # NoName}]]
  BY <1>1, <1>2 DEF TypeOK
<1>4. TypeOK'
  BY <1>1, <1>3 DEF TypeOK
<1>5. Alone' /\ Past' /\ Written'
  BY <1>1, <1>3, AccountedStays DEF Alone, Past, Written, SecretOf, Creating
<1>6. Unique' /\ NoStrayWorker' /\ FailureIsUndone' /\ AllAccounted'
  BY <1>1, AccountedStays DEF Unique, NoStrayWorker, FailureIsUndone, AllAccounted
<1> QED BY <1>4, <1>5, <1>6 DEF Inv

\* The worker is stopped.
LEMMA StopKeeps ==
  ASSUME Inv, NEW r \in Requests, Stop(r)
  PROVE  Inv'
<1> DEFINE i == req[r].id
<1>1. /\ TypeOK /\ Alone /\ Past /\ Unique /\ Written
      /\ NoStrayWorker /\ FailureIsUndone /\ AllAccounted
      /\ req[r].pc \in Creating \cup Deleting
      /\ workers' = [workers EXCEPT ![i] = "none"]
      /\ Goes(r, "drop") \/ Answered(r)
      /\ UNCHANGED <<wired, rows, nameOf, secrets, created, dbFailed, late, dropped, restarts>>
  BY DEF Inv, Stop, Stopped, table, history, At, Deleting
<1>2. /\ req'[r] = [pc |-> "drop", id |-> i] \/ req'[r] = Idle
      /\ \A q \in Requests : q # r => req'[q] = req[q]
      /\ req' \in [Requests -> {Idle} \cup
           [pc : Creating \cup Deleting, id : {j \in Id : nameOf[j] # NoName}]]
  BY <1>1, GoesOn, AnsweredOut DEF Deleting
<1>3. /\ i \in Id
      /\ \A j \in Id : workers'[j] = IF j = i THEN "none" ELSE workers[j]
      /\ workers' \in [Id -> {"none", "own", "incluster"}]
      /\ \A q \in Requests : req[q].pc \in Creating \cup Deleting => req[q].id \in Id
  BY <1>1, InHand DEF TypeOK
<1>4. TypeOK'
  BY <1>1, <1>2, <1>3 DEF TypeOK
<1>5. Alone' /\ Past' /\ Written'
  BY <1>1, <1>2, <1>3, IdleIs, AccountedStays DEF Alone, Past, Written, SecretOf, Creating, Deleting
<1>6. Unique' /\ NoStrayWorker' /\ FailureIsUndone' /\ AllAccounted'
  BY <1>1, <1>3, AccountedStays DEF Unique, NoStrayWorker, FailureIsUndone, AllAccounted
<1> QED BY <1>4, <1>5, <1>6 DEF Inv

\* The Secret is dropped, or not.
LEMMA DropKeeps ==
  ASSUME Inv, NEW r \in Requests, Drop(r)
  PROVE  Inv'
<1>1. CASE Goes(r, "erase") /\ UNCHANGED <<secrets, late, dropped>>
  BY <1>1, MoveKeeps DEF Drop, history, Deleting, At
<1>2. CASE /\ secrets' = [secrets EXCEPT ![SecretOf(r)] = 0]
           /\ Touches(r)
           /\ At(r, "drop")
           /\ Goes(r, "erase")
  <2>1. /\ TypeOK /\ Alone /\ Past /\ Unique /\ Written
        /\ NoStrayWorker /\ FailureIsUndone /\ AllAccounted
        /\ req[r].pc = "drop" /\ req[r].pc \in Deleting
        /\ UNCHANGED <<wired, rows, nameOf, workers, created, dbFailed, restarts>>
    BY DEF Inv, Drop, table, At, Deleting
  <2>2. /\ req'[r] = [pc |-> "erase", id |-> req[r].id]
        /\ \A q \in Requests : q # r => req'[q] = req[q]
        /\ req' \in [Requests -> {Idle} \cup
             [pc : Creating \cup Deleting, id : {i \in Id : nameOf[i] # NoName}]]
    BY <1>2, <2>1, GoesOn DEF Deleting
  <2>4. /\ secrets' \in [{SecretName(n) : n \in Names} -> 0..MaxId]
        /\ late' \subseteq Id /\ dropped' \subseteq Id
        /\ \A j \in rows : j \in Accounted => j \in Accounted'
    BY <1>2, <2>1, TouchesOthers
  <2>5. TypeOK'
    BY <2>1, <2>2, <2>4 DEF TypeOK
  <2>6. Alone' /\ Past'
    BY <2>1, <2>2 DEF Alone, Past, Creating, Deleting
  <2>7. Unique' /\ NoStrayWorker' /\ FailureIsUndone'
    BY <2>1 DEF Unique, NoStrayWorker, FailureIsUndone
  <2>8. AllAccounted' /\ Written'
    BY <2>1, <2>2, <2>4 DEF Written, AllAccounted
  <2> QED BY <2>5, <2>6, <2>7, <2>8 DEF Inv
<1> QED BY <1>1, <1>2 DEF Drop, OnDropError

\* The row is deleted; its worker was stopped before.
LEMMA EraseKeeps ==
  ASSUME Inv, NEW r \in Requests, Erase(r)
  PROVE  Inv'
<1> DEFINE i == req[r].id
<1>1. /\ TypeOK /\ Alone /\ Past /\ Unique /\ Written
      /\ NoStrayWorker /\ FailureIsUndone /\ AllAccounted
      /\ req[r].pc = "erase" /\ Answered(r) /\ rows' = rows \ {i}
      /\ UNCHANGED <<wired, nameOf, secrets, workers, created, dbFailed, late, dropped, restarts>>
  BY DEF Inv, Erase, history, At
<1>2. /\ req'[r] = Idle
      /\ \A q \in Requests : q # r => req'[q] = req[q]
      /\ req' \in [Requests -> {Idle} \cup
           [pc : Creating \cup Deleting, id : {j \in Id : nameOf[j] # NoName}]]
  BY <1>1, AnsweredOut
<1>3. TypeOK'
  BY <1>1, <1>2 DEF TypeOK
<1>4. Alone' /\ Past' /\ Written'
  BY <1>1, <1>2, IdleIs, AccountedStays DEF Alone, Past, Written, SecretOf, Creating, Deleting
<1>5. Unique' /\ NoStrayWorker' /\ FailureIsUndone' /\ AllAccounted'
  BY <1>1, AccountedStays DEF Unique, NoStrayWorker, FailureIsUndone, AllAccounted, Past
<1> QED BY <1>3, <1>4, <1>5 DEF Inv

-----------------------------------------------------------------------------

\* The server starts again: its requests are gone, its workers are those of rows.
LEMMA RestartKeeps ==
  ASSUME Inv, Restart
  PROVE  Inv'
<1>1. /\ TypeOK /\ Alone /\ Past /\ Unique /\ Written
      /\ NoStrayWorker /\ FailureIsUndone /\ AllAccounted
      /\ req' = [r \in Requests |-> Idle]
      /\ restarts < MaxRestarts /\ restarts' = restarts + 1
      /\ UNCHANGED <<wired, rows, nameOf, secrets, created, dbFailed, late, dropped>>
  BY DEF Inv, Restart, table, history
<1>2. PICK loaded \in {{}, rows} :
        workers' = [i \in Id |-> IF i \in loaded THEN "incluster" ELSE "none"]
  BY DEF Restart
<1>3. restarts' \in 0..MaxRestarts
  BY <1>1, AdminAssumption DEF TypeOK
<1>4. TypeOK'
  BY <1>1, <1>2, <1>3 DEF TypeOK
<1>5. Alone' /\ Past' /\ Written'
  BY <1>1, IdleIs, AccountedStays DEF Alone, Past, Written, Creating, Deleting
<1>6. Unique' /\ NoStrayWorker' /\ FailureIsUndone' /\ AllAccounted'
  BY <1>1, <1>2, AccountedStays DEF Unique, NoStrayWorker, FailureIsUndone, AllAccounted
<1> QED BY <1>4, <1>5, <1>6 DEF Inv

\* Every step keeps the invariant.
LEMMA StepKeeps ==
  ASSUME Inv, [Next]_vars
  PROVE  Inv'
<1>1. CASE UNCHANGED vars
  BY <1>1, AccountedStays DEF vars, table, history, Inv, TypeOK, Alone, Past, Unique, Written, SecretOf,
              NoStrayWorker, FailureIsUndone, AllAccounted
<1>2. ASSUME NEW r \in Requests, EraseFails(r) PROVE Inv'
  BY <1>2, LeaveKeeps DEF EraseFails
<1> QED BY <1>1, <1>2, InsertKeeps, SaveKeeps, WriteKeeps, RollbackKeeps, AddKeeps,
           GetKeeps, StopKeeps, DropKeeps, EraseKeeps, RestartKeeps DEF Next, Request

\* The invariant holds in every reachable state.
THEOREM Invariant == Spec => []Inv
BY InitInv, StepKeeps, PTL DEF Spec

\* Every variable keeps its type, for any number of names, requests and rows.
THEOREM TypeCorrect == Spec => []TypeOK
<1>1. Inv => TypeOK
  BY DEF Inv
<1> QED BY <1>1, Invariant, PTL

\* However requests, failures and restarts fall, only a cluster whose deletion
\* overtook its registration is monitored without being listed
\* (clusters.go:113-147, main.go:76-92).
THEOREM Monitored == Spec => []NoStrayWorker
<1>1. Inv => NoStrayWorker
  BY DEF Inv
<1> QED BY <1>1, Invariant, PTL

\* A registration answered with an error has left no row while the database
\* answers (clusters.go:100-111).
THEOREM Undoing == Spec => []FailureIsUndone
<1>1. Inv => FailureIsUndone
  BY DEF Inv
<1> QED BY <1>1, Invariant, PTL

\* Of a listed cluster that was registered with success: what its Secret holds is
\* its own kubeconfig, or another name shares the Secret, or a request for a
\* deleted cluster of its name came late, or its own delete has dropped it.  There
\* is no fourth way to lose it, for any number of requests, rows and restarts
\* (clusters.go:98-106, 141-143, secrets.go:24-51).
THEOREM Kept == Spec => []SecretKept
<1>1. Inv => SecretKept
  BY DEF Inv, TypeOK, AllAccounted, Accounted, SecretKept
<1> QED BY <1>1, Invariant, PTL

-----------------------------------------------------------------------------
(* The administration keeps what ClusterLife promises.                      *)

Lives == [i \in Id |-> IF nameOf[i] = NoName THEN "new"
                       ELSE IF i \in rows THEN "listed" ELSE "gone"]
Polled == {i \in Id : workers[i] # "none"}
Leaves(r, i) == req[r].id = i /\ req[r].pc \in {"drop", "erase"}
Leavers == {i \in Id : \E r \in Requests : Leaves(r, i)}

\* What has no name is not listed, and the cluster of a request is not new.
LEMMA LivesAre ==
  ASSUME TypeOK
  PROVE  /\ Life!Listed = rows
         /\ \A r \in Requests : req[r].pc \in Creating \cup Deleting =>
              req[r].id \in Id /\ Lives[req[r].id] # "new"
<1>1. \A i \in Id : Lives[i] = "listed" <=> i \in rows
  BY DEF Lives, TypeOK
<1>2. Life!Listed = {i \in Id : Lives[i] = "listed"}
  BY DEF Life!Listed, Lives
<1>3. ASSUME NEW r \in Requests, req[r].pc \in Creating \cup Deleting
      PROVE  req[r].id \in Id /\ Lives[req[r].id] # "new"
  <2>1. req[r].id \in Id /\ nameOf[req[r].id] # NoName
    BY <1>3, InHand, AdminAssumption
  <2> QED BY <2>1 DEF Lives
<1> QED BY <1>1, <1>2, <1>3 DEF TypeOK

\* A request that neither comes to nor leaves the part of a delete past the
\* worker changes nothing about who is leaving.
LEMMA LeaversSame ==
  ASSUME NEW r \in Requests, \A q \in Requests : q # r => req'[q] = req[q],
         \A i \in Id : Leaves(r, i)' <=> Leaves(r, i)
  PROVE  Leavers' = Leavers
<1>1. \A q \in Requests, i \in Id : Leaves(q, i)' <=> Leaves(q, i)
  BY DEF Leaves
<1> QED BY <1>1 DEF Leavers

\* A request that is over may have been the last that made its cluster leave.
LEMMA LeaversLess ==
  ASSUME NEW r \in Requests, \A q \in Requests : q # r => req'[q] = req[q],
         req'[r] = Idle
  PROVE  Leavers' = Leavers \/ Leavers' = Leavers \ {req[r].id}
<1>1. \A i \in Id : ~Leaves(r, i)'
  BY DEF Leaves, Idle
<1>2. \A i \in Id : i # req[r].id => ~Leaves(r, i)
  BY DEF Leaves
<1>3. \A q \in Requests, i \in Id : q # r => (Leaves(q, i)' <=> Leaves(q, i))
  BY DEF Leaves
<1>4. \A i \in Id : i # req[r].id => (i \in Leavers' <=> i \in Leavers)
  BY <1>1, <1>2, <1>3 DEF Leavers
<1>5. \A i \in Id : i \in Leavers' => i \in Leavers
  BY <1>1, <1>3 DEF Leavers
<1> QED BY <1>4, <1>5 DEF Leavers

\* A request whose delete gets past the worker makes its cluster leave.
LEMMA LeaversMore ==
  ASSUME NEW r \in Requests, \A q \in Requests : q # r => req'[q] = req[q],
         req'[r].id = req[r].id, req'[r].pc = "drop", req[r].id \in Id
  PROVE  Leavers' = Leavers \cup {req[r].id}
<1>1. \A i \in Id : Leaves(r, i)' <=> i = req[r].id
  BY DEF Leaves
<1>2. \A i \in Id : Leaves(r, i) => i = req[r].id
  BY DEF Leaves
<1>3. \A q \in Requests, i \in Id : q # r => (Leaves(q, i)' <=> Leaves(q, i))
  BY DEF Leaves
<1> QED BY <1>1, <1>2, <1>3 DEF Leavers

\* Steps that only move a request, outside of that part or within it.
LEMMA NothingLives ==
  ASSUME UNCHANGED <<rows, nameOf, workers, created>>, Leavers' = Leavers
  PROVE  UNCHANGED Life!vars
BY DEF Life!vars, Lives, Polled, Leavers, Leaves

\* A row is inserted: its cluster is listed under a name nobody has.
LEMMA InsertLists ==
  ASSUME Inv, NEW r \in Requests, NEW n \in Names, Insert(r, n)
  PROVE  \E i \in Id : Life!List(i, n)
<1>1. TypeOK /\ Alone /\ UNCHANGED workers
  BY DEF Inv, Insert
<1>2. PICK i \in Id :
        /\ NextId(i)
        /\ rows' = rows \cup {i} /\ nameOf' = [nameOf EXCEPT ![i] = n]
        /\ \/ /\ req' = [req EXCEPT ![r] = [pc |-> "save", id |-> i]]
              /\ UNCHANGED <<created, dbFailed>>
           \/ /\ Ends(i, "failed") /\ dbFailed' = dbFailed \cup {i}
              /\ UNCHANGED req
  BY DEF Insert
<1>3. nameOf[i] = NoName /\ i \notin rows /\ n # NoName /\ \A j \in rows : nameOf[j] # n
  BY <1>1, <1>2, AdminAssumption DEF NextId, TypeOK, Insert, NameFree
<1>4. Lives[i] = "new" /\ Lives' = [Lives EXCEPT ![i] = "listed"]
  <2>1. \A j \in Id : nameOf'[j] = IF j = i THEN n ELSE nameOf[j]
    BY <1>1, <1>2 DEF TypeOK
  <2>2. \A j \in Id : Lives'[j] = IF j = i THEN "listed" ELSE Lives[j]
    BY <1>2, <1>3, <2>1 DEF Lives
  <2> QED BY <1>3, <2>2 DEF Lives
<1>5. \A j \in Life!Listed : nameOf[j] # n
  BY <1>1, <1>3, LivesAre
<1>6. Leavers' = Leavers
  <2>1. CASE UNCHANGED req
    BY <2>1 DEF Leavers, Leaves
  <2>2. CASE req' = [req EXCEPT ![r] = [pc |-> "save", id |-> i]]
    <3>1. /\ req'[r] = [pc |-> "save", id |-> i] /\ req[r].pc = "idle"
          /\ \A q \in Requests : q # r => req'[q] = req[q]
      BY <1>1, <2>2 DEF TypeOK, Insert, At
    <3> QED BY <3>1, LeaversSame DEF Leaves
  <2> QED BY <1>2, <2>1, <2>2
<1>7. Polled' = Polled
  BY <1>1 DEF Polled
<1>8. created' = created \/ created' = [created EXCEPT ![i] = "failed"]
  BY <1>2 DEF Ends
<1>9. Life!List(i, n) <=>
        /\ Lives[i] = "new" /\ \A j \in Life!Listed : nameOf[j] # n
        /\ Lives' = [Lives EXCEPT ![i] = "listed"]
        /\ nameOf' = [nameOf EXCEPT ![i] = n]
        /\ created' = created \/ created' = [created EXCEPT ![i] = "failed"]
        /\ UNCHANGED <<Polled, Leavers>>
  BY DEF Life!List, Lives, Polled, Leavers, Leaves
<1> QED BY <1>2, <1>4, <1>5, <1>6, <1>7, <1>8, <1>9

\* A registration that is given up or undone is refused.
LEMMA FailureRefuses ==
  ASSUME Inv, NEW r \in Requests, req[r].pc \in Creating, Answered(r),
         NEW i \in Id, req[r].id = i, Ends(i, "failed"), UNCHANGED <<nameOf, workers>>,
         rows' = rows \/ rows' = rows \ {i}
  PROVE  Life!Refuse(i)
<1>1. TypeOK /\ created[i] = "open" /\ workers[i] = "none"
  BY DEF Inv, Alone
<1>2. i \in Id /\ Lives[i] # "new" /\ nameOf[i] # NoName
  BY <1>1, LivesAre, InHand, AdminAssumption
<1>3. Leavers' = Leavers
  <2>1. req'[r] = Idle /\ \A q \in Requests : q # r => req'[q] = req[q]
    BY <1>1, AnsweredOut
  <2>2. req[r].pc \notin {"drop", "erase"} /\ req'[r].pc \notin {"drop", "erase"}
    BY <2>1 DEF Idle, Creating
  <2> QED BY <2>1, <2>2, LeaversSame DEF Leaves
<1>4. Polled' = Polled /\ i \notin Polled
  BY <1>1 DEF Polled
<1>5. Lives' = Lives \/ Lives' = [Lives EXCEPT ![i] = "gone"]
  <2>1. CASE rows' = rows
    BY <2>1 DEF Lives
  <2>2. CASE rows' = rows \ {i}
    <3>1. \A j \in Id : Lives'[j] = IF j = i THEN "gone" ELSE Lives[j]
      BY <1>2, <2>2 DEF Lives
    <3> QED BY <3>1 DEF Lives
  <2> QED BY <2>1, <2>2
<1>6. created' = [created EXCEPT ![i] = "failed"]
  BY DEF Ends
<1>7. Life!Refuse(i) <=>
        /\ Lives[i] # "new" /\ created[i] = "open"
        /\ created' = [created EXCEPT ![i] = "failed"]
        /\ \/ Lives' = Lives
           \/ i \notin Polled /\ Lives' = [Lives EXCEPT ![i] = "gone"]
        /\ UNCHANGED <<nameOf, Polled, Leavers>>
  BY DEF Life!Refuse, Lives, Polled, Leavers, Leaves
<1> QED BY <1>1, <1>2, <1>3, <1>4, <1>5, <1>6, <1>7

\* A registration that comes to its end is accepted, as one that was overtaken
\* if a delete is past its worker or through.
LEMMA AddAccepts ==
  ASSUME Inv, NEW r \in Requests, NEW i \in Id, req[r].id = i, Add(r)
  PROVE  Life!Accept(i)
<1>1. /\ TypeOK /\ req[r].pc = "add" /\ req[r].pc \in Creating /\ Answered(r)
      /\ created[i] = "open"
      /\ workers' = [workers EXCEPT ![i] = "own"] \/ workers' = workers
      /\ UNCHANGED <<rows, nameOf>>
  BY DEF Inv, Alone, Add, At, Creating, table
<1>2. i \in Id /\ Lives[i] # "new"
  BY <1>1, LivesAre
<1>3. Leavers' = Leavers
  <2>1. req'[r] = Idle /\ \A q \in Requests : q # r => req'[q] = req[q]
    BY <1>1, AnsweredOut
  <2>2. req[r].pc \notin {"drop", "erase"} /\ req'[r].pc \notin {"drop", "erase"}
    BY <1>1, <2>1 DEF Idle
  <2> QED BY <2>1, <2>2, LeaversSame DEF Leaves
<1>4. Polled' = Polled \/ Polled' = Polled \cup {i}
  BY <1>1, <1>2 DEF Polled, TypeOK
<1>5. Lives' = Lives
  BY <1>1 DEF Lives
<1>6. Raced(i) <=> i \notin Life!Listed \ Leavers
  <2>1. i \in Leavers <=> \E q \in Requests : Leaves(q, i)
    BY <1>2 DEF Leavers
  <2> QED BY <1>1, <2>1, LivesAre DEF Raced, Leaves
<1>7. created' = [created EXCEPT ![i] =
                    IF i \in Life!Listed \ Leavers THEN "ok" ELSE "raced"]
  <2>1. created' = [created EXCEPT ![i] = IF Raced(i) THEN "raced" ELSE "ok"]
    BY DEF Add, Ends
  <2> QED BY <1>6, <2>1
<1>8. Life!Accept(i) <=>
        /\ Lives[i] # "new" /\ created[i] = "open"
        /\ created' = [created EXCEPT ![i] =
                         IF i \in Life!Listed \ Leavers THEN "ok" ELSE "raced"]
        /\ Polled' = Polled \/ Polled' = Polled \cup {i}
        /\ UNCHANGED <<Lives, nameOf, Leavers>>
  BY DEF Life!Accept, Lives, Polled, Leavers, Leaves
<1> QED BY <1>1, <1>2, <1>3, <1>4, <1>5, <1>7, <1>8

\* A delete stops the worker, and goes on unless there is no secret store.
LEMMA StopLeaves ==
  ASSUME Inv, NEW r \in Requests, NEW i \in Id, req[r].id = i, Stop(r)
  PROVE  Life!Leave(i)
<1>1. /\ TypeOK /\ req[r].pc = "remove" /\ req[r].pc \in Creating \cup Deleting
      /\ workers' = [workers EXCEPT ![i] = "none"]
      /\ Goes(r, "drop") \/ Answered(r)
      /\ UNCHANGED <<rows, nameOf, created>>
  BY DEF Inv, Stop, Stopped, table, history, At, Deleting
<1>2. i \in Id /\ Lives[i] # "new"
  BY <1>1, LivesAre
<1>3. Leavers' = Leavers \/ Leavers' = Leavers \cup {i}
  <2>1. CASE Goes(r, "drop")
    <3>1. /\ req'[r] = [pc |-> "drop", id |-> i]
          /\ \A q \in Requests : q # r => req'[q] = req[q]
      BY <1>1, <2>1, GoesOn DEF Deleting
    <3>2. req'[r].id = req[r].id /\ req'[r].pc = "drop"
      BY <3>1
    <3> QED BY <1>2, <3>1, <3>2, LeaversMore
  <2>2. CASE Answered(r)
    <3>1. req'[r] = Idle /\ \A q \in Requests : q # r => req'[q] = req[q]
      BY <1>1, <2>2, AnsweredOut
    <3>2. req[r].pc \notin {"drop", "erase"} /\ req'[r].pc \notin {"drop", "erase"}
      BY <1>1, <3>1 DEF Idle
    <3> QED BY <3>1, <3>2, LeaversSame DEF Leaves
  <2> QED BY <1>1, <2>1, <2>2
<1>4. Polled' = Polled \ {i}
  BY <1>1, <1>2 DEF Polled, TypeOK
<1>5. Lives' = Lives
  BY <1>1 DEF Lives
<1>6. Life!Leave(i) <=>
        /\ Lives[i] # "new" /\ Polled' = Polled \ {i}
        /\ Leavers' = Leavers \/ Leavers' = Leavers \cup {i}
        /\ UNCHANGED <<Lives, nameOf, created>>
  BY DEF Life!Leave, Lives, Polled, Leavers, Leaves
<1> QED BY <1>1, <1>2, <1>3, <1>4, <1>5, <1>6

\* A row is deleted; its cluster has no worker, or one that came too late.
LEMMA EraseRemoves ==
  ASSUME Inv, NEW r \in Requests, NEW i \in Id, req[r].id = i, Erase(r)
  PROVE  Life!Remove(i)
<1>1. /\ TypeOK /\ req[r].pc = "erase" /\ req[r].pc \in Creating \cup Deleting
      /\ Answered(r) /\ rows' = rows \ {i}
      /\ workers[i] = "none" \/ created[i] = "raced"
      /\ UNCHANGED <<nameOf, workers, created>>
  BY DEF Inv, Past, Erase, At, Deleting, history
<1>2. i \in Id /\ nameOf[i] # NoName
  BY <1>1, InHand, AdminAssumption
<1>3. i \in Leavers /\ (i \notin Polled \/ created[i] = "raced")
  BY <1>1, <1>2 DEF Leavers, Leaves, Polled
<1>4. Leavers' = Leavers \/ Leavers' = Leavers \ {i}
  BY <1>1, AnsweredOut, LeaversLess
<1>5. Lives' = [Lives EXCEPT ![i] = "gone"]
  <2>1. \A j \in Id : Lives'[j] = IF j = i THEN "gone" ELSE Lives[j]
    BY <1>1, <1>2 DEF Lives
  <2> QED BY <2>1 DEF Lives
<1>6. Polled' = Polled
  BY <1>1 DEF Polled
<1>7. Life!Remove(i) <=>
        /\ i \in Leavers /\ (i \notin Polled \/ created[i] = "raced")
        /\ Lives' = [Lives EXCEPT ![i] = "gone"]
        /\ Leavers' = Leavers \/ Leavers' = Leavers \ {i}
        /\ UNCHANGED <<nameOf, created, Polled>>
  BY DEF Life!Remove, Lives, Polled, Leavers, Leaves
<1> QED BY <1>1, <1>3, <1>4, <1>5, <1>6, <1>7

\* A delete that fails at the end is given up.
LEMMA EraseFailsStays ==
  ASSUME Inv, NEW r \in Requests, NEW i \in Id, req[r].id = i, EraseFails(r)
  PROVE  Life!Stay(i) \/ UNCHANGED Life!vars
<1>1. /\ TypeOK /\ req[r].pc \in Creating \cup Deleting /\ Answered(r)
      /\ UNCHANGED <<rows, nameOf, workers, created>>
  BY DEF Inv, EraseFails, At, Deleting, table, history
<1>2. i \in Id
  BY <1>1, InHand
<1>3. Leavers' = Leavers \/ Leavers' = Leavers \ {i}
  BY <1>1, AnsweredOut, LeaversLess
<1>4. CASE Leavers' = Leavers
  BY <1>1, <1>2, <1>4, NothingLives
<1>5. CASE Leavers' = Leavers \ {i}
  <2>1. Lives' = Lives /\ Polled' = Polled
    BY <1>1 DEF Lives, Polled
  <2>2. Life!Stay(i) <=>
          Leavers' = Leavers \ {i} /\ UNCHANGED <<Lives, nameOf, created, Polled>>
    BY DEF Life!Stay, Lives, Polled, Leavers, Leaves
  <2> QED BY <1>1, <1>2, <1>5, <2>1, <2>2
<1> QED BY <1>3, <1>4, <1>5

\* The requests are lost; what is monitored is what is listed, or nothing.
LEMMA RestartRestarts ==
  ASSUME Inv, Restart
  PROVE  Life!Restart
<1>1. /\ TypeOK /\ req' = [r \in Requests |-> Idle]
      /\ UNCHANGED <<rows, nameOf, created>>
  BY DEF Inv, Restart, table, history
<1>2. PICK loaded \in {{}, rows} :
        workers' = [i \in Id |-> IF i \in loaded THEN "incluster" ELSE "none"]
  BY DEF Restart
<1>3. Leavers' = {}
  BY <1>1 DEF Leavers, Leaves, Idle
<1>4. Polled' = {} \/ Polled' = Life!Listed
  <2>1. loaded \subseteq Id
    BY <1>1 DEF TypeOK
  <2>2. Polled' = loaded
    BY <1>2, <2>1 DEF Polled
  <2> QED BY <1>1, <2>2, LivesAre
<1>5. Lives' = Lives
  BY <1>1 DEF Lives
<1>6. Life!Restart <=>
        /\ Polled' = {} \/ Polled' = Life!Listed
        /\ Leavers' = {}
        /\ UNCHANGED <<Lives, nameOf, created>>
  BY DEF Life!Restart, Lives, Polled, Leavers, Leaves
<1> QED BY <1>1, <1>3, <1>4, <1>5, <1>6

\* The calls in between concern the Secret and nothing an administrator is told.
LEMMA SecretsAside ==
  ASSUME Inv, NEW r \in Requests, UNCHANGED <<rows, nameOf, workers, created>>,
         NEW to \in Creating \cup Deleting, Goes(r, to),
         \/ req[r].pc \in Creating /\ to \in Creating
         \/ req[r].pc = "drop" /\ to = "erase"
  PROVE  UNCHANGED Life!vars
<1>1. TypeOK /\ req[r].pc \in Creating \cup Deleting
  BY DEF Inv, Deleting
<1>2. /\ req'[r] = [pc |-> to, id |-> req[r].id]
      /\ \A q \in Requests : q # r => req'[q] = req[q]
  BY <1>1, GoesOn
<1>3. req'[r].pc = to /\ req'[r].id = req[r].id
  BY <1>2
<1>4. Leavers' = Leavers
  BY <1>2, <1>3, LeaversSame DEF Leaves, Creating
<1> QED BY <1>4, NothingLives

\* A cluster's life is what ClusterLife promises, for any number of clusters,
\* requests and restarts.
THEOREM Lived == Spec => ImplementsClusterLife
<1>1. ASSUME Init PROVE Life!Init
  <2>1. \A i \in Id : Lives[i] = "new"
    BY <1>1 DEF Init, Lives
  <2>2. Lives = [i \in Id |-> "new"]
    BY <2>1 DEF Lives
  <2>3. Polled = {}
    BY <1>1 DEF Init, Polled
  <2>4. Leavers = {}
    BY <1>1 DEF Init, Leavers, Leaves, Idle
  <2>5. Life!Init <=>
          /\ Lives = [i \in Id |-> "new"] /\ created = [i \in Id |-> "open"]
          /\ Polled = {} /\ Leavers = {}
    BY DEF Life!Init, Lives, Polled, Leavers, Leaves
  <2> QED BY <1>1, <2>2, <2>3, <2>4, <2>5 DEF Init
<1>2. ASSUME Inv, [Next]_vars PROVE [Life!Next]_(Life!vars)
  <2>1. ASSUME NEW r \in Requests, NEW n \in Names, Insert(r, n) PROVE Life!Next
    BY <1>2, <2>1, InsertLists DEF Life!Next
  <2>2. ASSUME NEW i \in Id,
               \/ Life!Accept(i) \/ Life!Refuse(i) \/ Life!Leave(i)
               \/ Life!Remove(i) \/ Life!Stay(i)
        PROVE  Life!Next
    BY <2>2 DEF Life!Next
  <2>3. ASSUME NEW r \in Requests, Request(r) PROVE Life!Next \/ UNCHANGED Life!vars
    <3>1. PICK i \in Id : req[r].id = i
      <4>1. req[r].pc \in Creating \cup Deleting
        BY <2>3 DEF Request, Save, Write, Rollback, Add, Stop, Drop, Erase, EraseFails,
                    At, Creating, Deleting
      <4> QED BY <1>2, <4>1, InHand DEF Inv
    <3>2. CASE Save(r)
      <4>1. CASE wired
        <5>1. PICK to \in {"create", "update", "rollback"} : Goes(r, to)
          BY <3>2, <4>1 DEF Save, OnFound
        <5>2. /\ to \in Creating /\ req[r].pc \in Creating
              /\ UNCHANGED <<rows, nameOf, workers, created>>
          BY <3>2, <4>1 DEF Save, At, table, Creating
        <5> QED BY <1>2, <5>1, <5>2, SecretsAside
      <4>2. CASE ~wired
        <5>1. /\ req[r].pc \in Creating /\ Answered(r) /\ Ends(i, "failed")
              /\ UNCHANGED <<rows, nameOf, workers>>
          BY <3>1, <3>2, <4>2 DEF Save, At, table, Creating
        <5> QED BY <1>2, <2>2, <3>1, <5>1, FailureRefuses
      <4> QED BY <4>1, <4>2
    <3>3. CASE Write(r)
      BY <1>2, <3>3, SecretsAside DEF Write, At, table, Creating
    <3>4. CASE Rollback(r)
      <4>1. /\ req[r].pc \in Creating /\ Answered(r) /\ Ends(i, "failed")
            /\ UNCHANGED <<nameOf, workers>>
            /\ rows' = rows \/ rows' = rows \ {i}
        BY <3>1, <3>4 DEF Rollback, Undone, At, Creating
      <4> QED BY <1>2, <2>2, <3>1, <4>1, FailureRefuses
    <3>5. CASE Add(r)
      BY <1>2, <2>2, <3>1, <3>5, AddAccepts
    <3>6. CASE Stop(r)
      BY <1>2, <2>2, <3>1, <3>6, StopLeaves
    <3>7. CASE Drop(r)
      BY <1>2, <3>7, SecretsAside DEF Drop, OnDropError, At, table, history, Deleting
    <3>8. CASE Erase(r)
      BY <1>2, <2>2, <3>1, <3>8, EraseRemoves
    <3>9. CASE EraseFails(r)
      BY <1>2, <2>2, <3>1, <3>9, EraseFailsStays
    <3> QED BY <2>3, <3>2, <3>3, <3>4, <3>5, <3>6, <3>7, <3>8, <3>9 DEF Request
  <2>4. ASSUME NEW r \in Requests, NEW i \in Id, Get(r, i) PROVE UNCHANGED Life!vars
    <3>1. /\ req'[r] = [pc |-> "remove", id |-> i] /\ req[r].pc = "idle"
          /\ \A q \in Requests : q # r => req'[q] = req[q]
      BY <1>2, <2>4 DEF Get, At, Inv, TypeOK
    <3>2. Leavers' = Leavers
      BY <3>1, LeaversSame DEF Leaves
    <3> QED BY <2>4, <3>2, NothingLives DEF Get, table, history
  <2>5. CASE Restart
    BY <1>2, <2>5, RestartRestarts DEF Life!Next
  <2>6. CASE UNCHANGED vars
    <3>1. Leavers' = Leavers
      BY <2>6 DEF vars, Leavers, Leaves
    <3> QED BY <2>6, <3>1, NothingLives DEF vars, table, history
  <2> QED BY <1>2, <2>1, <2>3, <2>4, <2>5, <2>6 DEF Next
<1> QED BY <1>1, <1>2, Invariant, PTL DEF Spec, Life!Spec, ImplementsClusterLife
==============================================================================

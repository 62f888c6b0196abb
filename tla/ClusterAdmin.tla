----------------------------- MODULE ClusterAdmin -----------------------------
(***************************************************************************)
(* Clusters are registered and removed over HTTP (internal/api/clusters.go) *)
(* and read back when the server starts (cmd/server/main.go).  A cluster is *)
(* a row of the database, a Secret with the uploaded kubeconfig and a       *)
(* worker of the controller; a request changes them one call after the      *)
(* other, and nothing keeps the requests apart.  Any call may fail, a       *)
(* failed call may have taken effect, and the server may restart at any     *)
(* point.  What a worker does is in ClusterController.                      *)
(*                                                                         *)
(* An upload is known by the id of the row its request inserted.            *)
(***************************************************************************)
EXTENDS Naturals

CONSTANTS
  Names,          \* names a cluster may be given
  Twins,          \* those among them with the same sanitized form
  Requests,       \* requests under way at a time
  NoName,
  MaxId,          \* bound: rows inserted over the run
  MaxRestarts     \* bound: restarts of the server

ASSUME AdminAssumption ==
  Twins \subseteq Names /\ NoName \notin Names /\ MaxId \in Nat /\ MaxRestarts \in Nat

VARIABLES
  wired,          \* is there a secret store: in the tests yes, in main.go no
  rows,           \* the table of clusters: the ids it holds
  nameOf,         \* the name a row was inserted with
  secrets,        \* the upload a Secret holds, 0 when there is no Secret
  workers,        \* which kubeconfig the worker of a cluster uses
  req,            \* the requests: where each stands and its cluster
  created,        \* history: how the request that inserted a row ended
  dbFailed,       \* history: clusters a database call failed for
  late,           \* history: clusters whose Secret was changed, after they wrote
                  \* it, by a request for a deleted cluster of their name ...
  dropped,        \* ... or dropped by a delete of their own
  restarts        \* number of restarts so far

table == <<rows, nameOf>>
history == <<created, dbFailed, late, dropped>>
vars == <<wired, table, secrets, workers, req, history, restarts>>

Id == 1..MaxId
Idle == [pc |-> "idle", id |-> 0]
Creating == {"save", "create", "update", "rollback", "add"}
Deleting == {"remove", "drop", "erase"}

\* "kubeconfig-" and the sanitized name: twins get the same.
SecretName(n) == IF n \in Twins THEN CHOOSE t \in Twins : TRUE ELSE n

Init ==
  /\ wired \in BOOLEAN
  /\ rows = {}
  /\ nameOf = [i \in Id |-> NoName]
  /\ secrets = [s \in {SecretName(n) : n \in Names} |-> 0]
  /\ workers = [i \in Id |-> "none"]
  /\ req = [r \in Requests |-> Idle]
  /\ created = [i \in Id |-> "open"]
  /\ dbFailed = {} /\ late = {} /\ dropped = {} /\ restarts = 0

At(r, pc) == req[r].pc = pc
Goes(r, pc) == req' = [req EXCEPT ![r].pc = pc]

\* MUTANT of Answered: the request's slot keeps its cluster.
AnsweredHalf(r) == Goes(r, "idle")

\* The handler returns.
Answered(r) == req' = [req EXCEPT ![r] = Idle]

Ends(i, how) == created' = [created EXCEPT ![i] = how]

\* The Secret of a request's cluster.
SecretOf(r) == SecretName(nameOf[req[r].id])

-----------------------------------------------------------------------------
(* POST /api/clusters                                                       *)

\* MUTANT of NameFree: the column is not UNIQUE.
NameFreeAlways(n) == TRUE

\* The column name is UNIQUE: inserting a second row of that name fails.
NameFree(n) == \A i \in rows : nameOf[i] # n

NextId(i) == nameOf[i] = NoName /\ \A j \in 1..(i - 1) : nameOf[j] # NoName

\* CreateCluster; when the answer is lost the row is there, the request is over.
Insert(r, n) ==
  /\ At(r, "idle") /\ NameFree(n)
  /\ \E i \in Id :
       /\ NextId(i)
       /\ rows' = rows \cup {i} /\ nameOf' = [nameOf EXCEPT ![i] = n]
       /\ \/ /\ req' = [req EXCEPT ![r] = [pc |-> "save", id |-> i]]
             /\ UNCHANGED <<created, dbFailed>>
          \/ /\ Ends(i, "failed") /\ dbFailed' = dbFailed \cup {i}
             /\ UNCHANGED req
  /\ UNCHANGED <<wired, secrets, workers, late, dropped, restarts>>

\* MUTANT of OnFound: a Secret that is there is taken for the stored one.
OnFoundDone == "add"

\* Where SaveKubeconfig goes from a Secret it found.
OnFound == "update"

\* SaveKubeconfig looks for the Secret.  With no secret store the handler
\* panics here; the router answers 500.
Save(r) ==
  /\ At(r, "save")
  /\ IF wired
     THEN /\ \/ Goes(r, IF secrets[SecretOf(r)] = 0 THEN "create" ELSE OnFound)
             \/ Goes(r, "rollback")
          /\ UNCHANGED created
     ELSE Answered(r) /\ Ends(req[r].id, "failed")
  /\ UNCHANGED <<wired, table, secrets, workers, dbFailed, late, dropped, restarts>>

\* A request that changes its Secret when its own cluster is off the list does
\* it to the one listed under the name by now.
Touches(r) ==
  LET mine == req[r].id
      later == {i \in rows : i # mine /\ nameOf[i] = nameOf[mine]}
  IN  /\ late' = (late \ {mine}) \cup later
      /\ dropped' = IF At(r, "drop") THEN dropped \cup {mine} ELSE dropped \ {mine}

\* Create needs the Secret absent, Update present; neither looks at a version.
Write(r) ==
  /\ At(r, "create") \/ At(r, "update")
  /\ \/ /\ At(r, "create") <=> secrets[SecretOf(r)] = 0
        /\ secrets' = [secrets EXCEPT ![SecretOf(r)] = req[r].id]
        /\ Touches(r)
        /\ Goes(r, "add") \/ Goes(r, "rollback")
     \/ Goes(r, "rollback") /\ UNCHANGED <<secrets, late, dropped>>
  /\ UNCHANGED <<wired, table, workers, created, dbFailed, restarts>>

\* MUTANT of Undone: the row of a failed registration stays.
UndoneNot(i) == UNCHANGED <<rows, dbFailed>>

\* The row is deleted again.
Undone(i) == rows' = rows \ {i} /\ dbFailed' = dbFailed

\* One attempt, with the request's own context; its error is ignored.
Rollback(r) ==
  /\ At(r, "rollback")
  /\ LET i == req[r].id
     IN  /\ Undone(i) \/ (rows' = rows /\ dbFailed' = dbFailed \cup {i})
         /\ Ends(i, "failed")
  /\ Answered(r)
  /\ UNCHANGED <<wired, nameOf, secrets, workers, late, dropped, restarts>>

\* A delete has gone past this cluster's worker, or is through with it.
Raced(i) == i \notin rows \/ \E q \in Requests : req[q].id = i /\ req[q].pc \in {"drop", "erase"}

\* AddCluster; a kubeconfig nobody can use is answered with 201 and a warning.
Add(r) ==
  /\ At(r, "add")
  /\ LET i == req[r].id
     IN  /\ \/ workers' = [workers EXCEPT ![i] = "own"]
            \/ UNCHANGED workers
         /\ Ends(i, IF Raced(i) THEN "raced" ELSE "ok")
  /\ Answered(r)
  /\ UNCHANGED <<wired, table, secrets, dbFailed, late, dropped, restarts>>

-----------------------------------------------------------------------------
(* DELETE /api/clusters/{id}                                                *)

\* GetCluster; without a row (or an answer) it is 404 and nothing has changed.
Get(r, i) ==
  /\ At(r, "idle") /\ i \in rows
  /\ req' = [req EXCEPT ![r] = [pc |-> "remove", id |-> i]]
  /\ UNCHANGED <<wired, table, secrets, workers, history, restarts>>

\* MUTANT of Stopped: the worker is left running.
StoppedNot(i) == workers' = workers

\* RemoveCluster.
Stopped(i) == workers' = [workers EXCEPT ![i] = "none"]

\* With no secret store the handler panics at the next call.
Stop(r) ==
  /\ At(r, "remove")
  /\ Stopped(req[r].id)
  /\ IF wired THEN Goes(r, "drop") ELSE Answered(r)
  /\ UNCHANGED <<wired, table, secrets, history, restarts>>

\* MUTANT of OnDropError: the error is answered instead of ignored.
OnDropErrorAnswered(r) == Answered(r)

\* "Log but continue - delete cluster record regardless".
OnDropError(r) == Goes(r, "erase")

\* DeleteKubeconfig.
Drop(r) ==
  /\ At(r, "drop")
  /\ \/ /\ secrets' = [secrets EXCEPT ![SecretOf(r)] = 0]
        /\ Touches(r)
        /\ Goes(r, "erase")
     \/ OnDropError(r) /\ UNCHANGED <<secrets, late, dropped>>
  /\ UNCHANGED <<wired, table, workers, created, dbFailed, restarts>>

Erase(r) ==
  /\ At(r, "erase")
  /\ rows' = rows \ {req[r].id}
  /\ Answered(r)
  /\ UNCHANGED <<wired, nameOf, secrets, workers, history, restarts>>

\* Answered 500: listed, no longer monitored, its Secret gone.
EraseFails(r) ==
  /\ At(r, "erase")
  /\ Answered(r)
  /\ UNCHANGED <<wired, table, secrets, workers, history, restarts>>

-----------------------------------------------------------------------------

\* The server stops, in the middle of its requests, and starts again.  It adds
\* the rows without a kubeconfig, which means the in-cluster configuration;
\* outside Kubernetes, or when the rows cannot be listed, it goes on without.
Restart ==
  /\ restarts < MaxRestarts
  /\ restarts' = restarts + 1
  /\ req' = [r \in Requests |-> Idle]
  /\ \E loaded \in {{}, rows} :
       workers' = [i \in Id |-> IF i \in loaded THEN "incluster" ELSE "none"]
  /\ UNCHANGED <<wired, table, secrets, history>>

Request(r) ==
  \/ Save(r) \/ Write(r) \/ Rollback(r) \/ Add(r)
  \/ Stop(r) \/ Drop(r) \/ Erase(r) \/ EraseFails(r)

Next ==
  \/ \E r \in Requests :
       \/ \E n \in Names : Insert(r, n)
       \/ \E i \in Id : Get(r, i)
       \/ Request(r)
  \/ Restart

\* Every request is carried on.  And, for Deletable: whoever wants clusters
\* gone tries again after a failure, and the database does not fail for ever.
\* Of the Kubernetes API nothing is assumed.
Fairness ==
  /\ \A r \in Requests : WF_vars(Request(r))
  /\ \A i \in Id :
       /\ SF_vars(\E r \in Requests : Get(r, i))
       /\ SF_vars(\E r \in Requests : req[r].id = i /\ Erase(r))

Spec == Init /\ [][Next]_vars /\ Fairness

-----------------------------------------------------------------------------

\* Every variable has its type; a slot that is not in use names no cluster.
TypeOK ==
  /\ wired \in BOOLEAN
  /\ rows \subseteq {i \in Id : nameOf[i] # NoName}
  /\ nameOf \in [Id -> Names \cup {NoName}]
  /\ secrets \in [{SecretName(n) : n \in Names} -> 0..MaxId]
  /\ workers \in [Id -> {"none", "own", "incluster"}]
  /\ req \in [Requests ->
       {Idle} \cup [pc : Creating \cup Deleting, id : {i \in Id : nameOf[i] # NoName}]]
  /\ created \in [Id -> {"open", "ok", "raced", "failed"}]
  /\ dbFailed \cup late \cup dropped \subseteq Id
  /\ restarts \in 0..MaxRestarts

\* Nobody monitors a cluster that is not listed, whatever failed on the way,
\* unless its deletion overtook its registration (clusters.go:113-147).
NoStrayWorker ==
  \A i \in Id : workers[i] # "none" => i \in rows \/ created[i] = "raced"

\* A registration that is answered with an error leaves no row, as long as the
\* database answers and there is a secret store (clusters.go:100-111).
FailureIsUndone ==
  wired =>
    \A i \in rows : created[i] = "failed" => i \in dbFailed

\* Another name that clusters were listed under has the same Secret.
Shared(i) ==
  \E j \in Id : /\ nameOf[j] \notin {NoName, nameOf[i]}
                /\ SecretName(nameOf[j]) = SecretName(nameOf[i])

\* A listed cluster that was registered with success has its own kubeconfig in
\* its Secret, whatever calls fail, requests cross and servers restart, but for
\* three ways to lose it (clusters.go:98-106, 141-143, secrets.go:24-51): another
\* name shares the Secret, a request for a deleted cluster of its name came late,
\* or a delete of its own has dropped it and not got to the row.
SecretKept ==
  \A i \in rows :
    created[i] = "ok" =>
      \/ secrets[SecretName(nameOf[i])] = i
      \/ Shared(i)
      \/ i \in late
      \/ i \in dropped

\* In a server that has a secret store, a listed cluster can be deleted although
\* its Secret cannot (clusters.go:141-152).  In the server main.go starts, which has
\* none, the handler panics before it comes to the row, at every try.
Deletable ==
  \A i \in Id : wired /\ i \in rows ~> i \notin rows

-----------------------------------------------------------------------------

\* The requests left out, a cluster is new, has a row or has had one, and is
\* leaving while a delete is past its worker.
Life == INSTANCE ClusterLife WITH
  Ids <- Id,
  life <- [i \in Id |-> IF nameOf[i] = NoName THEN "new"
                        ELSE IF i \in rows THEN "listed" ELSE "gone"],
  name <- nameOf, answer <- created,
  monitored <- {i \in Id : workers[i] # "none"},
  leaving <- {i \in Id : \E r \in Requests :
                req[r].id = i /\ req[r].pc \in {"drop", "erase"}}

\* Whatever calls fail and requests cross, a cluster is listed once and under a
\* name of its own, is answered once, and comes off the list unmonitored and for
\* ever (clusters.go:71-153, main.go:76-92).
ImplementsClusterLife == Life!Spec

\* "Try to get kubeconfig from K8s secret" (main.go:83): a worker polls the
\* cluster it was registered for.
OwnCluster == \A i \in Id : workers[i] \in {"none", "own"}
==============================================================================

------------------------------ MODULE ClusterLife ------------------------------
(***************************************************************************)
(* The life of a cluster as its administrators may rely on it, with the    *)
(* requests, the Secrets and the failing calls left out: it is listed once *)
(* and under a name of its own, its registration is answered once, it is   *)
(* monitored while it is listed, and it comes off the list unmonitored and *)
(* for ever, be it deleted or never properly registered.  Only a cluster   *)
(* whose deletion overtook its registration may be monitored and not       *)
(* listed, until the server starts again.  ClusterAdmin implements this    *)
(* specification.                                                          *)
(***************************************************************************)
CONSTANTS
  Ids,            \* clusters, one for each upload
  Names

VARIABLES
  life,           \* "new", "listed", then "gone"
  name,           \* the name a cluster was listed under
  answer,         \* what the registration of a cluster was answered
  monitored,      \* the clusters that are polled
  leaving         \* the clusters whose monitoring was stopped for a deletion

vars == <<life, name, answer, monitored, leaving>>

Listed == {i \in Ids : life[i] = "listed"}

Init ==
  /\ life = [i \in Ids |-> "new"]
  /\ answer = [i \in Ids |-> "open"]
  /\ monitored = {} /\ leaving = {}

\* The answer may be lost at once.
List(i, n) ==
  /\ life[i] = "new" /\ \A j \in Listed : name[j] # n
  /\ life' = [life EXCEPT ![i] = "listed"]
  /\ name' = [name EXCEPT ![i] = n]
  /\ answer' = answer \/ answer' = [answer EXCEPT ![i] = "failed"]
  /\ UNCHANGED <<monitored, leaving>>

\* A kubeconfig nobody can use is accepted too.
Accept(i) ==
  /\ life[i] # "new" /\ answer[i] = "open"
  /\ answer' = [answer EXCEPT ![i] =
                  IF i \in Listed \ leaving THEN "ok" ELSE "raced"]
  /\ monitored' = monitored \/ monitored' = monitored \cup {i}
  /\ UNCHANGED <<life, name, leaving>>

\* What is refused is taken off the list, if that is possible.
Refuse(i) ==
  /\ life[i] # "new" /\ answer[i] = "open"
  /\ answer' = [answer EXCEPT ![i] = "failed"]
  /\ \/ life' = life
     \/ i \notin monitored /\ life' = [life EXCEPT ![i] = "gone"]
  /\ UNCHANGED <<name, monitored, leaving>>

\* A deletion begins; it may get no further.
Leave(i) ==
  /\ life[i] # "new"
  /\ monitored' = monitored \ {i}
  /\ leaving' = leaving \/ leaving' = leaving \cup {i}
  /\ UNCHANGED <<life, name, answer>>

Remove(i) ==
  /\ i \in leaving
  /\ i \notin monitored \/ answer[i] = "raced"
  /\ life' = [life EXCEPT ![i] = "gone"]
  /\ leaving' = leaving \/ leaving' = leaving \ {i}
  /\ UNCHANGED <<name, answer, monitored>>

\* A deletion is given up.
Stay(i) ==
  /\ leaving' = leaving \ {i}
  /\ UNCHANGED <<life, name, answer, monitored>>

\* The server starts again.
Restart ==
  /\ monitored' = {} \/ monitored' = Listed
  /\ leaving' = {}
  /\ UNCHANGED <<life, name, answer>>

Next ==
  \/ \E i \in Ids :
       \/ \E n \in Names : List(i, n)
       \/ Accept(i) \/ Refuse(i) \/ Leave(i) \/ Remove(i) \/ Stay(i)
  \/ Restart

Spec == Init /\ [][Next]_vars
==============================================================================

------------------------------- MODULE TestOrch -------------------------------
(***************************************************************************)
(* The test orchestrator (testorch/controller.go, scenarios.go) breaks     *)
(* things in a cluster on purpose, shows them for half a minute and mends  *)
(* them, while the healing agent's tools (Executor), the controllers of    *)
(* Kubernetes and other runs work on the same objects.  A scenario creates *)
(* a pod or a deployment of a fixed name, or cordons a node.               *)
(***************************************************************************)
EXTENDS Executor

CONSTANTS Runs, NoRun

ASSUME RunsAssumption == NoRun \notin Runs /\ Runs \cap Callers = {}

VARIABLES
  pc,             \* where a run's goroutine stands
  object,         \* the object of its scenario
  copy,           \* its copy of the node
  result,         \* the Status of its RunResult
  maker,          \* history: the run that made an object, or cordoned a node
  faulty,         \* history: the runs one of whose calls failed
  healed          \* history: the objects a tool has deleted

run == <<pc, object, copy, result>>
history == <<maker, faulty, healed>>
vars == <<cluster, calls, run, history>>

Fresh == CHOOSE x \in Rests : TRUE
Active(r) == pc[r] \in {"setup", "update", "sleep", "teardown", "uncordon"}

Init ==
  /\ objects = [o \in Objects |->
       IF o \in Nodes THEN [value |-> "schedulable", rest |-> Fresh]
       ELSE Absent]
  /\ fresh = {}
  /\ calls = [c \in Callers |-> NoCall]
  /\ pc = [r \in Runs |-> "none"]
  /\ object = [r \in Runs |-> CHOOSE o \in Objects : TRUE]
  /\ copy = [r \in Runs |-> Absent]
  /\ result = [r \in Runs |-> "none"]
  /\ maker = [o \in Objects |-> NoRun]
  /\ faulty = {} /\ healed = {}

At(r, from) == pc[r] = from
To(r, to) == pc' = [pc EXCEPT ![r] = to]

\* MUTANT of Finalize: the goroutine returns without it.
FinalizeNot(r, status) == To(r, "ended") /\ result' = result

\* finalize; the goroutine ends.
Finalize(r, status) ==
  To(r, "ended") /\ result' = [result EXCEPT ![r] = status]

Fault(r) == faulty' = faulty \cup {r}

-----------------------------------------------------------------------------
(* A run.                                                                   *)

\* RunScenario registers the result and starts the goroutine.
RunScenario(r, o) ==
  /\ At(r, "none")
  /\ To(r, "setup")
  /\ object' = [object EXCEPT ![r] = o]
  /\ result' = [result EXCEPT ![r] = "running"]
  /\ UNCHANGED <<cluster, calls, copy, history>>

\* MUTANT of Taken: an object that is there is as good as a new one.
TakenWelcome(r) == To(r, "sleep") /\ UNCHANGED result

\* Create answers AlreadyExists: setup has failed, and so has the run.
Taken(r) == Finalize(r, "failed")

\* The new object; its scenario says how many replicas, if it is a deployment.
Made(r) ==
  /\ \E v \in IF object[r] \in Deployments THEN Counts ELSE {Zero} :
       Put(object[r], [value |-> v, rest |-> Fresh])
  /\ maker' = [maker EXCEPT ![object[r]] = r]

\* Setup of a scenario that creates its object.
Create(r) ==
  /\ At(r, "setup") /\ object[r] \notin Nodes
  /\ \/ /\ objects[object[r]] # Absent
        /\ Taken(r)
        /\ UNCHANGED <<cluster, maker, faulty>>
     \/ /\ objects[object[r]] = Absent
        /\ Made(r)
        /\ \/ To(r, "sleep") /\ UNCHANGED <<result, faulty>>
           \/ Finalize(r, "failed") /\ Fault(r)
     \/ /\ Finalize(r, "failed") /\ Fault(r)
        /\ UNCHANGED <<cluster, maker>>
  /\ UNCHANGED <<calls, object, copy, healed>>

\* Setup of node-cordon lists a node; teardown gets it.
Look(r) ==
  /\ At(r, "setup") \/ At(r, "teardown")
  /\ object[r] \in Nodes
  /\ \/ /\ Get(r, object[r])
        /\ copy' = [copy EXCEPT ![r] = objects[object[r]]]
        /\ To(r, IF At(r, "setup") THEN "update" ELSE "uncordon")
        /\ UNCHANGED <<result, faulty>>
     \/ /\ Finalize(r, IF At(r, "setup") THEN "failed" ELSE "done") /\ Fault(r)
        /\ UNCHANGED <<fresh, copy>>
  /\ UNCHANGED <<objects, calls, object, maker, healed>>

\* The node is sent back with its flag set; teardown's errors are only logged.
Update(r) ==
  /\ At(r, "update") \/ At(r, "uncordon")
  /\ LET o == object[r]
         cordon == At(r, "update")
     IN  /\ \/ /\ Current(r, o)
               /\ Put(o, Granted(copy[r], IF cordon THEN "cordoned" ELSE "schedulable"))
               /\ maker' = [maker EXCEPT ![o] = r]
               /\ \/ /\ IF cordon THEN To(r, "sleep") /\ UNCHANGED result
                                  ELSE Finalize(r, "done")
                     /\ UNCHANGED faulty
                  \/ Finalize(r, IF cordon THEN "failed" ELSE "done") /\ Fault(r)
            \/ /\ Finalize(r, IF cordon THEN "failed" ELSE "done") /\ Fault(r)
               /\ Forget(r)
               /\ UNCHANGED <<objects, maker>>
         /\ copy' = [copy EXCEPT ![r] = Absent]
  /\ UNCHANGED <<calls, object, healed>>

\* MUTANT of Awake: the run is done when it has been seen.
AwakeDone(r) == Finalize(r, "done")

\* Half a minute later: teardown.
Awake(r) == To(r, "teardown") /\ UNCHANGED result

Sleep(r) ==
  /\ At(r, "sleep")
  /\ Awake(r)
  /\ UNCHANGED <<cluster, calls, object, copy, history>>

\* Teardown of the other scenarios: by name, whoever made the object.
Delete(r) ==
  /\ At(r, "teardown") /\ object[r] \notin Nodes
  /\ \/ objects[object[r]] # Absent /\ Put(object[r], Absent) /\ UNCHANGED faulty
     \/ Fault(r) /\ UNCHANGED cluster
  /\ Finalize(r, "done")
  /\ UNCHANGED <<calls, object, copy, maker, healed>>

RunStep(r) == Create(r) \/ Look(r) \/ Update(r) \/ Sleep(r) \/ Delete(r)

\* The orchestrator's process ends; its runs and results are forgotten.
Crash ==
  /\ \E r \in Runs : Active(r)
  /\ pc' = [r \in Runs |-> IF Active(r) THEN "lost" ELSE pc[r]]
  /\ faulty' = faulty \cup {r \in Runs : Active(r)}
  /\ result' = [r \in Runs |-> "none"]
  /\ copy' = [r \in Runs |-> Absent]
  /\ fresh' = {p \in fresh : p[1] \notin Runs}
  /\ UNCHANGED <<objects, calls, object, maker, healed>>

-----------------------------------------------------------------------------
(* The others.                                                              *)

\* Kubelet and controllers write an object's status; of pods nobody has a copy.
Kubernetes(o) ==
  /\ o \notin Pods /\ objects[o] # Absent
  /\ \E x \in Rests \ {objects[o].rest} : Put(o, [objects[o] EXCEPT !.rest = x])
  /\ UNCHANGED <<calls, run, history>>

\* A step of a tool; what it changes is no longer a run's making.
Healer(c) ==
  /\ \/ \E o \in Objects, input \in Inputs, wish \in Wishes : Call(c, o, input, wish)
     \/ ToolStep(c)
  /\ LET o == calls[c].target
         changed == calls[c].pc = "write" /\ calls'[c].pc = "reply"
     IN  /\ maker' = IF changed /\ o \in Nodes THEN [maker EXCEPT ![o] = NoRun] ELSE maker
         /\ healed' = IF changed /\ o \in Pods THEN healed \cup {o} ELSE healed
  /\ UNCHANGED <<run, faulty>>

Next ==
  \/ \E r \in Runs : RunStep(r) \/ \E o \in Objects : RunScenario(r, o)
  \/ Crash
  \/ \E o \in Objects : Kubernetes(o)
  \/ \E c \in Callers : Healer(c)

\* A goroutine goes on: its calls end with the context's five minutes at the
\* latest, and it wakes up.
Fairness == \A r \in Runs : WF_vars(RunStep(r))

Spec == Init /\ [][Next]_vars /\ Fairness

-----------------------------------------------------------------------------

\* Every variable has its type: an object stays what its kind may be.
TypeOK ==
  /\ DOMAIN objects = Objects
  /\ \A o \in Objects : objects[o] \in Content(o) \cup {Absent}
  /\ fresh \subseteq (Callers \cup Runs) \X Objects
  /\ calls \in [Callers -> [pc : {"none", "read", "write", "reply", "ok", "error"},
                            target : Objects, input : Inputs, wish : Wishes,
                            copy : {Absent} \cup UNION {Content(o) : o \in Objects}]]
  /\ pc \in [Runs -> {"none", "setup", "update", "sleep", "teardown", "uncordon",
                      "ended", "lost"}]
  /\ object \in [Runs -> Objects]
  /\ copy \in [Runs -> {Absent} \cup UNION {Content(o) : o \in Objects}]
  /\ result \in [Runs -> {"none", "running", "done", "failed"}]
  /\ maker \in [Objects -> Runs \cup {NoRun}]
  /\ faulty \subseteq Runs /\ healed \subseteq Objects

\* While a run shows the pod or deployment it has made, that is there and is its
\* own: no other run creates, takes over or removes it, unless a tool has deleted
\* one of that name (controller.go:80-93, scenarios.go:51-73).  A cordoned node
\* belongs to nobody: it stays cordoned until another run or a tool writes it, be
\* it the teardown of a run that is over while this one goes on, and whatever
\* Kubernetes writes into it (scenarios.go:172-194).
OwnObject ==
  \A r \in Runs :
    LET o == object[r]
    IN  /\ pc[r] \in {"sleep", "teardown"} /\ o \notin Nodes \cup healed =>
             objects[o] # Absent /\ maker[o] = r
        /\ pc[r] \in {"sleep", "teardown", "uncordon"} /\ o \in Nodes /\ maker[o] = r =>
             objects[o].value = "cordoned"

\* What a run has broken is mended when it is over, unless one of its calls
\* failed or the orchestrator died (controller.go:88-93, scenarios.go:183-194).
NothingLeft ==
  \A r \in Runs, o \in Objects :
    /\ maker[o] = r
    /\ IF o \in Nodes THEN objects[o].value = "cordoned" ELSE objects[o] # Absent
    => Active(r) \/ r \in faulty

\* A run does not stay "running" (controller.go:76-94).
RunsEnd == \A r \in Runs : result[r] = "running" ~> result[r] # "running"
==============================================================================

------------------------------- MODULE MCWatcher ------------------------------
(***************************************************************************)
(* Watcher with the objects a small cluster may hold: for TLC.             *)
(***************************************************************************)
EXTENDS Watcher

Waits(reason) == [waits |-> reason, ended |-> ""]
Ended(reason) == [waits |-> "", ended |-> reason]
Runs == Waits("")

Pod(phase, containers, reason, t, deleted) ==
  [phase |-> phase, containers |-> containers, init |-> <<>>,
   reason |-> reason, created |-> t, deleted |-> deleted]

\* A pod created at t, as its kubelet describes it.  Images are pulled and init
\* containers run while the phase is Pending; an evicted pod has failed.  The pod
\* without a phase is one whose status nobody has filled in but for containers.
Pods(t) ==
  {Pod("Pending", <<Waits(r)>>, "", t, Never) :
     r \in {"", "ContainerCreating", "ImagePullBackOff"}}
  \cup {Pod("Running", both, "", t, Never) :
          both \in {Runs, Waits("PodInitializing"), Waits("CrashLoopBackOff")}
                  \X {Runs, Waits("CreateContainerError"), Ended("Error")}}
  \cup {Pod("Succeeded", <<Ended("Completed")>>, "", t, Never),
        Pod("Failed", <<Ended("OOMKilled")>>, "", t, Never),
        Pod("Failed", <<Ended("Error"), Ended("OOMKilled")>>, "", t, Never),
        Pod("Failed", <<Ended("Error")>>, "", t, Never),
        Pod("Failed", <<>>, "Evicted", t, Never)}
  \cup {Pod("Unknown", <<Runs>>, "", t, d) : d \in {Never, t}}
  \cup {[Pod("", <<Waits("PodInitializing")>>, "", t, Never) EXCEPT
            !.init = <<Ended("Completed"), Waits(r)>>] :
          r \in {"", "PodInitializing", "CrashLoopBackOff"}}

Nodes ==
  {[c \in Pressures \cup {"Ready"} |->
      IF c = "Ready" THEN ready ELSE IF c \in bad THEN "True" ELSE "False"] :
     ready \in {"True", "False", "Unknown"},
     bad \in SUBSET {"DiskPressure", "NetworkUnavailable"}}

MCStates(kind, t) ==
  CASE kind = "Pod"         -> Pods(t)
    [] kind = "Node"        -> Nodes
    [] kind = "Deployment"  -> [unavailable : 0..1]
    [] kind \in {"StatefulSet", "DaemonSet"} -> [ready : 0..1, wanted : {1}]
    [] kind = "PVC"         -> [phase : {"Pending", "Bound", "Lost"}, created : {t}]
    [] kind = "Certificate" -> [form : {"PEM", "DER", "bundle", "garbage"},
                                notAfter : {t + 1, t + WarnBefore + 1}]

Healthy ==
  [k \in Kinds |->
     CASE k = "Pod"         -> Pod("Running", <<Runs, Runs>>, "", 0, Never)
       [] k = "Node"        -> [c \in Pressures \cup {"Ready"} |->
                                  IF c = "Ready" THEN "True" ELSE "False"]
       [] k = "Deployment"  -> [unavailable |-> 0]
       [] k \in {"StatefulSet", "DaemonSet"} -> [ready |-> 1, wanted |-> 1]
       [] k = "PVC"         -> [phase |-> "Bound", created |-> 0]
       [] k = "Certificate" -> [form |-> "PEM", notAfter |-> WarnBefore + 1]]
==============================================================================

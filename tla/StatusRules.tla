----------------------------- MODULE StatusRules -----------------------------
(***************************************************************************)
(* internal/cluster/watcher.go and mapper.go: when the watcher calls an    *)
(* object of a cluster a problem, under which status, and what the         *)
(* dashboard's knowledge base has to say about it.  Everything here is a   *)
(* function of the object and the time; what happens while the objects     *)
(* are being listed is in Watcher.                                         *)
(***************************************************************************)
EXTENDS Integers, Sequences

CONSTANTS
  PendingThreshold,     \* five minutes
  WarnBefore,           \* thirty days
  Day                   \* twenty-four hours

ASSUME TimesAssumption ==
  PendingThreshold \in Nat /\ WarnBefore \in Nat /\ Day \in Nat \ {0}

-----------------------------------------------------------------------------
(* Pods: a container waits for a reason, has ended for one, or runs.        *)

Never == -1

\* pendingThreshold has passed since t.
TooOld(t, now) == t + PendingThreshold < now

\* The reason of the first container that waits for one outside silent.
FirstWaiting(containers, silent) ==
  LET telling == {i \in DOMAIN containers : containers[i].waits \notin silent}
  IN  IF telling = {} THEN ""
      ELSE containers[CHOOSE i \in telling : \A j \in telling : i <= j].waits

\* A Running pod speaks through its containers; one that starts up is silent.
RunningStatus(pod) == FirstWaiting(pod.containers, {"", "PodInitializing"})

FailedStatus(pod) ==
  IF \E i \in DOMAIN pod.containers : pod.containers[i].ended = "OOMKilled"
  THEN "OOMKilled" ELSE "Error"

\* MUTANT of PendingStatus: a pod is reported while it is young.
PendingStatusWhenYoung(pod, now) == IF TooOld(pod.created, now) THEN "" ELSE "Pending"

PendingStatus(pod, now) == IF TooOld(pod.created, now) THEN "Pending" ELSE ""

\* The first init container that waits for a reason.
InitStatus(pod) ==
  LET reason == FirstWaiting(pod.init, {""})
  IN  IF reason = "" THEN "" ELSE "Init:" \o reason

\* Only reached with no phase the code knows, which is that of a lost node.
OtherStatus(pod, now) ==
  IF pod.deleted # Never THEN IF TooOld(pod.deleted, now) THEN "Terminating" ELSE ""
  ELSE IF pod.reason = "Evicted" THEN "Evicted"
  ELSE IF pod.phase = "Unknown" THEN "Unknown"
  ELSE InitStatus(pod)

\* podStatus: "" is health.
PodStatus(pod, now) ==
  CASE pod.phase = "Running"   -> RunningStatus(pod)
    [] pod.phase = "Succeeded" -> ""
    [] pod.phase = "Failed"    -> FailedStatus(pod)
    [] pod.phase = "Pending"   -> PendingStatus(pod, now)
    [] OTHER                   -> OtherStatus(pod, now)

-----------------------------------------------------------------------------
(* The other kinds.                                                         *)

Pressures == {"DiskPressure", "MemoryPressure", "PIDPressure",
              "NetworkUnavailable"}

\* The status s, if it applies.
If(applies, s) == IF applies THEN {s} ELSE {}

\* A node may have several problems; a condition it does not report is none.
NodeStatuses(node) ==
  LET has(c) == c \in DOMAIN node
  IN  If(has("Ready") /\ node["Ready"] # "True", "NotReady")
        \cup {c \in Pressures : has(c) /\ node[c] = "True"}

\* A claim that waits too long, or that lost its volume.
ClaimStatus(pvc, now) ==
  CASE pvc.phase = "Pending" -> IF TooOld(pvc.created, now) THEN "Pending" ELSE ""
    [] pvc.phase = "Lost"    -> "Lost"
    [] OTHER                 -> ""

\* parseCerts: a PEM block goes to tls.X509KeyPair, which wants the private key
\* in the same block, and then to the DER parser, which knows no PEM.  So the
\* PEM of a usual TLS Secret yields nothing; DER and key-first bundles do.
Readable(cert) == cert.form \in {"DER", "bundle"}

\* collectCertificates: only the first certificate of the Secret counts.
CertificateStatus(cert, now) ==
  IF ~Readable(cert) THEN ""
  ELSE IF cert.notAfter < now THEN "Expired"
  ELSE IF cert.notAfter < now + WarnBefore THEN "Expiring"
  ELSE ""

\* int(hours / 24): Go truncates towards zero.
DaysLeft(cert, now) ==
  LET d == cert.notAfter - now
  IN  IF d >= 0 THEN d \div Day ELSE -((-d) \div Day)

\* MUTANT of SaysExpired: the last day counts as over.
SaysExpiredOnLastDay(cert, now) == DaysLeft(cert, now) <= 0

\* Which of the two sentences the description is.
SaysExpired(cert, now) == DaysLeft(cert, now) < 0

\* MUTANT of Reported: a healthy object is not skipped.
ReportedAlways(status) == {status}

\* "" is skipped.
Reported(status) == {status} \ {""}

\* What the watcher finds wrong with an object.
Statuses(kind, o, now) ==
  CASE kind = "Pod"         -> Reported(PodStatus(o, now))
    [] kind = "Node"        -> NodeStatuses(o)
    [] kind = "Deployment"  -> If(o.unavailable > 0, "Unavailable")
    [] kind = "StatefulSet" -> If(o.ready < o.wanted, "NotReady")
    [] kind = "DaemonSet"   -> If(o.ready < o.wanted, "Mismatch")
    [] kind = "PVC"         -> Reported(ClaimStatus(o, now))
    [] kind = "Certificate" -> Reported(CertificateStatus(o, now))

-----------------------------------------------------------------------------
(* The knowledge base: which statuses it explains, and how grave they are.  *)

Storage == {"LonghornManager", "LinstorController", "CSIDriver"}

\* MUTANT of CriticalPods: the entry for the pods of lost nodes is left out.
CriticalPodsWithoutUnknown ==
  {"CrashLoopBackOff", "OOMKilled", "ImagePullBackOff", "ErrImagePull", "Error",
   "CreateContainerError", "RunContainerError", "Init:CrashLoopBackOff", "Init:Error"}

CriticalPods ==
  {"CrashLoopBackOff", "OOMKilled", "ImagePullBackOff", "ErrImagePull", "Error",
   "Unknown", "CreateContainerError", "RunContainerError", "Init:CrashLoopBackOff",
   "Init:Error"}

Critical ==
  ({"Pod"} \X CriticalPods)
  \cup ({"Node"} \X {"NotReady", "NetworkUnavailable"})
  \cup {<<"Deployment", "Unavailable">>, <<"StatefulSet", "NotReady">>,
        <<"Job", "Failed">>, <<"PVC", "Pending">>, <<"PVC", "Lost">>,
        <<"PV", "Failed">>, <<"Certificate", "Expired">>,
        <<"HelmRelease", "Failed">>, <<"LonghornVolume", "Faulted">>,
        <<"CephCluster", "HEALTH_ERR">>, <<"VolumeAttachment", "Stuck">>}
  \cup (Storage \X {"NotRunning"})

Warning ==
  ({"Pod"} \X {"Evicted", "Pending", "Terminating", "ContainerCreating"})
  \cup ({"Node"} \X {"DiskPressure", "MemoryPressure", "PIDPressure"})
  \cup {<<"Deployment", "Progressing">>, <<"DaemonSet", "Mismatch">>,
        <<"HPA", "ScaleFailed">>, <<"Certificate", "Expiring">>,
        <<"HelmRelease", "PendingUpgrade">>, <<"LonghornVolume", "Degraded">>,
        <<"CephCluster", "HEALTH_WARN">>, <<"CephOSD", "Down">>,
        <<"LinstorSatellite", "NotRunning">>}

Info == {<<"CronJob", "Suspended">>}

\* statusMap has an entry.
Explained(kind, status) == <<kind, status>> \in Critical \cup Warning \cup Info

\* Map: an unknown status is passed on with a general advice as a warning.
Severity(kind, status) ==
  CASE <<kind, status>> \in Critical -> "critical"
    [] <<kind, status>> \in Info     -> "info"
    [] OTHER                         -> "warning"
==============================================================================

------------------------------- MODULE Executor -------------------------------
(***************************************************************************)
(* The write tools of internal/healing/tools.go against the Kubernetes     *)
(* API.  delete_pod is one call; scale_deployment and cordon_node read an  *)
(* object, change the copy and send it back, and the API server refuses a  *)
(* copy that is no longer the current one.  Any call may fail, and the     *)
(* answer to one that did not may be lost.  Read tools change nothing and  *)
(* are left out.  Others who change the same objects are added by the      *)
(* module that extends this one.                                           *)
(***************************************************************************)
CONSTANTS
  Callers,        \* sessions, each with one call at a time
  Pods,           \* names of pods ...
  Deployments,    \* ... of deployments ...
  Nodes,          \* ... and of nodes
  Counts,         \* replica counts ...
  Zero,           \* ... and the least of them
  Rests,          \* what others write into an object
  Absent          \* an object that is not there

ASSUME KindsAssumption ==
  /\ Pods \cap Deployments = {} /\ Nodes \cap (Pods \cup Deployments) = {}
  /\ Pods \cup Deployments \cup Nodes # {} /\ Rests # {}
  /\ Zero \in Counts /\ Counts \cap {"gone", "odd", "nothing"} = {}
  /\ Absent \notin [value : Counts \cup {"schedulable", "cordoned"}, rest : Rests]

VARIABLES
  objects,        \* the cluster
  fresh,          \* <<client, object>>: the client's copy is the current one
  calls           \* the call of each session

cluster == <<objects, fresh>>

Objects == Pods \cup Deployments \cup Nodes
Flags == {"schedulable", "cordoned"}
Content(o) == [value : IF o \in Nodes THEN Flags ELSE Counts, rest : Rests]

\* What a tool may ask for: the object deleted, or its value set.
Wishes == {"gone"} \cup Counts \cup Flags

\* A deleted object is absent; the rest of an updated one is kept.
Granted(content, wish) ==
  IF wish = "gone" THEN Absent ELSE [content EXCEPT !.value = wish]

\* What a call's input may say: one of these, a number that is no count (a
\* fraction, or one that int32 does not hold), or nothing that is a number.
Inputs == Wishes \cup {"odd", "nothing"}

\* MUTANT of Replicas: what the input says is passed on, whatever it is.
ReplicasUnparsed(input) == {input}

\* The replicas an input is taken for: none when it has no number, and what
\* int32() makes of a number.
Replicas(input) ==
  CASE input = "nothing" -> {Zero}
    [] input = "odd"     -> Counts
    [] OTHER             -> {input} \cap Counts

\* delete_pod, scale_deployment, cordon_node and uncordon_node, and what they do
\* with an input.
Tool(o, input, wish) ==
  \/ o \in Pods /\ wish = "gone" /\ input = wish
  \/ o \in Deployments /\ wish \in Replicas(input)
  \/ o \in Nodes /\ wish \in Flags /\ input = wish

NoCall == [pc |-> "none", target |-> CHOOSE o \in Objects : TRUE,
           input |-> "gone", wish |-> "gone", copy |-> Absent]

-----------------------------------------------------------------------------
(* The API server.  Resource versions are only ever compared for equality,  *)
(* so it is enough to know which copies are current.                        *)

Get(client, o) == fresh' = {p \in fresh : p[1] # client} \cup {<<client, o>>}

Forget(client) == fresh' = {p \in fresh : p[1] # client}

\* Every change of an object gives it a new version.
Put(o, content) ==
  /\ objects' = [objects EXCEPT ![o] = content]
  /\ fresh' = {p \in fresh : p[2] # o}

\* An update is refused with a conflict unless its copy is current.
Current(client, o) == <<client, o>> \in fresh

-----------------------------------------------------------------------------
(* The tools.                                                               *)

Goes(c, pc) == calls' = [calls EXCEPT ![c].pc = pc]
Leaves(c, pc) == calls' = [calls EXCEPT ![c].pc = pc, ![c].copy = Absent]

\* A session's agent calls a tool; a pod is deleted without looking at it.
Call(c, o, input, wish) ==
  /\ calls[c].pc \in {"none", "ok", "error"}
  /\ Tool(o, input, wish)
  /\ calls' = [calls EXCEPT ![c] =
       [pc |-> IF wish = "gone" THEN "write" ELSE "read",
        target |-> o, input |-> input, wish |-> wish, copy |-> Absent]]
  /\ UNCHANGED cluster

\* Get or GetScale.
Read(c) ==
  /\ calls[c].pc = "read"
  /\ LET o == calls[c].target
     IN  \/ /\ objects[o] # Absent
            /\ calls' = [calls EXCEPT ![c].pc = "write", ![c].copy = objects[o]]
            /\ Get(c, o)
         \/ Goes(c, "error") /\ UNCHANGED fresh
  /\ UNCHANGED objects

\* MUTANT of MayTake: the version is left out of what is sent back.
MayTakeAny(c, o, wish) == TRUE

\* A pod is deleted by its name; scale and node are sent back as they were read,
\* version included, so the server takes them only while they are current.
MayTake(c, o, wish) == wish = "gone" \/ Current(c, o)

\* Delete, Update or UpdateScale is carried out, or not.
Write(c) ==
  /\ calls[c].pc = "write"
  /\ LET o == calls[c].target
         w == calls[c].wish
     IN  \/ /\ objects[o] # Absent
            /\ MayTake(c, o, w)
            /\ Put(o, Granted(calls[c].copy, w))
            /\ Leaves(c, "reply")
         \/ Leaves(c, "error") /\ Forget(c) /\ UNCHANGED objects

\* The answer to a change that was carried out arrives or is lost.
Reply(c) ==
  /\ calls[c].pc = "reply"
  /\ Goes(c, "ok") \/ Goes(c, "error")
  /\ UNCHANGED cluster

ToolStep(c) == Read(c) \/ Write(c) \/ Reply(c)

-----------------------------------------------------------------------------

\* Where a call stands for the caller.
Stands(pc) == CASE pc \in {"read", "write"} -> "asked"
                [] pc = "reply"             -> "applied"
                [] OTHER                    -> pc

Contract == INSTANCE ToolContract WITH
  world <- objects,
  state <- [c \in Callers |-> Stands(calls[c].pc)],
  target <- [c \in Callers |-> calls[c].target],
  input <- [c \in Callers |-> calls[c].input],
  wish <- [c \in Callers |-> calls[c].wish]

\* A tool's call takes effect at one moment and at most once, on the object it
\* names and on nothing of it but what Tool says, whoever else changes the object
\* between its read and its write; success means that it did.  A deployment gets
\* the count asked for; it gets zero, and success is answered, when the input has no
\* number, and whatever int32() makes of one that is no count (tools.go:208-251).
ImplementsToolContract == Contract!Init /\ [][Contract!Next]_Contract!vars
==============================================================================

---------------------------- MODULE TestOrchProofs ----------------------------
(***************************************************************************)
(* Theorems about TestOrch and the Executor in it, for any number of       *)
(* sessions, runs and objects.  A copy that is current equals the object   *)
(* it was read from (Coherent), so an update that the API server takes     *)
(* changes nothing but what it was to change.  A run owns its object from  *)
(* the moment it has made it (Making).                                     *)
(***************************************************************************)
EXTENDS TestOrch, TLAPS

Contents == {Absent} \cup UNION {Content(o) : o \in Objects}

\* A call in hand is one of the tools' calls; a copy of a session or of a run
\* that is about to be sent back is one of the object it names.
Calls ==
  \A c \in Callers :
    /\ calls[c].pc \in {"read", "write"} => Tool(calls[c].target, calls[c].input, calls[c].wish)
    /\ calls[c].pc = "write" /\ calls[c].wish # "gone" =>
         calls[c].copy \in Content(calls[c].target)

\* What is current is what is there.
Coherent ==
  \A c \in Callers :
    calls[c].pc = "write" /\ calls[c].wish # "gone"
      /\ <<c, calls[c].target>> \in fresh =>
        calls[c].copy = objects[calls[c].target]

\* Nodes are never deleted; a run that is about to update one holds a copy of it.
NodesStay ==
  /\ \A o \in Nodes : objects[o] # Absent
  /\ \A r \in Runs : pc[r] \in {"update", "uncordon"} =>
       object[r] \in Nodes /\ copy[r] \in Content(object[r])

Inv == TypeOK /\ Calls /\ Coherent /\ NodesStay

\* What a run has made is the object of its scenario, and it has done so.
Making ==
  \A r \in Runs, o \in Objects :
    maker[o] = r => o = object[r] /\ pc[r] \notin {"none", "setup", "update"}

-----------------------------------------------------------------------------

\* An object's content is not the absence of one.
LEMMA ThereIs ==
  ASSUME NEW o \in Objects
  PROVE  Absent \notin Content(o)
BY KindsAssumption DEF Content, Flags

\* A granted value of the right kind keeps the type of the content.
LEMMA GrantedContent ==
  ASSUME NEW o \in Objects, NEW content \in Content(o), NEW wish,
         wish \in (IF o \in Nodes THEN Flags ELSE Counts)
  PROVE  Granted(content, wish) \in Content(o)
BY KindsAssumption DEF Granted, Content, Flags

\* What a tool's call makes of an object is of the object's kind.
LEMMA GrantedTool ==
  ASSUME NEW o \in Objects, NEW input, NEW wish, Tool(o, input, wish), NEW content,
         wish # "gone" => content \in Content(o)
  PROVE  /\ Granted(content, wish) \in Content(o) \cup {Absent}
         /\ wish = "gone" <=> o \in Pods
         /\ o \notin Pods => Granted(content, wish) \in Content(o)
<1>1. CASE o \in Pods /\ wish = "gone"
  BY <1>1, KindsAssumption DEF Granted
<1>2. CASE o \in Deployments /\ wish \in Counts
  BY <1>2, KindsAssumption, GrantedContent
<1>3. CASE o \in Nodes /\ wish \in Flags
  BY <1>3, KindsAssumption, GrantedContent DEF Flags
<1>4. wish \in Replicas(input) => wish \in Counts
  BY KindsAssumption DEF Replicas
<1> QED BY <1>1, <1>2, <1>3, <1>4 DEF Tool

\* The types hold at the start.
LEMMA InitTyped ==
  ASSUME Init
  PROVE  Inv /\ OwnObject /\ NothingLeft /\ Making
<1>1. Objects # {} /\ Fresh \in Rests
  BY KindsAssumption DEF Objects, Fresh
<1>2. NoCall \in [pc : {"none", "read", "write", "reply", "ok", "error"},
                  target : Objects, input : Inputs, wish : Wishes, copy : Contents]
  BY <1>1 DEF NoCall, Inputs, Wishes, Contents
<1>3. \A o \in Objects : objects[o] \in Content(o) \cup {Absent}
  BY <1>1 DEF Init, Content, Flags
<1>4. \A o \in Nodes : objects[o] # Absent
  <2> TAKE o \in Nodes
  <2>1. o \in Objects /\ objects[o] \in Content(o)
    BY <1>1 DEF Init, Content, Flags, Objects
  <2> QED BY <2>1, ThereIs
<1>5. TypeOK
  BY <1>1, <1>2, <1>3 DEF Init, TypeOK, Contents
<1>6. Calls /\ Coherent
  BY DEF Init, Calls, Coherent, NoCall
<1>7. OwnObject /\ NothingLeft /\ Making
  BY RunsAssumption DEF Init, OwnObject, NothingLeft, Making
<1> QED BY <1>4, <1>5, <1>6, <1>7 DEF Inv, NodesStay, Init

-----------------------------------------------------------------------------
(* What the API server does keeps the types and the agreement of copies.    *)

\* A copy becomes old when its object changes.
LEMMA PutKeeps ==
  ASSUME TypeOK, Coherent, NEW o \in Objects, NEW content,
         content \in Content(o) \cup {Absent}, Put(o, content)
  PROVE  /\ DOMAIN objects' = Objects
         /\ \A p \in Objects : objects'[p] = IF p = o THEN content ELSE objects[p]
         /\ \A p \in Objects : objects'[p] \in Content(p) \cup {Absent}
         /\ \A p \in fresh' : p \in fresh /\ p[2] # o
         /\ fresh' \subseteq (Callers \cup Runs) \X Objects
         /\ calls' = calls => Coherent'
<1>1. /\ DOMAIN objects' = Objects
      /\ \A p \in Objects : objects'[p] = IF p = o THEN content ELSE objects[p]
  BY DEF TypeOK, Put
<1>2. fresh' = {p \in fresh : p[2] # o}
  BY DEF Put
<1>3. ASSUME calls' = calls, NEW c \in Callers, <<c, calls[c].target>> \in fresh',
             calls[c].pc = "write", calls[c].wish # "gone"
      PROVE  calls[c].copy = objects'[calls[c].target]
  <2>1. calls[c].target # o /\ <<c, calls[c].target>> \in fresh
    BY <1>2, <1>3
  <2>2. calls[c].target \in Objects
    BY DEF TypeOK
  <2> QED BY <1>1, <1>3, <2>1, <2>2 DEF Coherent
<1>4. calls' = calls => Coherent'
  BY <1>3 DEF Coherent
<1> QED BY <1>1, <1>2, <1>4 DEF TypeOK

\* Reading changes no object; a run's reading leaves the copies of sessions alone.
LEMMA GetKeeps ==
  ASSUME TypeOK, Coherent, NEW k \in Callers \cup Runs, NEW o \in Objects,
         Get(k, o) \/ Forget(k) \/ UNCHANGED fresh, UNCHANGED objects
  PROVE  /\ fresh' \subseteq (Callers \cup Runs) \X Objects
         /\ \A p \in fresh' : p \in fresh \/ p = <<k, o>>
         /\ calls' = calls /\ k \notin Callers => Coherent'
<1>1. /\ fresh' \subseteq (Callers \cup Runs) \X Objects
      /\ \A p \in fresh' : p \in fresh \/ p = <<k, o>>
  BY DEF TypeOK, Get, Forget
<1>2. ASSUME calls' = calls, k \notin Callers
      PROVE  Coherent'
  BY <1>1, <1>2 DEF Coherent
<1> QED BY <1>1, <1>2

\* A session's call is unchanged, or only ends, by whatever the runs and
\* Kubernetes do.
LEMMA OthersKeepCalls ==
  ASSUME Calls, UNCHANGED calls
  PROVE  Calls'
BY DEF Calls, Tool, Content, Flags

\* Nodes stay when a change gives a node another content.
LEMMA PutKeepsNodes ==
  ASSUME TypeOK, NodesStay, NEW o \in Objects, NEW content, Put(o, content),
         o \in Nodes => content \in Content(o)
  PROVE  \A n \in Nodes : objects'[n] # Absent
<1> TAKE n \in Nodes
<1>1. n \in Objects
  BY DEF Objects
<1>2. objects'[n] = IF n = o THEN content ELSE objects[n]
  BY <1>1 DEF TypeOK, Put
<1> QED BY <1>1, <1>2, ThereIs DEF NodesStay

-----------------------------------------------------------------------------
(* The tools' steps keep the invariant.                                     *)

PCs == {"none", "read", "write", "reply", "ok", "error"}

\* The types of a call that goes on.
LEMMA CallTyped ==
  ASSUME TypeOK, NEW c \in Callers, NEW call,
         call \in [pc : PCs, target : Objects, input : Inputs, wish : Wishes, copy : Contents],
         calls' = [calls EXCEPT ![c] = call]
  PROVE  /\ calls' \in [Callers -> [pc : PCs, target : Objects, input : Inputs,
                                    wish : Wishes, copy : Contents]]
         /\ \A d \in Callers : calls'[d] = IF d = c THEN call ELSE calls[d]
BY DEF TypeOK, PCs, Contents

\* A session calls a tool.
LEMMA CallKeeps ==
  ASSUME Inv, NEW c \in Callers, NEW o \in Objects, NEW input \in Inputs, NEW wish \in Wishes,
         Call(c, o, input, wish), UNCHANGED <<run, faulty>>,
         maker' \in [Objects -> Runs \cup {NoRun}], healed' \subseteq Objects
  PROVE  Inv'
<1> DEFINE call == [pc |-> IF wish = "gone" THEN "write" ELSE "read",
                    target |-> o, input |-> input, wish |-> wish, copy |-> Absent]
<1>1. call \in [pc : PCs, target : Objects, input : Inputs, wish : Wishes, copy : Contents]
  BY DEF PCs, Contents
<1>2. TypeOK /\ calls' = [calls EXCEPT ![c] = call]
  BY DEF Inv, Call
<1>3. /\ calls' \in [Callers -> [pc : PCs, target : Objects, input : Inputs,
                                 wish : Wishes, copy : Contents]]
      /\ \A d \in Callers : calls'[d] = IF d = c THEN call ELSE calls[d]
  <2> HIDE DEF call
  <2> QED BY <1>1, <1>2, CallTyped
<1>4. TypeOK'
  BY <1>2, <1>3 DEF TypeOK, Call, cluster, run, PCs, Contents
<1>5. Calls'
  BY <1>3 DEF Inv, Calls, Call
<1>6. Coherent'
  BY <1>3 DEF Inv, Coherent, Call, cluster
<1>7. NodesStay'
  BY DEF Inv, NodesStay, Call, cluster, run
<1> QED BY <1>4, <1>5, <1>6, <1>7 DEF Inv

\* A tool reads its object.
LEMMA ReadKeeps ==
  ASSUME Inv, NEW c \in Callers, Read(c), UNCHANGED <<run, faulty>>,
         maker' \in [Objects -> Runs \cup {NoRun}], healed' \subseteq Objects
  PROVE  Inv'
<1> DEFINE o == calls[c].target
<1>1. /\ TypeOK /\ Calls /\ Coherent /\ NodesStay
      /\ calls[c] \in [pc : PCs, target : Objects, input : Inputs, wish : Wishes, copy : Contents]
      /\ calls[c].pc = "read" /\ objects' = objects
  BY DEF Inv, TypeOK, Read, PCs, Contents
<1>2. PICK call : /\ calls' = [calls EXCEPT ![c] = call]
                  /\ \/ /\ objects[o] # Absent /\ Get(c, o)
                        /\ call = [calls[c] EXCEPT !.pc = "write", !.copy = objects[o]]
                     \/ /\ call = [calls[c] EXCEPT !.pc = "error"]
                        /\ UNCHANGED fresh
  <2>1. CASE /\ objects[o] # Absent /\ Get(c, o)
             /\ calls' = [calls EXCEPT ![c].pc = "write", ![c].copy = objects[o]]
    <3> DEFINE call == [calls[c] EXCEPT !.pc = "write", !.copy = objects[o]]
    <3>1. calls' = [calls EXCEPT ![c] = call]
      BY <1>1, <2>1 DEF TypeOK
    <3> QED BY <2>1, <3>1
  <2>2. CASE Goes(c, "error") /\ UNCHANGED fresh
    <3> DEFINE call == [calls[c] EXCEPT !.pc = "error"]
    <3>1. calls' = [calls EXCEPT ![c] = call]
      BY <2>2 DEF Goes
    <3> QED BY <2>2, <3>1
  <2> QED BY <2>1, <2>2 DEF Read
<1>3. o \in Objects /\ objects[o] \in Content(o) \cup {Absent}
  BY <1>1 DEF TypeOK
<1>4. call \in [pc : PCs, target : Objects, input : Inputs, wish : Wishes, copy : Contents]
  <2>1. objects[o] \in Contents
    BY <1>3 DEF Contents
  <2>2. "write" \in PCs /\ "error" \in PCs
    BY DEF PCs
  <2> HIDE DEF o
  <2> QED BY <1>1, <1>2, <2>1, <2>2
<1>5. /\ calls' \in [Callers -> [pc : PCs, target : Objects, input : Inputs,
                                 wish : Wishes, copy : Contents]]
      /\ \A d \in Callers : calls'[d] = IF d = c THEN call ELSE calls[d]
  BY <1>1, <1>2, <1>4, CallTyped
<1>6. /\ fresh' \subseteq (Callers \cup Runs) \X Objects
      /\ \A p \in fresh' : p \in fresh \/ p = <<c, o>>
  BY <1>1, <1>2, <1>3, GetKeeps
<1>7. TypeOK'
  BY <1>1, <1>5, <1>6 DEF TypeOK, run, PCs, Contents
<1>8. call.target = o /\ call.input = calls[c].input /\ call.wish = calls[c].wish /\ call.pc \in {"write", "error"}
      /\ (call.pc = "write" => call.copy = objects[o] /\ objects[o] # Absent)
  BY <1>1, <1>2
<1>9. Calls'
  <2> SUFFICES ASSUME NEW d \in Callers
               PROVE  /\ calls'[d].pc \in {"read", "write"} =>
                           Tool(calls'[d].target, calls'[d].input, calls'[d].wish)
                      /\ calls'[d].pc = "write" /\ calls'[d].wish # "gone" =>
                           calls'[d].copy \in Content(calls'[d].target)
    BY DEF Calls, Tool, Content, Flags
  <2>1. CASE d = c
    BY <2>1, <1>1, <1>3, <1>5, <1>8 DEF Calls
  <2>2. CASE d # c
    BY <2>2, <1>1, <1>5 DEF Calls
  <2> QED BY <2>1, <2>2
<1>10. Coherent'
  <2> SUFFICES ASSUME NEW d \in Callers, calls'[d].pc = "write", calls'[d].wish # "gone",
                      <<d, calls'[d].target>> \in fresh'
               PROVE  calls'[d].copy = objects'[calls'[d].target]
    BY DEF Coherent
  <2>1. CASE d = c
    BY <2>1, <1>1, <1>5, <1>8
  <2>2. CASE d # c
    BY <2>2, <1>1, <1>5, <1>6 DEF Coherent
  <2> QED BY <2>1, <2>2
<1>11. NodesStay'
  BY <1>1 DEF NodesStay, run
<1> QED BY <1>7, <1>9, <1>10, <1>11 DEF Inv

\* The server takes what a tool sends, or does not.
LEMMA WriteKeeps ==
  ASSUME Inv, NEW c \in Callers, Write(c), UNCHANGED <<run, faulty>>,
         maker' \in [Objects -> Runs \cup {NoRun}], healed' \subseteq Objects
  PROVE  Inv'
<1> DEFINE o == calls[c].target
           w == calls[c].wish
<1>1. /\ TypeOK /\ Calls /\ Coherent /\ NodesStay
      /\ calls[c] \in [pc : PCs, target : Objects, input : Inputs, wish : Wishes, copy : Contents]
      /\ calls[c].pc = "write" /\ o \in Objects
  BY DEF Inv, TypeOK, Write, PCs, Contents
<1>2. PICK call : /\ calls' = [calls EXCEPT ![c] = call]
                  /\ call.pc \in {"reply", "error"}
                  /\ call \in [pc : PCs, target : Objects, input : Inputs, wish : Wishes, copy : Contents]
  <2>1. \E pc2 \in {"reply", "error"} :
          calls' = [calls EXCEPT ![c] = [[calls[c] EXCEPT !.pc = pc2] EXCEPT !.copy = Absent]]
    BY <1>1 DEF Write, Leaves, TypeOK
  <2>2. \A pc2 \in {"reply", "error"} :
          [[calls[c] EXCEPT !.pc = pc2] EXCEPT !.copy = Absent]
            \in [pc : PCs, target : Objects, input : Inputs, wish : Wishes, copy : Contents]
    BY <1>1 DEF PCs, Contents
  <2> HIDE DEF o
  <2> QED BY <1>1, <2>1, <2>2
<1>3. /\ calls' \in [Callers -> [pc : PCs, target : Objects, input : Inputs,
                                 wish : Wishes, copy : Contents]]
      /\ \A d \in Callers : calls'[d] = IF d = c THEN call ELSE calls[d]
  BY <1>1, <1>2, CallTyped
<1>4. Calls'
  BY <1>1, <1>2, <1>3 DEF Calls
<1>5. CASE Put(o, Granted(calls[c].copy, w))
  <2>1. /\ Tool(o, calls[c].input, w)
        /\ w # "gone" => calls[c].copy \in Content(o)
    BY <1>1 DEF Calls
  <2>2. /\ Granted(calls[c].copy, w) \in Content(o) \cup {Absent}
        /\ o \in Nodes => Granted(calls[c].copy, w) \in Content(o)
    BY <1>1, <2>1, GrantedTool, KindsAssumption
  <2>3. /\ DOMAIN objects' = Objects
        /\ \A p \in Objects : objects'[p] = IF p = o THEN Granted(calls[c].copy, w)
                                                     ELSE objects[p]
        /\ \A p \in Objects : objects'[p] \in Content(p) \cup {Absent}
        /\ \A p \in fresh' : p \in fresh /\ p[2] # o
        /\ fresh' \subseteq (Callers \cup Runs) \X Objects
    BY <1>1, <1>5, <2>2, PutKeeps
  <2>4. TypeOK'
    BY <1>1, <1>3, <2>3 DEF TypeOK, run, PCs, Contents
  <2>5. Coherent'
    <3> SUFFICES ASSUME NEW d \in Callers, calls'[d].pc = "write", calls'[d].wish # "gone",
                        <<d, calls'[d].target>> \in fresh'
                 PROVE  calls'[d].copy = objects'[calls'[d].target]
      BY DEF Coherent
    <3>1. d # c /\ calls'[d] = calls[d]
      BY <1>2, <1>3
    <3>2. calls[d].target \in Objects /\ calls[d].target # o
          /\ <<d, calls[d].target>> \in fresh
      BY <1>1, <2>3, <3>1 DEF TypeOK
    <3> QED BY <1>1, <2>3, <3>1, <3>2 DEF Coherent
  <2>6. NodesStay'
    <3>1. \A n \in Nodes : objects'[n] # Absent
      BY <1>1, <1>5, <2>2, PutKeepsNodes
    <3> QED BY <1>1, <3>1 DEF NodesStay, run, Content, Flags
  <2> QED BY <1>4, <2>4, <2>5, <2>6 DEF Inv
<1>6. CASE Forget(c) /\ UNCHANGED objects
  <2>1. /\ fresh' \subseteq (Callers \cup Runs) \X Objects
        /\ \A p \in fresh' : p \in fresh
    BY <1>1, <1>6 DEF TypeOK, Forget
  <2>2. TypeOK'
    BY <1>1, <1>3, <1>6, <2>1 DEF TypeOK, run, PCs, Contents
  <2>3. Coherent'
    BY <1>1, <1>2, <1>3, <1>6, <2>1 DEF Coherent
  <2>4. NodesStay'
    BY <1>1, <1>6 DEF NodesStay, run, Content, Flags
  <2> QED BY <1>4, <2>2, <2>3, <2>4 DEF Inv
<1> QED BY <1>5, <1>6 DEF Write

\* The answer arrives or is lost.
LEMMA ReplyKeeps ==
  ASSUME Inv, NEW c \in Callers, Reply(c), UNCHANGED <<run, faulty>>,
         maker' \in [Objects -> Runs \cup {NoRun}], healed' \subseteq Objects
  PROVE  Inv'
<1>1. /\ TypeOK /\ Calls /\ Coherent /\ NodesStay
      /\ calls[c] \in [pc : PCs, target : Objects, input : Inputs, wish : Wishes, copy : Contents]
  BY DEF Inv, TypeOK, PCs, Contents
<1>2. PICK pc2 \in {"ok", "error"} : calls' = [calls EXCEPT ![c] = [calls[c] EXCEPT !.pc = pc2]]
  BY <1>1 DEF Reply, Goes, TypeOK
<1>3. [calls[c] EXCEPT !.pc = pc2] \in [pc : PCs, target : Objects, input : Inputs, wish : Wishes, copy : Contents]
  BY <1>1 DEF PCs
<1>4. /\ calls' \in [Callers -> [pc : PCs, target : Objects, input : Inputs,
                                 wish : Wishes, copy : Contents]]
      /\ \A d \in Callers : calls'[d] = IF d = c THEN [calls[c] EXCEPT !.pc = pc2] ELSE calls[d]
  BY <1>1, <1>2, <1>3, CallTyped
<1>5. TypeOK'
  BY <1>1, <1>4 DEF TypeOK, Reply, cluster, run, PCs, Contents
<1>6. Calls' /\ Coherent' /\ NodesStay'
  BY <1>1, <1>4 DEF Calls, Coherent, NodesStay, Reply, cluster, run, Tool, Content, Flags
<1> QED BY <1>5, <1>6 DEF Inv

\* A step of a tool, with its bookkeeping.
LEMMA HealerKeeps ==
  ASSUME Inv, NEW c \in Callers, Healer(c)
  PROVE  Inv'
<1>1. calls[c].target \in Objects /\ maker \in [Objects -> Runs \cup {NoRun}]
      /\ healed \subseteq Objects
  BY DEF Inv, TypeOK
<1>2. /\ UNCHANGED <<run, faulty>>
      /\ maker' \in [Objects -> Runs \cup {NoRun}] /\ healed' \subseteq Objects
  BY <1>1 DEF Healer
<1> QED BY <1>2, CallKeeps, ReadKeeps, WriteKeeps, ReplyKeeps DEF Healer, ToolStep

-----------------------------------------------------------------------------
(* The runs' steps and Kubernetes' keep the invariant.                      *)

\* What a run does leaves the calls alone; a run's place keeps its type.
LEMMA RunTyped ==
  ASSUME TypeOK, NEW r \in Runs, NEW to \in {"setup", "update", "sleep",
                                              "teardown", "uncordon", "ended"},
         To(r, to)
  PROVE  /\ pc' \in [Runs -> {"none", "setup", "update", "sleep", "teardown",
                              "uncordon", "ended", "lost"}]
         /\ \A q \in Runs : pc'[q] = IF q = r THEN to ELSE pc[q]
BY DEF TypeOK, To

\* The end of a run.
LEMMA FinalTyped ==
  ASSUME TypeOK, NEW r \in Runs, NEW s \in {"done", "failed"}, Finalize(r, s)
  PROVE  /\ pc' \in [Runs -> {"none", "setup", "update", "sleep", "teardown",
                              "uncordon", "ended", "lost"}]
         /\ \A q \in Runs : pc'[q] = IF q = r THEN "ended" ELSE pc[q]
         /\ result' \in [Runs -> {"none", "running", "done", "failed"}]
<1>1. To(r, "ended")
  BY DEF Finalize
<1> QED BY <1>1, RunTyped DEF TypeOK, Finalize

\* A run starts.
LEMMA RunScenarioKeeps ==
  ASSUME Inv, NEW r \in Runs, NEW o \in Objects, RunScenario(r, o)
  PROVE  Inv'
<1>1. /\ TypeOK /\ Calls /\ Coherent /\ NodesStay
      /\ UNCHANGED <<objects, fresh, calls>>
  BY DEF Inv, RunScenario, cluster
<1>2. /\ pc' \in [Runs -> {"none", "setup", "update", "sleep", "teardown",
                           "uncordon", "ended", "lost"}]
      /\ \A q \in Runs : pc'[q] = IF q = r THEN "setup" ELSE pc[q]
  BY <1>1, RunTyped DEF RunScenario
<1>3. TypeOK'
  BY <1>1, <1>2 DEF TypeOK, RunScenario, history
<1>4. Calls' /\ Coherent'
  BY <1>1, OthersKeepCalls DEF Coherent
<1>5. NodesStay'
  BY <1>1, <1>2 DEF NodesStay, RunScenario, TypeOK, Content, Flags
<1> QED BY <1>3, <1>4, <1>5 DEF Inv

\* A scenario's object has some count.
LEMMA MadeCount ==
  ASSUME NEW r \in Runs, Made(r)
  PROVE  \E v \in Counts : Put(object[r], [value |-> v, rest |-> Fresh])
<1>1. PICK v \in IF object[r] \in Deployments THEN Counts ELSE {Zero} :
        Put(object[r], [value |-> v, rest |-> Fresh])
  BY DEF Made
<1>2. v \in Counts
  BY KindsAssumption
<1> QED BY <1>1, <1>2

\* Setup of a scenario that creates its object.
LEMMA CreateKeeps ==
  ASSUME Inv, NEW r \in Runs, Create(r)
  PROVE  Inv'
<1>1. /\ TypeOK /\ Calls /\ Coherent /\ NodesStay
      /\ object[r] \in Objects \ Nodes /\ UNCHANGED <<calls, object, copy, healed>>
  BY DEF Inv, TypeOK, Create
<1>2. /\ pc' \in [Runs -> {"none", "setup", "update", "sleep", "teardown",
                           "uncordon", "ended", "lost"}]
      /\ \A q \in Runs : q # r => pc'[q] = pc[q]
      /\ pc'[r] \in {"sleep", "ended"}
      /\ result' \in [Runs -> {"none", "running", "done", "failed"}]
      /\ faulty' \subseteq Runs
  <2>1. TypeOK
    BY <1>1
  <2> QED BY <2>1, RunTyped, FinalTyped DEF Create, Taken, Fault, TypeOK
<1>3. /\ DOMAIN objects' = Objects
      /\ \A o \in Objects : objects'[o] \in Content(o) \cup {Absent}
      /\ fresh' \subseteq (Callers \cup Runs) \X Objects
      /\ Coherent'
      /\ \A n \in Nodes : objects'[n] # Absent
      /\ maker' \in [Objects -> Runs \cup {NoRun}]
  <2>1. CASE Made(r)
    <3>1. PICK v \in Counts : Put(object[r], [value |-> v, rest |-> Fresh])
      BY <2>1, MadeCount
    <3>2. [value |-> v, rest |-> Fresh] \in Content(object[r])
      BY <1>1, KindsAssumption DEF Content, Fresh
    <3> QED BY <1>1, <2>1, <3>1, <3>2, PutKeeps, PutKeepsNodes DEF Made, TypeOK
  <2>2. CASE UNCHANGED <<cluster, maker>>
    BY <1>1, <2>2 DEF cluster, TypeOK, Coherent, NodesStay
  <2> QED BY <2>1, <2>2 DEF Create
<1>4. TypeOK'
  BY <1>1, <1>2, <1>3 DEF TypeOK
<1>5. NodesStay'
  BY <1>1, <1>2, <1>3 DEF NodesStay, Content, Flags
<1> QED BY <1>1, <1>3, <1>4, <1>5, OthersKeepCalls DEF Inv

\* A run reads a node.
LEMMA LookKeeps ==
  ASSUME Inv, NEW r \in Runs, Look(r)
  PROVE  Inv'
<1>1. /\ TypeOK /\ Calls /\ Coherent /\ NodesStay
      /\ object[r] \in Objects /\ object[r] \in Nodes /\ r \notin Callers
      /\ UNCHANGED <<objects, calls, object, maker, healed>>
  BY RunsAssumption DEF Inv, TypeOK, Look
<1>2. objects[object[r]] \in Content(object[r])
  BY <1>1 DEF TypeOK, NodesStay
<1>3. /\ pc' \in [Runs -> {"none", "setup", "update", "sleep", "teardown",
                           "uncordon", "ended", "lost"}]
      /\ \A q \in Runs : q # r => pc'[q] = pc[q]
      /\ pc'[r] \in {"update", "uncordon"} =>
           copy' = [copy EXCEPT ![r] = objects[object[r]]]
      /\ pc'[r] \notin {"update", "uncordon"} => copy' = copy
      /\ pc'[r] \in {"update", "uncordon", "ended"}
      /\ result' \in [Runs -> {"none", "running", "done", "failed"}]
      /\ faulty' \subseteq Runs
  BY <1>1, RunTyped, FinalTyped DEF Look, Fault, TypeOK
<1>4. fresh' \subseteq (Callers \cup Runs) \X Objects /\ Coherent'
  BY <1>1, GetKeeps DEF Look
<1>5. /\ copy' \in [Runs -> Contents]
      /\ \A q \in Runs : q # r => copy'[q] = copy[q]
      /\ pc'[r] \in {"update", "uncordon"} => copy'[r] \in Content(object[r])
  <2>1. copy \in [Runs -> Contents] /\ objects[object[r]] \in Contents
    BY <1>1, <1>2 DEF TypeOK, Contents
  <2> QED BY <1>2, <1>3, <2>1
<1>6. TypeOK'
  BY <1>1, <1>3, <1>4, <1>5 DEF TypeOK, Contents
<1>7. NodesStay'
  BY <1>1, <1>3, <1>5 DEF NodesStay, Content, Flags
<1> QED BY <1>1, <1>4, <1>6, <1>7, OthersKeepCalls DEF Inv

\* A run sends a node back.
LEMMA UpdateKeeps ==
  ASSUME Inv, NEW r \in Runs, Update(r)
  PROVE  Inv'
<1> DEFINE o == object[r]
           value == IF pc[r] = "update" THEN "cordoned" ELSE "schedulable"
<1>1. /\ TypeOK /\ Calls /\ Coherent /\ NodesStay
      /\ o \in Objects /\ o \in Nodes /\ r \notin Callers /\ copy[r] \in Content(o)
      /\ UNCHANGED <<calls, object, healed>>
      /\ copy' = [copy EXCEPT ![r] = Absent]
  BY RunsAssumption DEF Inv, TypeOK, Update, NodesStay, At
<1>2. /\ pc' \in [Runs -> {"none", "setup", "update", "sleep", "teardown",
                           "uncordon", "ended", "lost"}]
      /\ \A q \in Runs : q # r => pc'[q] = pc[q]
      /\ pc'[r] \in {"sleep", "ended"}
      /\ result' \in [Runs -> {"none", "running", "done", "failed"}]
      /\ faulty' \subseteq Runs
  BY <1>1, RunTyped, FinalTyped DEF Update, Fault, TypeOK
<1>3. /\ DOMAIN objects' = Objects
      /\ \A p \in Objects : objects'[p] \in Content(p) \cup {Absent}
      /\ fresh' \subseteq (Callers \cup Runs) \X Objects
      /\ Coherent'
      /\ \A n \in Nodes : objects'[n] # Absent
      /\ maker' \in [Objects -> Runs \cup {NoRun}]
  <2>1. CASE /\ Put(o, Granted(copy[r], value))
             /\ maker' = [maker EXCEPT ![o] = r]
    <3>1. Granted(copy[r], value) \in Content(o)
      BY <1>1, GrantedContent DEF Flags
    <3> QED BY <1>1, <2>1, <3>1, PutKeeps, PutKeepsNodes DEF TypeOK
  <2>2. CASE Forget(r) /\ UNCHANGED <<objects, maker>>
    BY <1>1, <2>2, GetKeeps DEF TypeOK, NodesStay
  <2> QED BY <2>1, <2>2 DEF Update, At
<1>4. copy' \in [Runs -> Contents] /\ \A q \in Runs : q # r => copy'[q] = copy[q]
  <2>1. copy \in [Runs -> Contents] /\ Absent \in Contents
    BY <1>1 DEF TypeOK, Contents
  <2> QED BY <1>1, <2>1
<1>5. TypeOK'
  BY <1>1, <1>2, <1>3, <1>4 DEF TypeOK, Contents
<1>6. NodesStay'
  BY <1>1, <1>2, <1>3, <1>4 DEF NodesStay, Content, Flags
<1> QED BY <1>1, <1>3, <1>5, <1>6, OthersKeepCalls DEF Inv

\* A run wakes up.
LEMMA SleepKeeps ==
  ASSUME Inv, NEW r \in Runs, Sleep(r)
  PROVE  Inv'
<1>1. /\ TypeOK /\ Calls /\ Coherent /\ NodesStay
      /\ UNCHANGED <<objects, fresh, calls, object, copy, result, maker, faulty, healed>>
  BY DEF Inv, Sleep, Awake, cluster, history
<1>2. /\ pc' \in [Runs -> {"none", "setup", "update", "sleep", "teardown",
                           "uncordon", "ended", "lost"}]
      /\ \A q \in Runs : pc'[q] = IF q = r THEN "teardown" ELSE pc[q]
  BY <1>1, RunTyped DEF Sleep, Awake
<1>3. TypeOK'
  BY <1>1, <1>2 DEF TypeOK
<1>4. Coherent' /\ NodesStay'
  BY <1>1, <1>2 DEF Coherent, NodesStay, Content, Flags
<1> QED BY <1>1, <1>3, <1>4, OthersKeepCalls DEF Inv

\* A run deletes its object.
LEMMA DeleteKeeps ==
  ASSUME Inv, NEW r \in Runs, Delete(r)
  PROVE  Inv'
<1>1. /\ TypeOK /\ Calls /\ Coherent /\ NodesStay
      /\ object[r] \in Objects \ Nodes
      /\ UNCHANGED <<calls, object, copy, maker, healed>>
  BY DEF Inv, TypeOK, Delete
<1>2. /\ pc' \in [Runs -> {"none", "setup", "update", "sleep", "teardown",
                           "uncordon", "ended", "lost"}]
      /\ \A q \in Runs : pc'[q] = IF q = r THEN "ended" ELSE pc[q]
      /\ result' \in [Runs -> {"none", "running", "done", "failed"}]
      /\ faulty' \subseteq Runs
  BY <1>1, FinalTyped DEF Delete, Fault, TypeOK
<1>3. /\ DOMAIN objects' = Objects
      /\ \A p \in Objects : objects'[p] \in Content(p) \cup {Absent}
      /\ fresh' \subseteq (Callers \cup Runs) \X Objects
      /\ Coherent'
      /\ \A n \in Nodes : objects'[n] # Absent
  <2>1. CASE Put(object[r], Absent)
    BY <1>1, <2>1, PutKeeps, PutKeepsNodes
  <2>2. CASE UNCHANGED cluster
    BY <1>1, <2>2 DEF cluster, TypeOK, Coherent, NodesStay
  <2> QED BY <2>1, <2>2 DEF Delete
<1>4. TypeOK' /\ NodesStay'
  BY <1>1, <1>2, <1>3 DEF TypeOK, NodesStay, Content, Flags
<1> QED BY <1>1, <1>3, <1>4, OthersKeepCalls DEF Inv

\* The orchestrator dies.
LEMMA CrashKeeps ==
  ASSUME Inv, Crash
  PROVE  Inv'
<1>1. /\ TypeOK /\ Calls /\ Coherent /\ NodesStay
      /\ UNCHANGED <<objects, calls, object, maker, healed>>
      /\ fresh' \subseteq fresh
  BY DEF Inv, Crash
<1>2. /\ pc' \in [Runs -> {"none", "setup", "update", "sleep", "teardown",
                           "uncordon", "ended", "lost"}]
      /\ \A r \in Runs : pc'[r] \notin {"update", "uncordon"}
  BY <1>1 DEF Crash, Active, TypeOK
<1>3. TypeOK'
  BY <1>1, <1>2 DEF TypeOK, Crash
<1>4. Coherent' /\ NodesStay'
  BY <1>1, <1>2 DEF Coherent, NodesStay
<1> QED BY <1>1, <1>3, <1>4, OthersKeepCalls DEF Inv

\* Kubernetes writes an object.
LEMMA KubernetesKeeps ==
  ASSUME Inv, NEW o \in Objects, Kubernetes(o)
  PROVE  Inv'
<1>1. /\ TypeOK /\ Calls /\ Coherent /\ NodesStay
      /\ UNCHANGED <<calls, pc, object, copy, result, maker, faulty, healed>>
  BY DEF Inv, Kubernetes, run, history
<1>2. PICK x \in Rests : Put(o, [objects[o] EXCEPT !.rest = x])
  BY DEF Kubernetes
<1>3. [objects[o] EXCEPT !.rest = x] \in Content(o)
  BY <1>1, <1>2 DEF TypeOK, Kubernetes, Content
<1>4. TypeOK' /\ Coherent'
  BY <1>1, <1>2, <1>3, PutKeeps DEF TypeOK
<1>5. NodesStay'
  <2>1. \A n \in Nodes : objects'[n] # Absent
    BY <1>1, <1>2, <1>3, PutKeepsNodes
  <2> QED BY <1>1, <2>1 DEF NodesStay, Content, Flags
<1> QED BY <1>1, <1>4, <1>5, OthersKeepCalls DEF Inv

\* Every step keeps the invariant.
LEMMA StepKeeps ==
  ASSUME Inv, [Next]_vars
  PROVE  Inv'
<1>1. CASE UNCHANGED vars
  BY <1>1 DEF vars, cluster, run, history, Inv, TypeOK, Calls, Coherent, NodesStay,
              Tool, Content, Flags
<1>2. CASE Next
  BY <1>2, RunScenarioKeeps, CreateKeeps, LookKeeps, UpdateKeeps, SleepKeeps,
     DeleteKeeps, CrashKeeps, KubernetesKeeps, HealerKeeps DEF Next, RunStep
<1> QED BY <1>1, <1>2

\* The invariant holds in every reachable state.
THEOREM Invariant == Spec => []Inv
<1>1. Init => Inv
  BY InitTyped
<1> QED BY <1>1, StepKeeps, PTL DEF Spec

\* Every variable keeps its type, for any number of sessions, runs and objects;
\* in particular a node stays a node whatever its copies went through.
THEOREM TypeCorrect == Spec => []TypeOK
<1>1. Inv => TypeOK
  BY DEF Inv
<1> QED BY <1>1, Invariant, PTL

-----------------------------------------------------------------------------
(* Who has made what.                                                       *)

Story == OwnObject /\ NothingLeft /\ Making

\* One object changes, the others are left alone.
LEMMA PutOne ==
  ASSUME TypeOK, NEW o \in Objects, NEW content, Put(o, content)
  PROVE  \A p \in Objects : objects'[p] = IF p = o THEN content ELSE objects[p]
BY DEF TypeOK, Put

\* The places of the runs after a step of one of them.
LEMMA RunMoves ==
  ASSUME TypeOK, NEW r \in Runs, NEW to, To(r, to)
  PROVE  \A q \in Runs : pc'[q] = IF q = r THEN to ELSE pc[q]
BY DEF TypeOK, To

\* A new object is the run's; its scenario's name was free.
LEMMA CreateStory ==
  ASSUME Inv, Story, NEW r \in Runs, Create(r)
  PROVE  Story'
<1>1. /\ TypeOK /\ OwnObject /\ NothingLeft /\ Making
      /\ object[r] \in Objects \ Nodes /\ pc[r] = "setup"
      /\ UNCHANGED <<object, healed>>
  BY DEF Inv, Story, TypeOK, Create, At
<1>2. /\ \A q \in Runs : q # r => pc'[q] = pc[q]
      /\ pc'[r] = "sleep" \/ (pc'[r] = "ended" /\ (r \in faulty' \/ UNCHANGED maker))
      /\ faulty \subseteq faulty'
  BY <1>1, RunMoves DEF Create, Taken, Finalize, Fault
<1>3. \A o \in Objects : maker[o] # r
  BY <1>1 DEF Making
<1>4. CASE Made(r) /\ objects[object[r]] = Absent
  <2>1. PICK v \in Counts : Put(object[r], [value |-> v, rest |-> Fresh])
    BY <1>4, MadeCount
  <2>2. [value |-> v, rest |-> Fresh] # Absent
    BY KindsAssumption DEF Fresh
  <2>3. \A p \in Objects : /\ p = object[r] => objects'[p] # Absent /\ maker'[p] = r
                           /\ p # object[r] => objects'[p] = objects[p] /\ maker'[p] = maker[p]
    BY <1>1, <1>4, <2>1, <2>2, PutOne DEF TypeOK, Made
  <2>4. pc'[r] = "sleep" \/ r \in faulty'
    <3>1. maker'[object[r]] # maker[object[r]]
      BY <1>1, <1>3, <2>3
    <3> QED BY <1>2, <3>1
  <2>5. OwnObject'
    BY <1>1, <1>2, <1>4, <2>3 DEF OwnObject, TypeOK
  <2>6. NothingLeft'
    BY <1>1, <1>2, <1>3, <2>3, <2>4 DEF NothingLeft, Active
  <2>7. Making'
    BY <1>1, <1>2, <2>3 DEF Making
  <2> QED BY <2>5, <2>6, <2>7 DEF Story
<1>5. CASE UNCHANGED <<cluster, maker>> /\ pc'[r] = "ended"
  BY <1>1, <1>2, <1>3, <1>5 DEF cluster, Story, OwnObject, NothingLeft, Making, Active
<1> QED BY <1>1, <1>4, <1>5, RunMoves DEF Create, Taken, Finalize

\* A cordoned node is the run's until it is uncordoned.
LEMMA UpdateStory ==
  ASSUME Inv, Story, NEW r \in Runs, Update(r)
  PROVE  Story'
<1> DEFINE o == object[r]
<1>1. /\ TypeOK /\ OwnObject /\ NothingLeft /\ Making
      /\ o \in Objects /\ o \in Nodes /\ pc[r] \in {"update", "uncordon"}
      /\ copy[r] \in Content(o)
      /\ UNCHANGED <<object, healed>>
  BY DEF Inv, Story, NodesStay, TypeOK, Update, At
<1>2. /\ \A q \in Runs : q # r => pc'[q] = pc[q]
      /\ pc'[r] \in {"sleep", "ended"}
      /\ faulty \subseteq faulty'
  BY <1>1, RunMoves DEF Update, Finalize, Fault
<1>3. \A p \in Objects : maker[p] = r => p = o
  BY <1>1 DEF Making
<1>4. CASE \E value \in Flags :
             /\ Put(o, Granted(copy[r], value)) /\ maker' = [maker EXCEPT ![o] = r]
             /\ value = "schedulable" \/ pc'[r] = "sleep" \/ r \in faulty'
             /\ value = "cordoned" \/ pc'[r] # "sleep"
  <2>1. PICK value \in Flags :
             /\ Put(o, Granted(copy[r], value)) /\ maker' = [maker EXCEPT ![o] = r]
             /\ value = "schedulable" \/ pc'[r] = "sleep" \/ r \in faulty'
             /\ value = "cordoned" \/ pc'[r] # "sleep"
    BY <1>4
  <2>2. Granted(copy[r], value).value = value
    BY <1>1, <2>1 DEF Granted, Content, Flags
  <2>3. \A p \in Objects : /\ p = o => objects'[p].value = value /\ maker'[p] = r
                           /\ p # o => objects'[p] = objects[p] /\ maker'[p] = maker[p]
    BY <1>1, <2>1, <2>2, PutOne DEF TypeOK
  <2>4. OwnObject'
    BY <1>1, <1>2, <2>1, <2>3 DEF OwnObject, TypeOK
  <2>5. NothingLeft'
    BY <1>1, <1>2, <1>3, <2>1, <2>3 DEF NothingLeft, Active
  <2>6. Making'
    BY <1>1, <1>2, <1>3, <2>3 DEF Making
  <2> QED BY <2>4, <2>5, <2>6 DEF Story
<1>5. CASE UNCHANGED <<objects, maker>> /\ r \in faulty' /\ pc'[r] = "ended"
  BY <1>1, <1>2, <1>3, <1>5 DEF Story, OwnObject, NothingLeft, Making, Active, TypeOK
<1> QED BY <1>1, <1>4, <1>5, RunMoves DEF Update, At, Finalize, Fault, Flags

\* A run that deletes its object leaves nothing, or has had a failure.
LEMMA DeleteStory ==
  ASSUME Inv, Story, NEW r \in Runs, Delete(r)
  PROVE  Story'
<1>1. /\ TypeOK /\ OwnObject /\ NothingLeft /\ Making
      /\ object[r] \in Objects \ Nodes /\ pc[r] = "teardown"
      /\ UNCHANGED <<object, healed, maker>>
      /\ \A q \in Runs : q # r => pc'[q] = pc[q]
      /\ pc'[r] = "ended"
      /\ faulty \subseteq faulty'
  BY RunMoves DEF Inv, Story, TypeOK, Delete, At, Finalize, Fault
<1>2. \A p \in Objects : maker[p] = r => p = object[r]
  BY <1>1 DEF Making
<1>3. Making'
  BY <1>1, <1>2 DEF Making
<1>4. CASE Put(object[r], Absent)
  <2>1. \A p \in Objects : objects'[p] = IF p = object[r] THEN Absent ELSE objects[p]
    BY <1>1, <1>4, PutOne
  <2>2. OwnObject'
    BY <1>1, <2>1 DEF OwnObject, TypeOK
  <2>3. NothingLeft'
    BY <1>1, <1>2, <2>1 DEF NothingLeft, Active
  <2> QED BY <1>3, <2>2, <2>3 DEF Story
<1>5. CASE Fault(r) /\ UNCHANGED objects
  BY <1>1, <1>2, <1>3, <1>5 DEF Story, OwnObject, NothingLeft, Active, Fault
<1> QED BY <1>4, <1>5 DEF Delete, cluster

\* A tool that deletes a pod is known to have done so; one that changes a node
\* takes it from the run.
LEMMA HealerStory ==
  ASSUME Inv, Story, NEW c \in Callers, Healer(c)
  PROVE  Story'
<1> DEFINE o == calls[c].target
           w == calls[c].wish
           changed == calls[c].pc = "write" /\ calls'[c].pc = "reply"
<1>1. /\ TypeOK /\ Calls /\ OwnObject /\ NothingLeft /\ Making /\ o \in Objects
      /\ UNCHANGED <<pc, object, copy, result, faulty>>
      /\ maker' = IF changed /\ o \in Nodes THEN [maker EXCEPT ![o] = NoRun] ELSE maker
      /\ healed' = IF changed /\ o \in Pods THEN healed \cup {o} ELSE healed
  BY DEF Inv, Story, TypeOK, Healer, run
<1>2. \A p \in Objects : maker'[p] = maker[p] \/ (maker'[p] = NoRun /\ p \in Nodes)
  BY <1>1 DEF TypeOK
<1>3. Making'
  BY <1>1, <1>2, RunsAssumption DEF Making
<1>4. CASE UNCHANGED objects
  BY <1>1, <1>2, <1>3, <1>4, RunsAssumption
  DEF Story, OwnObject, NothingLeft, Active, TypeOK
<1>5. CASE Write(c) /\ objects' # objects
  <2>1. /\ Put(o, Granted(calls[c].copy, w)) /\ objects[o] # Absent
        /\ changed
    BY <1>1, <1>5 DEF Write, Leaves, TypeOK
  <2>2. /\ w = "gone" <=> o \in Pods
        /\ o \notin Pods => Granted(calls[c].copy, w) \in Content(o)
    BY <1>1, <2>1, GrantedTool DEF Calls
  <2>3. \A p \in Objects : objects'[p] = IF p = o THEN Granted(calls[c].copy, w)
                                                  ELSE objects[p]
    BY <1>1, <2>1, PutOne
  <2>4. CASE o \in Pods
    <3>1. objects'[o] = Absent /\ o \notin Nodes /\ healed' = healed \cup {o} /\ maker' = maker
      BY <1>1, <2>1, <2>2, <2>3, <2>4, KindsAssumption DEF Granted
    <3> QED BY <1>1, <1>3, <2>3, <3>1 DEF Story, OwnObject, NothingLeft, Active, TypeOK
  <2>5. CASE o \notin Pods
    <3>1. objects'[o] # Absent /\ healed' = healed
      BY <1>1, <2>2, <2>3, <2>5, ThereIs
    <3>2. o \in Nodes => maker'[o] = NoRun
      BY <1>1, <2>1 DEF TypeOK
    <3>3. OwnObject'
      BY <1>1, <1>2, <2>3, <3>1, <3>2, RunsAssumption DEF OwnObject, TypeOK
    <3>4. NothingLeft'
      BY <1>1, <1>2, <2>1, <2>3, <3>2, RunsAssumption DEF NothingLeft, Active
    <3> QED BY <1>3, <3>3, <3>4 DEF Story
  <2> QED BY <2>4, <2>5
<1> QED BY <1>4, <1>5 DEF Healer, Call, ToolStep, Read, Write, Reply, cluster

\* What Kubernetes writes concerns nobody's doing.
LEMMA KubernetesStory ==
  ASSUME Inv, Story, NEW o \in Objects, Kubernetes(o)
  PROVE  Story'
<1>1. /\ TypeOK /\ OwnObject /\ NothingLeft /\ Making
      /\ UNCHANGED <<pc, object, maker, faulty, healed>>
  BY DEF Inv, Story, Kubernetes, run, history
<1>2. PICK x \in Rests : Put(o, [objects[o] EXCEPT !.rest = x])
  BY DEF Kubernetes
<1>3. /\ objects[o] \in Content(o)
      /\ [objects[o] EXCEPT !.rest = x].value = objects[o].value
      /\ [objects[o] EXCEPT !.rest = x] \in Content(o)
  BY <1>1 DEF TypeOK, Kubernetes, Content
<1>4. \A p \in Objects :
        /\ objects'[p] = Absent <=> objects[p] = Absent
        /\ p \in Nodes => objects'[p].value = objects[p].value
  <2> DEFINE new == [objects[o] EXCEPT !.rest = x]
  <2>1. \A p \in Objects : objects'[p] = IF p = o THEN new ELSE objects[p]
    BY <1>1, <1>2, PutOne
  <2>2. objects[o] # Absent /\ new # Absent /\ new.value = objects[o].value
    BY <1>3, ThereIs
  <2> HIDE DEF new
  <2> QED BY <2>1, <2>2
<1>5. \A r \in Runs : object[r] \in Objects
  BY <1>1 DEF TypeOK
<1>6. OwnObject'
  BY <1>1, <1>4, <1>5 DEF OwnObject
<1>7. NothingLeft'
  BY <1>1, <1>4 DEF NothingLeft, Active
<1>8. Making'
  BY <1>1 DEF Making
<1> QED BY <1>6, <1>7, <1>8 DEF Story

\* Every step keeps the story straight.
LEMMA StepStory ==
  ASSUME Inv, Story, [Next]_vars
  PROVE  Story'
<1>1. TypeOK /\ OwnObject /\ NothingLeft /\ Making
  BY DEF Inv, Story
<1>2. ASSUME NEW r \in Runs, NEW o \in Objects, RunScenario(r, o) PROVE Story'
  <2>1. /\ \A q \in Runs : pc'[q] = IF q = r THEN "setup" ELSE pc[q]
        /\ pc[r] = "none"
        /\ UNCHANGED <<objects, maker, faulty, healed>>
        /\ \A q \in Runs : q # r => object'[q] = object[q]
    BY <1>1, <1>2, RunMoves DEF RunScenario, At, cluster, history, TypeOK
  <2> QED BY <1>1, <2>1 DEF Story, OwnObject, NothingLeft, Making, Active
<1>3. ASSUME NEW r \in Runs, Look(r) PROVE Story'
  <2>1. /\ \A q \in Runs : q # r => pc'[q] = pc[q]
        /\ \/ pc[r] = "setup" /\ pc'[r] \in {"update", "ended"}
           \/ pc[r] = "teardown" /\ pc'[r] \in {"uncordon", "ended"}
        /\ pc'[r] = "ended" => r \in faulty'
        /\ faulty \subseteq faulty' /\ object[r] \in Nodes
        /\ UNCHANGED <<objects, object, maker, healed>>
    BY <1>1, <1>3, RunMoves DEF Look, At, Finalize, Fault
  <2>2. \A o \in Objects : pc[r] = "setup" => maker[o] # r
    BY <1>1 DEF Making
  <2>3. OwnObject'
    BY <1>1, <2>1 DEF OwnObject
  <2>4. NothingLeft'
    BY <1>1, <2>1 DEF NothingLeft, Active
  <2>5. Making'
    BY <1>1, <2>1, <2>2 DEF Making
  <2> QED BY <2>3, <2>4, <2>5 DEF Story
<1>4. ASSUME NEW r \in Runs, Sleep(r) PROVE Story'
  <2>1. /\ \A q \in Runs : pc'[q] = IF q = r THEN "teardown" ELSE pc[q]
        /\ pc[r] = "sleep"
        /\ UNCHANGED <<objects, object, maker, faulty, healed>>
    BY <1>1, <1>4, RunMoves DEF Sleep, Awake, At, cluster, history
  <2> QED BY <1>1, <2>1 DEF Story, OwnObject, NothingLeft, Making, Active
<1>5. CASE Crash
  <2>1. /\ \A r \in Runs : pc'[r] = IF Active(r) THEN "lost" ELSE pc[r]
        /\ \A r \in Runs : Active(r) \/ r \in faulty => r \in faulty'
        /\ UNCHANGED <<objects, object, maker, healed>>
    BY <1>5 DEF Crash
  <2> QED BY <1>1, <2>1 DEF Story, OwnObject, NothingLeft, Making, Active
<1>6. CASE UNCHANGED vars
  BY <1>1, <1>6 DEF vars, cluster, run, history, Story, OwnObject, NothingLeft, Making, Active
<1> QED BY <1>2, <1>3, <1>4, <1>5, <1>6, CreateStory, UpdateStory, DeleteStory,
           HealerStory, KubernetesStory DEF Next, RunStep

\* The story holds in every reachable state.
LEMMA StoryHolds == Spec => []Story
<1>1. Init => Story
  BY InitTyped DEF Story
<1> QED BY <1>1, StepStory, Invariant, PTL DEF Spec

\* While a run shows the pod or deployment it has made, that is there and its own,
\* and a node it has cordoned is cordoned until another run or a tool writes it,
\* however many runs there are (controller.go:80-93, scenarios.go:51-73, 172-194).
THEOREM Own == Spec => []OwnObject
<1>1. Story => OwnObject
  BY DEF Story
<1> QED BY <1>1, StoryHolds, PTL

\* A run that is over has left nothing broken, unless one of its calls failed or
\* the orchestrator died (controller.go:88-93, scenarios.go:183-194).
THEOREM Clean == Spec => []NothingLeft
<1>1. Story => NothingLeft
  BY DEF Story
<1> QED BY <1>1, StoryHolds, PTL

-----------------------------------------------------------------------------
(* The tools keep their contract.                                           *)

\* Where a call stands is a function of its place.
LEMMA StandsAt ==
  /\ \A p \in {"read", "write"} : Stands(p) = "asked"
  /\ Stands("reply") = "applied"
  /\ \A p \in {"none", "ok", "error"} : Stands(p) = p
BY DEF Stands

\* Each step of a tool is a step of the contract, or none for the caller: a
\* change of the cluster is the one it was asked for, of the object as it is.
LEMMA ToolImplements ==
  ASSUME Inv, NEW c \in Callers, Healer(c)
  PROVE  Contract!Next
<1> DEFINE o == calls[c].target
           i == calls[c].input
           w == calls[c].wish
           S == [d \in Callers |-> Stands(calls[d].pc)]
           T == [d \in Callers |-> calls[d].target]
           I == [d \in Callers |-> calls[d].input]
           W == [d \in Callers |-> calls[d].wish]
<1>1. TypeOK /\ Calls /\ Coherent /\ o \in Objects /\ w \in Wishes
  BY DEF Inv, TypeOK
<1>2. ASSUME NEW p \in Objects, NEW input \in Inputs, NEW wish \in Wishes,
             Call(c, p, input, wish)
      PROVE  Contract!Ask(c)
  <2>1. /\ \A d \in Callers : d # c => calls'[d] = calls[d]
        /\ calls'[c].pc \in {"read", "write"} /\ calls'[c].target = p
        /\ calls'[c].input = input /\ calls'[c].wish = wish /\ Tool(p, input, wish)
        /\ calls[c].pc \in {"none", "ok", "error"}
        /\ objects' = objects
    BY <1>1, <1>2 DEF Call, TypeOK, cluster
  <2>2. Stands(calls[c].pc) \in {"none", "ok", "error"} /\ Stands(calls'[c].pc) = "asked"
    BY <2>1, StandsAt
  <2>3. S' = [S EXCEPT ![c] = "asked"]
    BY <2>1, <2>2
  <2>4. T' = [T EXCEPT ![c] = p] /\ I' = [I EXCEPT ![c] = input] /\ W' = [W EXCEPT ![c] = wish]
    BY <2>1
  <2>5. \E q \in Objects, x \in Inputs, u \in Wishes :
          /\ Tool(q, x, u)
          /\ T' = [T EXCEPT ![c] = q]
          /\ I' = [I EXCEPT ![c] = x] /\ W' = [W EXCEPT ![c] = u]
    <3> HIDE DEF T, I, W
    <3> QED BY <2>1, <2>4
  <2> QED BY <2>1, <2>2, <2>3, <2>5 DEF Contract!Ask
<1>3. ASSUME ToolStep(c)
      PROVE  /\ \A d \in Callers : d # c => calls'[d] = calls[d]
             /\ calls'[c].target = o /\ calls'[c].input = i /\ calls'[c].wish = w
             /\ T' = T /\ I' = I /\ W' = W
  <2>1. /\ \A d \in Callers : d # c => calls'[d] = calls[d]
        /\ calls'[c].target = o /\ calls'[c].input = i /\ calls'[c].wish = w
    BY <1>1, <1>3 DEF ToolStep, Read, Write, Reply, Goes, Leaves, TypeOK
  <2> QED BY <2>1
<1>4. ASSUME ToolStep(c), NEW s, Stands(calls'[c].pc) = s
      PROVE  S' = [S EXCEPT ![c] = s]
  <2>1. \A d \in Callers : d # c => calls'[d] = calls[d]
    BY <1>3, <1>4
  <2> QED BY <1>4, <2>1
<1>5. ASSUME Read(c) PROVE Contract!Others \/ Contract!Answer(c)
  <2>1. /\ calls[c].pc = "read" /\ calls'[c].pc \in {"write", "error"}
        /\ objects' = objects
    BY <1>1, <1>5 DEF Read, Goes, TypeOK
  <2>2. CASE calls'[c].pc = "write"
    <3>1. S' = S
      BY <1>3, <1>5, <2>1, <2>2, StandsAt DEF ToolStep
    <3> QED BY <1>3, <1>5, <3>1 DEF Contract!Others, ToolStep
  <2>3. CASE calls'[c].pc = "error"
    <3>1. S[c] = "asked" /\ S' = [S EXCEPT ![c] = "error"]
      <4>1. Stands(calls[c].pc) = "asked" /\ Stands(calls'[c].pc) = "error"
        BY <2>1, <2>3, StandsAt
      <4> QED BY <1>5, <1>4, <4>1 DEF ToolStep
    <3> QED BY <1>3, <1>5, <2>1, <3>1 DEF Contract!Answer, ToolStep
  <2> QED BY <2>1, <2>2, <2>3
<1>6. ASSUME Write(c) PROVE Contract!Apply(c) \/ Contract!Answer(c)
  <2>1. CASE /\ objects[o] # Absent /\ MayTake(c, o, w)
             /\ Put(o, Granted(calls[c].copy, w)) /\ Leaves(c, "reply")
    <3>1. calls[c].pc = "write" /\ calls'[c].pc = "reply"
      BY <1>1, <1>6, <2>1 DEF Write, Leaves, TypeOK
    <3>2. S[c] = "asked" /\ S' = [S EXCEPT ![c] = "applied"]
      <4>1. Stands(calls[c].pc) = "asked" /\ Stands(calls'[c].pc) = "applied"
        BY <3>1, StandsAt
      <4> QED BY <1>6, <1>4, <4>1 DEF ToolStep
    <3>3. Granted(calls[c].copy, w) = Granted(objects[o], w)
      <4>1. CASE w = "gone"
        BY <4>1 DEF Granted
      <4>2. CASE w # "gone"
        BY <1>1, <2>1, <3>1, <4>2 DEF MayTake, Current, Coherent
      <4> QED BY <4>1, <4>2
    <3>4. objects' = [objects EXCEPT ![o] = Granted(objects[o], w)]
      BY <2>1, <3>3 DEF Put
    <3>5. T[c] = o /\ W[c] = w
      OBVIOUS
    <3> QED BY <1>3, <1>6, <2>1, <3>2, <3>4, <3>5 DEF Contract!Apply, ToolStep
  <2>2. CASE Leaves(c, "error") /\ UNCHANGED objects
    <3>1. calls[c].pc = "write" /\ calls'[c].pc = "error"
      BY <1>1, <1>6, <2>2 DEF Write, Leaves, TypeOK
    <3>2. S[c] = "asked" /\ S' = [S EXCEPT ![c] = "error"]
      <4>1. Stands(calls[c].pc) = "asked" /\ Stands(calls'[c].pc) = "error"
        BY <3>1, StandsAt
      <4> QED BY <1>6, <1>4, <4>1 DEF ToolStep
    <3> QED BY <1>3, <1>6, <2>2, <3>2 DEF Contract!Answer, ToolStep
  <2> QED BY <1>6, <2>1, <2>2 DEF Write
<1>7. ASSUME Reply(c) PROVE Contract!Answer(c)
  <2>1. /\ calls[c].pc = "reply" /\ calls'[c].pc \in {"ok", "error"}
        /\ objects' = objects
    BY <1>1, <1>7 DEF Reply, Goes, TypeOK, cluster
  <2>2. S[c] = "applied" /\ \/ S' = [S EXCEPT ![c] = "ok"]
                            \/ S' = [S EXCEPT ![c] = "error"]
    <3>1. /\ Stands(calls[c].pc) = "applied"
          /\ Stands(calls'[c].pc) = "ok" \/ Stands(calls'[c].pc) = "error"
      BY <2>1, StandsAt
    <3> QED BY <1>7, <1>4, <3>1 DEF ToolStep
  <2> QED BY <1>3, <1>7, <2>1, <2>2 DEF Contract!Answer, ToolStep
<1> QED BY <1>2, <1>5, <1>6, <1>7 DEF Healer, ToolStep, Contract!Next

\* A run, a crash or Kubernetes is another writer to the tools.
LEMMA OthersImplement ==
  ASSUME UNCHANGED calls
  PROVE  Contract!Next
BY DEF Contract!Next, Contract!Others

\* For any number of sessions, runs, writers and objects, a write tool takes
\* effect at one moment, at most once, and never undoes what somebody else has
\* written between its read and its write (tools.go:208-251).
THEOREM Refines == Spec => ImplementsToolContract
<1>1. Init => Contract!Init
  <2> SUFFICES ASSUME Init PROVE Contract!Init
    OBVIOUS
  <2>1. \A c \in Callers : Stands(calls[c].pc) = "none"
    BY StandsAt DEF Init, NoCall
  <2> QED BY <2>1 DEF Contract!Init
<1>2. ASSUME Inv, [Next]_vars PROVE [Contract!Next]_Contract!vars
  <2>1. CASE UNCHANGED vars
    BY <2>1, OthersImplement DEF vars
  <2>2. ASSUME NEW c \in Callers, Healer(c) PROVE Contract!Next
    BY <1>2, <2>2, ToolImplements
  <2>3. CASE UNCHANGED calls
    BY <2>3, OthersImplement
  <2> QED BY <1>2, <2>1, <2>2, <2>3
      DEF Next, RunStep, RunScenario, Create, Look, Update, Sleep, Delete, Crash, Kubernetes
<1> QED BY <1>1, <1>2, Invariant, PTL DEF Spec, ImplementsToolContract
==============================================================================

----------------------------- MODULE ToolContract -----------------------------
(***************************************************************************)
(* What the healing agent relies on when it lets a write tool run (the     *)
(* answers of internal/healing/tools.go: "wurde geloescht", "wurde auf %d  *)
(* Replicas skaliert"): the call takes effect at one moment, at most once, *)
(* on the object it names, and changes nothing of that object but what the *)
(* tool takes its input for; success is answered only when it took effect, *)
(* failure in either case.  The rest of the world goes on as it likes.     *)
(* What an input is taken for is a parameter: the contract promises one    *)
(* reading per call, not that it is the one meant.  Executor implements    *)
(* this specification.                                                     *)
(***************************************************************************)
CONSTANTS
  Callers,        \* sessions that call tools
  Objects,        \* objects of the cluster
  Inputs,         \* what the input of a call may say
  Wishes,         \* what a tool may be about to do
  Absent,         \* the content of an object that is not there
  Tool(_, _, _),  \* a tool for this object takes this input for this wish
  Granted(_, _)   \* the content a wish makes of a content

VARIABLES
  world,          \* the content of each object
  state,          \* where the call of a caller stands
  target,         \* the object it names
  input,          \* what its input says
  wish            \* what the tool has taken it for

vars == <<world, state, target, input, wish>>

Init == state = [c \in Callers |-> "none"]

Ask(c) ==
  /\ state[c] \in {"none", "ok", "error"}
  /\ state' = [state EXCEPT ![c] = "asked"]
  /\ \E o \in Objects, i \in Inputs, w \in Wishes :
       /\ Tool(o, i, w)
       /\ target' = [target EXCEPT ![c] = o]
       /\ input' = [input EXCEPT ![c] = i] /\ wish' = [wish EXCEPT ![c] = w]
  /\ UNCHANGED world

Apply(c) ==
  /\ state[c] = "asked" /\ world[target[c]] # Absent
  /\ state' = [state EXCEPT ![c] = "applied"]
  /\ world' = [world EXCEPT ![target[c]] = Granted(@, wish[c])]
  /\ UNCHANGED <<target, input, wish>>

Answer(c) ==
  /\ \/ state[c] = "applied" /\ state' = [state EXCEPT ![c] = "ok"]
     \/ state[c] \in {"asked", "applied"} /\ state' = [state EXCEPT ![c] = "error"]
  /\ UNCHANGED <<world, target, input, wish>>

Others == UNCHANGED <<state, target, input, wish>>

Next == Others \/ \E c \in Callers : Ask(c) \/ Apply(c) \/ Answer(c)

Spec == Init /\ [][Next]_vars
==============================================================================

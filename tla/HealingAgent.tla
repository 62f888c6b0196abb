---------------------------- MODULE HealingAgent -----------------------------
(***************************************************************************)
(* One healing session: the goroutine Agent.run of internal/healing/       *)
(* agent.go, the approval channel that ApproveAction fills and the context *)
(* the session was started with.  The goroutine calls Claude, appends the  *)
(* answer's texts to the dialog, then treats the answer's tool calls one   *)
(* by one: a write tool waits for the administrator according to the       *)
(* session's autonomy mode, and every call is executed (or rejected) and   *)
(* recorded before Claude is called again.                                 *)
(*                                                                         *)
(* A call is identified by its position in the session: the n-th tool call *)
(* is the n-th recorded action.  A click is identified by its position in  *)
(* the sequence of clicks the channel accepted.  The two are numbers where *)
(* the code has none, which lets the properties ask which click paid for   *)
(* which change.                                                           *)
(***************************************************************************)
EXTENDS Naturals, Sequences

CONSTANTS
  Modes,          \* values of autonomy_mode a start request may carry
  Tools,          \* tool names that occur in Claude's answers
  MaxIter,        \* Claude calls per session (20 in the code)
  MaxTexts,       \* bound: text blocks in one answer
  MaxToolUses,    \* bound: tool calls in one answer
  MaxClicks,      \* bound: approval requests the channel accepts
  EventCap        \* capacity of the events channel (100 in the code)

ASSUME BoundsAssumption ==
  /\ MaxIter \in Nat /\ MaxTexts \in Nat /\ MaxToolUses \in Nat
  /\ MaxClicks \in Nat /\ EventCap \in Nat

VARIABLES
  mode,           \* session.AutonomyMode; StartSession takes it unchecked
  pc,             \* where the goroutine stands
  status,         \* session.Status
  iter,           \* the loop variable i
  texts,          \* text blocks of the answer still to be appended
  todo,           \* the tail of toolUses still to be treated
  endTurn,        \* resp.StopReason = "end_turn"
  asked,          \* Len(toolUses) of the answer
  results,        \* Len(toolResults)
  approval,       \* the click in the approval channel, 0 when it is empty
  clicks,         \* history: the accepted clicks and the prompt they answer
  current,        \* the call in hand: the click it took, how it came out
  actions,        \* session.Actions
  effects,        \* history: the calls that changed the cluster
  dialog,         \* Len(session.Dialog)
  buffered,       \* Len(events); nobody receives from the channel
  ctxDone         \* has the session's context been cancelled?

answer == <<texts, todo, endTurn, asked, results>>
vars == <<mode, pc, status, iter, answer, approval, clicks, current,
          actions, effects, dialog, buffered, ctxDone>>

Statuses == {"running", "healed", "failed", "aborted"}
WriteTools == {"delete_pod", "scale_deployment", "cordon_node", "uncordon_node"}
ReadTools == {"get_pod_logs", "get_events", "describe_resource",
              "get_node_status"}

\* IsWriteTool: only the four listed names are held back for approval.
IsWriteTool(tool) == tool \in WriteTools

\* The call the goroutine has in hand.
Call == Len(actions) + 1

NoCall == [click |-> 0, outcome |-> "none"]

-----------------------------------------------------------------------------
(* The session starts: StartSession has registered it and spawned run.      *)

Init ==
  /\ mode \in Modes
  /\ pc = "start"
  /\ status = "running"
  /\ iter = 0
  /\ texts = 0 /\ todo = <<>> /\ endTurn = FALSE /\ asked = 0 /\ results = 0
  /\ approval = 0
  /\ clicks = <<>>
  /\ current = NoCall
  /\ actions = <<>>
  /\ effects = {}
  /\ dialog = 0
  /\ buffered = 0
  /\ ctxDone = FALSE

\* MUTANT of Emit: a plain send, which blocks when the buffer is full.
EmitBlocking(n) ==
  /\ buffered + n <= EventCap
  /\ buffered' = buffered + n

\* MUTANT of Emit: an event is sent as long as the buffer was not overfull.
EmitPastCap(n) ==
  buffered' = IF buffered <= EventCap THEN buffered + n ELSE EventCap

\* emit: n sends to the events channel; a full channel drops the event.
Emit(n) ==
  buffered' = IF buffered + n <= EventCap THEN buffered + n ELSE EventCap

\* MUTANT of Finalize: the caller forgets to return after it.
FinalizeAndGoOn(verdict) ==
  /\ status' = verdict
  /\ pc' = "tools"

\* finalizeSession writes Status first; Result and FinishedAt follow (Close).
Finalize(verdict) ==
  /\ status' = verdict
  /\ pc' = "closing"

-----------------------------------------------------------------------------
(* The goroutine.                                                           *)

\* The problem's description opens the dialog.
Open ==
  /\ pc = "start"
  /\ dialog' = dialog + 1
  /\ pc' = "loop"
  /\ UNCHANGED <<mode, status, iter, answer, approval, clicks, current,
                 actions, effects, buffered, ctxDone>>

\* Messages.New returns an answer: some texts, some tool calls, a stop reason.
Answer ==
  /\ pc = "loop" /\ iter < MaxIter
  /\ ~ctxDone
  /\ texts' \in 0..MaxTexts
  /\ \E n \in 0..MaxToolUses : todo' \in [1..n -> Tools]
  /\ endTurn' \in BOOLEAN
  /\ asked' = Len(todo')
  /\ results' = 0
  /\ pc' = "blocks"
  /\ UNCHANGED <<mode, status, iter, approval, clicks, current,
                 actions, effects, dialog, buffered, ctxDone>>

\* Messages.New returns an error: the service, the network, or the context.
ClaudeFails ==
  /\ pc = "loop" /\ iter < MaxIter
  /\ Emit(1)
  /\ Finalize("failed")
  /\ UNCHANGED <<mode, iter, answer, approval, clicks, current,
                 actions, effects, dialog, ctxDone>>

\* One text block joins the dialog.
AppendText ==
  /\ pc = "blocks" /\ texts > 0
  /\ texts' = texts - 1
  /\ dialog' = dialog + 1
  /\ Emit(1)
  /\ UNCHANGED <<mode, pc, status, iter, todo, endTurn, asked, results,
                 approval, clicks, current, actions, effects, ctxDone>>

\* An answer without tool calls, or one that ends the turn, ends the session.
Heal ==
  /\ pc = "blocks" /\ texts = 0
  /\ todo = <<>> \/ endTurn
  /\ Finalize("healed")
  /\ Emit(1)
  /\ UNCHANGED <<mode, iter, answer, approval, clicks, current,
                 actions, effects, dialog, ctxDone>>

\* Otherwise its tool calls are treated in order.
UseTools ==
  /\ pc = "blocks" /\ texts = 0
  /\ todo # <<>> /\ ~endTurn
  /\ pc' = "tools"
  /\ UNCHANGED <<mode, status, iter, answer, approval, clicks, current,
                 actions, effects, dialog, buffered, ctxDone>>

\* MUTANT of Gated: COUNTDOWN and MANUAL compared with the wrong names.
GatedByCountdownOnly(tool) == IsWriteTool(tool) /\ mode = "COUNTDOWN"

\* The calls that wait for the administrator.
Gated(tool) == IsWriteTool(tool) /\ mode \in {"MANUAL", "COUNTDOWN"}

\* The next call is announced; a gated one also asks for approval.
Announce ==
  /\ pc = "tools" /\ todo # <<>>
  /\ \/ /\ Gated(Head(todo))
        /\ pc' = "await"
        /\ Emit(2)
     \/ /\ ~Gated(Head(todo))
        /\ pc' = "exec"
        /\ Emit(1)
  /\ UNCHANGED <<mode, status, iter, answer, approval, clicks, current,
                 actions, effects, dialog, ctxDone>>

\* The announced write whose fate is still open, 0 when there is none.
Pending ==
  IF pc \in {"await", "exec"} /\ Gated(Head(todo)) THEN Call ELSE 0

\* MUTANT of Take: the click is looked at but left in the channel.
Peek == UNCHANGED approval

\* A receive empties the channel.
Take == approval' = 0

\* The select receives a click; a rejected call is not executed.
Decide ==
  /\ pc = "await" /\ approval # 0
  /\ Take
  /\ \/ /\ clicks[approval].approved
        /\ current' = [NoCall EXCEPT !.click = approval]
        /\ pc' = "exec"
     \/ /\ ~clicks[approval].approved
        /\ current' = [click |-> approval, outcome |-> "rejected"]
        /\ pc' = "record"
  /\ UNCHANGED <<mode, status, iter, answer, clicks, actions, effects,
                 dialog, buffered, ctxDone>>

\* The countdown runs out.  A click may be waiting: select then picks either.
TimerFires ==
  /\ pc = "await" /\ mode = "COUNTDOWN"
  /\ pc' = "exec"
  /\ UNCHANGED <<mode, status, iter, answer, approval, clicks, current,
                 actions, effects, dialog, buffered, ctxDone>>

\* The context ends while a call waits: the session is aborted.
Abort ==
  /\ pc = "await" /\ ctxDone
  /\ Finalize("aborted")
  /\ Emit(IF mode = "MANUAL" THEN 1 ELSE 0)
  /\ UNCHANGED <<mode, iter, answer, approval, clicks, current,
                 actions, effects, dialog, ctxDone>>

\* Execute's contract.  A failed write may have reached the cluster all the
\* same (a lost reply).  Nothing leaves the process once the context is done;
\* describe_resource answers an unsupported kind without asking the cluster.
ExecutorMay(tool, outcome, changed) ==
  /\ outcome = "ok" =>
       /\ tool \in ReadTools \cup WriteTools
       /\ ctxDone => tool = "describe_resource"
       /\ tool \in WriteTools => changed
  /\ changed => tool \in WriteTools /\ ~ctxDone

\* MUTANT of Executed: a failed call is retried instead of recorded.
ExecutedUnlessFailed(outcome) ==
  /\ current' = [current EXCEPT !.outcome = outcome]
  /\ pc' = IF outcome = "ok" THEN "record" ELSE "tools"

\* Success or error, the call goes on to be recorded.
Executed(outcome) ==
  /\ current' = [current EXCEPT !.outcome = outcome]
  /\ pc' = "record"

Execute ==
  /\ pc = "exec"
  /\ \E outcome \in {"ok", "error"}, changed \in BOOLEAN :
       /\ ExecutorMay(Head(todo), outcome, changed)
       /\ effects' = IF changed THEN effects \cup {Call} ELSE effects
       /\ Executed(outcome)
  /\ UNCHANGED <<mode, status, iter, answer, approval, clicks, actions,
                 dialog, buffered, ctxDone>>

\* MUTANT of ToolResult: a rejected call gets no tool_result block.
ToolResultUnlessRejected ==
  results' = IF current.outcome = "rejected" THEN results ELSE results + 1

\* Every call, rejected ones included, answers Claude with a tool_result.
ToolResult == results' = results + 1

\* The call is appended to session.Actions.
Record ==
  /\ pc = "record"
  /\ actions' = Append(actions, [tool |-> Head(todo), click |-> current.click,
                                 outcome |-> current.outcome])
  /\ todo' = Tail(todo)
  /\ current' = NoCall
  /\ ToolResult
  /\ pc' = "tools"
  /\ Emit(1)
  /\ UNCHANGED <<mode, status, iter, texts, endTurn, asked, approval,
                 clicks, effects, dialog, ctxDone>>

\* All calls treated: their results go to Claude in the next iteration.
EndTools ==
  /\ pc = "tools" /\ todo = <<>>
  /\ iter' = iter + 1
  /\ pc' = "loop"
  /\ UNCHANGED <<mode, status, answer, approval, clicks, current,
                 actions, effects, dialog, buffered, ctxDone>>

\* The iterations are used up.
Exhausted ==
  /\ pc = "loop" /\ iter = MaxIter
  /\ Finalize("failed")
  /\ Emit(1)
  /\ UNCHANGED <<mode, iter, answer, approval, clicks, current,
                 actions, effects, dialog, ctxDone>>

\* The rest of finalizeSession: Result and FinishedAt.
Close ==
  /\ pc = "closing"
  /\ pc' = "done"
  /\ UNCHANGED <<mode, status, iter, answer, approval, clicks, current,
                 actions, effects, dialog, buffered, ctxDone>>

Run ==
  \/ Open \/ Answer \/ ClaudeFails \/ AppendText \/ Heal \/ UseTools
  \/ Announce \/ Decide \/ TimerFires \/ Abort \/ Execute \/ Record
  \/ EndTools \/ Exhausted \/ Close

-----------------------------------------------------------------------------
(* The session's environment.                                               *)

\* ApproveAction: a non-blocking send to the channel of capacity one.  When
\* the channel is full the caller gets "no pending approval".
ApproveAction(approved) ==
  /\ Len(clicks) < MaxClicks
  /\ approval = 0
  /\ approval' = Len(clicks) + 1
  /\ clicks' = Append(clicks, [approved |-> approved, prompt |-> Pending])
  /\ UNCHANGED <<mode, pc, status, iter, answer, current, actions,
                 effects, dialog, buffered, ctxDone>>

\* The owner of the session's context cancels it.
CancelContext ==
  /\ ~ctxDone
  /\ ctxDone' = TRUE
  /\ UNCHANGED <<mode, pc, status, iter, answer, approval, clicks,
                 current, actions, effects, dialog, buffered>>

Next ==
  \/ Run
  \/ \E approved \in BOOLEAN : ApproveAction(approved)
  \/ CancelContext

\* The Go scheduler runs the goroutine; Claude and the cluster answer or time
\* out (both clients have deadlines), and a countdown runs out.  Nobody is
\* obliged to click or to cancel.
Fairness == WF_vars(Run)

Spec == Init /\ [][Next]_vars /\ Fairness

-----------------------------------------------------------------------------
(* What the session guarantees.                                             *)

\* Every variable has its type; a click still in the channel is the last one
\* that was accepted.
TypeOK ==
  /\ mode \in Modes
  /\ pc \in {"start", "loop", "blocks", "tools", "await", "exec", "record",
             "closing", "done"}
  /\ status \in Statuses
  /\ iter \in 0..MaxIter
  /\ texts \in Nat /\ todo \in Seq(Tools) /\ endTurn \in BOOLEAN
  /\ asked \in Nat /\ results \in Nat
  /\ clicks \in Seq([approved : BOOLEAN, prompt : Nat])
  /\ approval \in {0, Len(clicks)}
  /\ current \in [click : Nat, outcome : {"none", "ok", "error", "rejected"}]
  /\ actions \in Seq([tool : Tools, click : Nat,
                      outcome : {"ok", "error", "rejected"}])
  /\ effects \subseteq Nat
  /\ dialog \in Nat
  /\ buffered \in 0..EventCap
  /\ ctxDone \in BOOLEAN

\* The click that decided the n-th call, 0 when none did.
ClickOf(n) == IF n <= Len(actions) THEN actions[n].click ELSE current.click

\* In MANUAL mode every change of the cluster was decided by a click; in any
\* mode a click that decided a change approved it, and it decided no other
\* change (agent.go:220-270: the gate before Execute, the emptied channel).
OneClickOneChange ==
  \A n \in effects :
    /\ mode = "MANUAL" => ClickOf(n) # 0
    /\ ClickOf(n) # 0 =>
         /\ clicks[ClickOf(n)].approved
         /\ \A m \in effects \ {n} : ClickOf(m) # ClickOf(n)

\* The recorded actions tell the truth about the cluster: a change is on
\* record as an executed write, or is the call about to be recorded, and a
\* write on record as done did change the cluster (agent.go:275-289).
AuditTrail ==
  /\ \A n \in effects :
       \/ /\ n \in DOMAIN actions
          /\ IsWriteTool(actions[n].tool)
          /\ actions[n].outcome # "rejected"
       \/ n = Call /\ pc = "record" /\ IsWriteTool(Head(todo))
  /\ \A n \in DOMAIN actions :
       IsWriteTool(actions[n].tool) /\ actions[n].outcome = "ok" => n \in effects

\* Claude is called again only with one tool_result for each tool call of its
\* last answer, as its API demands; rejected and failed calls are no exception
\* (agent.go:212-294).
ToolResultsComplete ==
  /\ results + Len(todo) = asked
  /\ pc = "loop" => results = asked

\* Once the session has left "running", its verdict, its records and the
\* cluster stay as they are: no call is executed or recorded behind the back
\* of a reader who saw the verdict (agent.go:179, 206, 238, 264, 297).
FinalIsFinal ==
  [][status # "running" => UNCHANGED <<status, actions, effects, dialog>>]_vars

\* Calls to Claude still to come, the one under way included; and what is left
\* to do before the next one: four steps for each tool call.
CallsLeft ==
  CASE pc \in {"start", "loop"} -> MaxIter - iter + 1
    [] pc \in {"blocks", "tools", "await", "exec", "record"} -> MaxIter - iter
    [] OTHER -> 0

WorkLeft ==
  CASE pc \in {"start", "closing"} -> 1
    [] pc = "blocks" -> texts + 4 * Len(todo) + 2
    [] pc = "tools" -> 4 * Len(todo) + 1
    [] pc = "await" -> 4 * Len(todo)
    [] pc = "exec" -> 4 * Len(todo) - 1
    [] pc = "record" -> 4 * Len(todo) - 2
    [] OTHER -> 0

\* A call fewer, or as many and less work.
Closer ==
  CallsLeft' < CallsLeft \/ (CallsLeft' = CallsLeft /\ WorkLeft' < WorkLeft)

\* No session goes on for ever: whatever Claude answers, however calls fail and
\* clicks come, each step of the goroutine uses up a call to Claude or work that
\* the last answer gave it, and nobody else adds to either (agent.go:166-298).
ComesCloser ==
  [][IF Run THEN Closer ELSE UNCHANGED <<CallsLeft, WorkLeft>>]_vars

\* A session that need not wait for a click, or whose context is over, comes
\* to an end although nobody empties the events channel (agent.go:135-140).
Finishes == (mode # "MANUAL" \/ ctxDone) ~> (pc = "done")

\* The session is a WriteGate: the tickets are the approvals waiting in the
\* channel or taken by the call about to be executed.
Tickets ==
  (IF approval # 0 THEN {k \in {approval} : clicks[k].approved} ELSE {})
    \cup (IF pc = "exec" THEN {current.click} \ {0} ELSE {})

Gate == INSTANCE WriteGate WITH
  gateMode <- mode, issued <- Len(clicks), tickets <- Tickets,
  applied <- effects, over <- (status # "running")

\* In MANUAL mode each change spends an approval given before and no approval
\* is spent twice; a session that is over changes nothing (ARCHITECTURE.md,
\* "Autonomie-Modi").
ImplementsWriteGate == Gate!Init /\ [][Gate!Next]_Gate!vars

-----------------------------------------------------------------------------
(* What the code's comments and documents promise and the code does not.    *)

\* "ApproveAction approves or rejects a pending write tool execution": the
\* click that lets a write pass was given for that write (agent.go:99-113).
FreshConsent ==
  \A n \in effects : ClickOf(n) # 0 => clicks[ClickOf(n)].prompt = n
==============================================================================

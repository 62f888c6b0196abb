---------------------------- MODULE HealingStream ----------------------------
(***************************************************************************)
(* A healing session as its two HTTP handlers and the browser see it:      *)
(* internal/api/healing.go over HealingAgent, and web/app/src/components/  *)
(* HealingStream.tsx.                                                      *)
(*                                                                         *)
(* The start handler lends the session its request's context, which ends   *)
(* when the handler returns: HealingAgent's CancelContext is that return.  *)
(* The stream handler never receives from the events channel; every half   *)
(* second it reads the session itself, without the agent's lock.  Its      *)
(* steps are therefore single reads of the shared state, and the newest    *)
(* element of a slice may be read before the agent has filled it in.       *)
(***************************************************************************)
EXTENDS HealingAgent

VARIABLES
  fresh,          \* the slice whose newest element is not filled in yet
  spc,            \* where the stream handler stands
  next,           \* the loop variables i, counted from 0
  lastDialog,     \* lastDialogCount
  lastAction,     \* lastActionCount
  connected,      \* does the connection to the browser hold?
  shown           \* the events the browser has received

handler == <<spc, next, lastDialog, lastAction>>
browser == <<connected, shown>>
streamVars == <<vars, fresh, handler, browser>>

StreamInit ==
  /\ Init
  /\ fresh = "none"
  /\ spc = "closed"
  /\ next = 0 /\ lastDialog = 0 /\ lastAction = 0
  /\ connected = FALSE
  /\ shown = <<>>

-----------------------------------------------------------------------------
(* The session.                                                             *)

\* An append stores the slice's new length before the element.
Appending ==
  IF dialog' # dialog THEN "dialog"
  ELSE IF actions' # actions THEN "actions" ELSE "none"

AgentStep ==
  /\ fresh = "none"
  /\ Run
  /\ fresh' = Appending
  /\ UNCHANGED <<handler, browser>>

\* The element is stored; only then does the agent go on.
Settle ==
  /\ fresh # "none"
  /\ fresh' = "none"
  /\ UNCHANGED <<vars, handler, browser>>

\* The start handler returns, and net/http cancels the request's context.
StartReturns ==
  /\ CancelContext
  /\ UNCHANGED <<fresh, handler, browser>>

Click ==
  /\ \E approved \in BOOLEAN : ApproveAction(approved)
  /\ UNCHANGED <<fresh, handler, browser>>

-----------------------------------------------------------------------------
(* The stream handler.                                                      *)

Session == <<vars, fresh>>

\* An event is written; a broken connection's error is ignored.
Write(kind, n, whole) ==
  shown' = IF connected
           THEN Append(shown, [kind |-> kind, n |-> n, whole |-> whole])
           ELSE shown

At(from, to) == spc = from /\ spc' = to

\* EventSource opens the stream of a session that exists.
Connect ==
  /\ At("closed", "wait")
  /\ connected' = TRUE
  /\ UNCHANGED <<Session, next, lastDialog, lastAction, shown>>

\* The ticker fires.
Tick ==
  /\ At("wait", "dialog")
  /\ next' = lastDialog
  /\ UNCHANGED <<Session, lastDialog, lastAction, browser>>

\* Element n of a slice, read without the lock, is whole unless it is the
\* newest one and the agent is still storing it.
Reads(slice, n, len) == IF fresh = slice /\ n = len THEN BOOLEAN ELSE {TRUE}

\* One more message, as long as the loop finds one.
SendText ==
  /\ spc = "dialog" /\ next < dialog
  /\ \E whole \in Reads("dialog", next + 1, dialog) :
       Write("text", next + 1, whole)
  /\ next' = next + 1
  /\ UNCHANGED <<Session, spc, lastDialog, lastAction, connected>>

TextsEnd ==
  /\ next >= dialog
  /\ At("dialog", "mark")
  /\ UNCHANGED <<Session, next, lastDialog, lastAction, browser>>

\* MUTANT of Mark: the last element sent is counted out.
MarkOneLess(i, len) == {IF i = 0 THEN 0 ELSE i - 1}

\* MUTANT of Mark: off by one the other way.
MarkOneMore(i, len) == {i + 1}

\* len(session.Dialog) once more: a compiler may use the loop's last reading
\* or read again.
Mark(i, len) == {i, len}

MarkDialog ==
  /\ At("mark", "actions")
  /\ lastDialog' \in Mark(next, dialog)
  /\ next' = lastAction
  /\ UNCHANGED <<Session, lastAction, browser>>

SendAction ==
  /\ spc = "actions" /\ next < Len(actions)
  /\ \E whole \in Reads("actions", next + 1, Len(actions)) :
       Write("tool_result", next + 1, whole)
  /\ next' = next + 1
  /\ UNCHANGED <<Session, spc, lastDialog, lastAction, connected>>

ActionsEnd ==
  /\ next >= Len(actions)
  /\ At("actions", "markActions")
  /\ UNCHANGED <<Session, next, lastDialog, lastAction, browser>>

MarkActions ==
  /\ At("markActions", "status")
  /\ lastAction' \in Mark(next, Len(actions))
  /\ UNCHANGED <<Session, next, lastDialog, browser>>

StillRunning ==
  /\ status = "running"
  /\ At("status", "wait")
  /\ UNCHANGED <<Session, next, lastDialog, lastAction, browser>>

\* The verdict; Result may not be there yet when Status already is.
SendDone ==
  /\ status # "running"
  /\ At("status", "ended")
  /\ Write("done", 1, pc = "done")
  /\ UNCHANGED <<Session, next, lastDialog, lastAction, connected>>

\* select sees that the request is over; the ticker may win a few times.
Leave ==
  /\ ~connected
  /\ At("wait", "ended")
  /\ UNCHANGED <<Session, next, lastDialog, lastAction, browser>>

Stream ==
  \/ Tick \/ SendText \/ TextsEnd \/ MarkDialog
  \/ SendAction \/ ActionsEnd \/ MarkActions
  \/ StillRunning \/ SendDone \/ Leave

\* The dialog is closed, the network fails, or the server's WriteTimeout of 30
\* seconds has passed; the browser does not connect again.
Cut ==
  /\ connected
  /\ connected' = FALSE
  /\ UNCHANGED <<Session, handler, shown>>

StreamNext ==
  AgentStep \/ Settle \/ StartReturns \/ Click \/ Connect \/ Stream \/ Cut

\* The goroutines run, calls return and the ticker ticks.
StreamFairness ==
  /\ WF_streamVars(AgentStep \/ Settle)
  /\ WF_streamVars(StartReturns)
  /\ WF_streamVars(Stream)

StreamSpec == StreamInit /\ [][StreamNext]_streamVars /\ StreamFairness

-----------------------------------------------------------------------------
(* What the browser can rely on.                                            *)

\* Every variable has its type; the handler counts no element twice and none
\* that does not exist.
StreamTypeOK ==
  /\ fresh \in {"none", "dialog", "actions"}
  /\ spc \in {"closed", "wait", "dialog", "mark", "actions", "markActions",
              "status", "ended"}
  /\ next \in 0..(IF spc \in {"dialog", "mark"} THEN dialog ELSE Len(actions))
  /\ lastDialog \in 0..dialog /\ lastAction \in 0..Len(actions)
  /\ connected \in BOOLEAN
  /\ shown \in Seq([kind : {"text", "tool_result", "done"}, n : Nat \ {0},
                    whole : BOOLEAN])

\* Has the browser been told that the session is over?
Told == \E k \in DOMAIN shown : shown[k].kind = "done"

\* The browser never sees a message or a result twice or in the wrong order,
\* whatever the agent appends meanwhile, and nothing after the verdict
\* (healing.go:130-173).
InOrder ==
  \A k \in DOMAIN shown : \A j \in 1..k - 1 :
    /\ shown[j].kind # "done"
    /\ shown[j].kind = shown[k].kind => shown[j].n < shown[k].n

\* Who has seen the end sees a session at rest: the cluster is not touched any
\* more, and a click changes nothing (healing.go:165-172, agent.go:206, 238).
RestAfterEnd == [][Told => UNCHANGED <<effects, actions, status, shown>>]_streamVars

\* Every opened stream comes to an end, although neither the browser nor the
\* administrator does anything (healing.go:130-175, 67).
StreamEnds == (spc # "closed") ~> (spc = "ended")

-----------------------------------------------------------------------------
(* What the documents and comments promise and the code does not keep.      *)

\* "MANUAL -> Pause -> ... Admin klickt": a session that pauses for the
\* administrator is ended by nobody else; there is no way to cancel it.
WaitsForAdmin == status # "aborted"
==============================================================================

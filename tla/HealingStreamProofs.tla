-------------------------- MODULE HealingStreamProofs --------------------------
(***************************************************************************)
(* Theorems about HealingStream, for sessions of any length watched through *)
(* a stream that starts and breaks at any moment.  The stream's order       *)
(* follows from Behind: the handler's positions are never below what it has *)
(* written, and only a handler that has ended has written the end.          *)
(***************************************************************************)
EXTENDS HealingStream, HealingAgentProofs

\* How many messages and results the handler takes for written.
TextsSent == IF spc \in {"dialog", "mark"} THEN next ELSE lastDialog
ActionsSent == IF spc \in {"actions", "markActions"} THEN next ELSE lastAction

Behind ==
  \A k \in DOMAIN shown :
    /\ shown[k].kind = "text" => shown[k].n <= TextsSent
    /\ shown[k].kind = "tool_result" => shown[k].n <= ActionsSent
    /\ shown[k].kind = "done" => spc = "ended" /\ status # "running"

StreamInv == Inv /\ StreamTypeOK /\ Behind /\ InOrder

Event == [kind : {"text", "tool_result", "done"}, n : Nat \ {0}, whole : BOOLEAN]

-----------------------------------------------------------------------------
(* The session under its handlers.                                          *)

\* Whatever the handlers and the browser do, the session takes steps of its own
\* or none.
LEMMA SessionStep == [StreamNext]_streamVars => [Next]_vars
<1> SUFFICES ASSUME [StreamNext]_streamVars PROVE [Next]_vars
  OBVIOUS
<1>1. CASE AgentStep
  BY <1>1 DEF AgentStep, Next
<1>2. CASE Settle
  BY <1>2 DEF Settle
<1>3. CASE StartReturns
  BY <1>3 DEF StartReturns, Next
<1>4. CASE Click
  BY <1>4 DEF Click, Next
<1>5. CASE Connect
  BY <1>5 DEF Connect, Session
<1>6. CASE Stream
  BY <1>6 DEF Stream, Tick, SendText, TextsEnd, MarkDialog, SendAction, ActionsEnd,
              MarkActions, StillRunning, SendDone, Leave, Session
<1>7. CASE Cut
  BY <1>7 DEF Cut, Session
<1>8. CASE UNCHANGED streamVars
  BY <1>8 DEF streamVars
<1> QED BY <1>1, <1>2, <1>3, <1>4, <1>5, <1>6, <1>7, <1>8 DEF StreamNext

\* The dialog and the actions only grow.
LEMMA Grows ==
  ASSUME Inv, [Next]_vars
  PROVE  /\ dialog \in Nat /\ dialog' \in Nat /\ dialog <= dialog'
         /\ Len(actions) \in Nat /\ Len(actions') \in Nat
         /\ Len(actions) <= Len(actions')
<1>1. TypeOK /\ TypeOK'
  BY InvStep DEF Inv
<1>2. dialog \in Nat /\ dialog' \in Nat /\ Len(actions) \in Nat /\ Len(actions') \in Nat
  <2>1. /\ actions \in Seq([tool : Tools, click : Nat,
                          outcome : {"ok", "error", "rejected"}])
        /\ actions' \in Seq([tool : Tools, click : Nat,
                           outcome : {"ok", "error", "rejected"}])
    BY <1>1 DEF TypeOK
  <2>2. dialog \in Nat /\ dialog' \in Nat
    BY <1>1 DEF TypeOK
  <2> QED BY <2>1, <2>2
<1>3. dialog' = dialog \/ dialog' = dialog + 1
  BY DEF Next, Run, Open, Answer, ClaudeFails, AppendText, Heal, UseTools, Announce,
         Decide, TimerFires, Abort, Execute, Record, EndTools, Exhausted, Close,
         ApproveAction, CancelContext, vars
<1>4. Len(actions') = Len(actions) \/ Len(actions') = Len(actions) + 1
  <2>1. CASE Record
    BY <2>1, <1>1, <1>2, Clicks DEF Call, Inv
  <2>2. CASE ~Record
    <3>1. actions' = actions
      BY <2>2 DEF Next, Run, Open, Answer, ClaudeFails, AppendText, Heal, UseTools,
         Announce, Decide, TimerFires, Abort, Execute, EndTools, Exhausted, Close,
         ApproveAction, CancelContext, vars
    <3> QED BY <3>1
  <2> QED BY <2>1, <2>2
<1> QED BY <1>2, <1>3, <1>4

-----------------------------------------------------------------------------
(* The stream.                                                              *)

\* At the start nothing has been sent.
LEMMA StreamInitially == StreamInit => StreamInv
<1> SUFFICES ASSUME StreamInit PROVE StreamInv
  OBVIOUS
<1>1. Inv /\ dialog = 0 /\ Len(actions) = 0
  BY Initially DEF StreamInit, Init
<1>2. StreamTypeOK
  <2>1. \A S : <<>> \in Seq(S)
    OBVIOUS
  <2>2. 0 \in 0..dialog /\ 0 \in 0..Len(actions)
    BY <1>1
  <2>3. shown \in Seq([kind : {"text", "tool_result", "done"}, n : Nat \ {0},
                      whole : BOOLEAN])
    BY <2>1 DEF StreamInit
  <2> QED BY <2>2, <2>3 DEF StreamInit, StreamTypeOK
<1> QED BY <1>1, <1>2 DEF StreamInit, StreamInv, Behind, InOrder

\* A step that writes nothing keeps the order, as long as the handler's positions
\* do not go back.
LEMMA Silent ==
  ASSUME StreamInv, Inv', StreamTypeOK', shown' = shown,
         TextsSent <= TextsSent', ActionsSent <= ActionsSent',
         spc = "ended" => spc' = "ended", status # "running" => status' = status
  PROVE  StreamInv'
<1>1. /\ TextsSent \in Nat /\ TextsSent' \in Nat
      /\ ActionsSent \in Nat /\ ActionsSent' \in Nat
  BY DEF StreamInv, StreamTypeOK, TextsSent, ActionsSent, Inv, TypeOK
<1>2. Behind'
  <2> SUFFICES ASSUME NEW k \in DOMAIN shown
               PROVE  /\ shown[k].kind = "text" => shown[k].n <= TextsSent'
                      /\ shown[k].kind = "tool_result" => shown[k].n <= ActionsSent'
                      /\ shown[k].kind = "done" => spc' = "ended" /\ status' # "running"
    BY DEF Behind
  <2>1. shown[k].n \in Nat
    <3>1. shown \in Seq(Event)
      BY DEF StreamInv, StreamTypeOK, Event
    <3>2. shown[k] \in Event
      BY <3>1
    <3> QED BY <3>2 DEF Event
  <2>2. /\ shown[k].kind = "text" => shown[k].n <= TextsSent
        /\ shown[k].kind = "tool_result" => shown[k].n <= ActionsSent
        /\ shown[k].kind = "done" => spc = "ended" /\ status # "running"
    BY DEF StreamInv, Behind
  <2> QED BY <1>1, <2>1, <2>2
<1>3. InOrder'
  BY DEF StreamInv, InOrder
<1> QED BY <1>2, <1>3 DEF StreamInv

\* An event that comes after all written of its kind keeps the order.
LEMMA Written ==
  ASSUME StreamInv, Inv', status' = status, NEW kind \in {"text", "tool_result", "done"},
         NEW n \in Nat \ {0}, NEW whole \in BOOLEAN, Write(kind, n, whole),
         StreamTypeOK', spc # "ended",
         kind = "text" => TextsSent < n /\ n <= TextsSent',
         kind = "tool_result" => ActionsSent < n /\ n <= ActionsSent',
         TextsSent <= TextsSent', ActionsSent <= ActionsSent',
         kind = "done" => spc' = "ended" /\ status # "running"
  PROVE  StreamInv'
<1> DEFINE e == [kind |-> kind, n |-> n, whole |-> whole]
<1>1. CASE ~connected
  BY <1>1, Silent DEF Write
<1>2. CASE connected
  <2>1. shown \in Seq(Event) /\ e \in Event /\ shown' = Append(shown, e)
    BY <1>2 DEF StreamInv, StreamTypeOK, Write, Event
  <2>2. /\ Len(shown) \in Nat /\ Len(shown') = Len(shown) + 1
        /\ \A k \in 1..Len(shown) : shown'[k] = shown[k] /\ shown[k] \in Event
        /\ shown'[Len(shown) + 1] = e
        /\ DOMAIN shown = 1..Len(shown) /\ DOMAIN shown' = 1..Len(shown')
    <3> HIDE DEF e
    <3> QED BY <2>1, Appended
  <2>3. \A k \in DOMAIN shown' : k \in DOMAIN shown \/ k = Len(shown) + 1
    BY <2>2
  <2>4. /\ TextsSent \in Nat /\ TextsSent' \in Nat
        /\ ActionsSent \in Nat /\ ActionsSent' \in Nat
    BY DEF StreamInv, StreamTypeOK, TextsSent, ActionsSent, Inv, TypeOK
  <2>5. ASSUME NEW k \in DOMAIN shown
        PROVE  /\ shown'[k] = shown[k] /\ shown[k].n \in Nat
               /\ shown[k].kind = "text" => shown[k].n <= TextsSent
               /\ shown[k].kind = "tool_result" => shown[k].n <= ActionsSent
               /\ shown[k].kind # "done"
    BY <2>2 DEF StreamInv, Behind, Event
  <2>6. Behind'
    <3> SUFFICES ASSUME NEW k \in DOMAIN shown'
                 PROVE  /\ shown'[k].kind = "text" => shown'[k].n <= TextsSent'
                        /\ shown'[k].kind = "tool_result" => shown'[k].n <= ActionsSent'
                        /\ shown'[k].kind = "done" => spc' = "ended" /\ status' # "running"
      BY DEF Behind
    <3>1. CASE k \in DOMAIN shown
      BY <2>4, <2>5, <3>1
    <3>2. CASE k = Len(shown) + 1
      BY <2>2, <3>2
    <3> QED BY <2>3, <3>1, <3>2
  <2>7. InOrder'
    <3> SUFFICES ASSUME NEW k \in DOMAIN shown', NEW j \in 1..k - 1
                 PROVE  /\ shown'[j].kind # "done"
                        /\ shown'[j].kind = shown'[k].kind => shown'[j].n < shown'[k].n
      BY DEF InOrder
    <3>1. j \in DOMAIN shown
      BY <2>2, <2>3
    <3>2. CASE k \in DOMAIN shown
      BY <2>2, <3>1, <3>2 DEF StreamInv, InOrder
    <3>3. CASE k = Len(shown) + 1
      <4>1. shown'[k].kind = kind /\ shown'[k].n = n
        BY <2>2, <3>3
      <4> QED BY <2>4, <2>5, <3>1, <4>1
    <3> QED BY <2>3, <3>2, <3>3
  <2> QED BY <2>6, <2>7 DEF StreamInv
<1> QED BY <1>1, <1>2

\* What Write appends has the type of an event.
LEMMA WriteTyped ==
  ASSUME StreamTypeOK, NEW kind \in {"text", "tool_result", "done"},
         NEW n \in Nat \ {0}, NEW whole \in BOOLEAN, Write(kind, n, whole)
  PROVE  shown' \in Seq(Event)
<1> DEFINE e == [kind |-> kind, n |-> n, whole |-> whole]
<1>1. shown \in Seq(Event) /\ e \in Event
  BY DEF StreamTypeOK, Event
<1>2. shown' = IF connected THEN Append(shown, e) ELSE shown
  BY DEF Write
<1> HIDE DEF e
<1> QED BY <1>1, <1>2

\* A step of the session leaves the handler where it is; what it has read stays.
LEMMA SessionKeeps ==
  ASSUME StreamInv, [Next]_vars, UNCHANGED <<handler, shown>>,
         fresh' \in {"none", "dialog", "actions"}, connected' \in BOOLEAN
  PROVE  StreamInv'
<1>1. Inv' /\ StreamTypeOK /\ Inv
  BY InvStep DEF StreamInv
<1>2. StreamTypeOK'
  BY <1>1, Grows DEF StreamTypeOK, handler
<1>3. TextsSent' = TextsSent /\ ActionsSent' = ActionsSent
  BY DEF handler, TextsSent, ActionsSent
<1>4. TextsSent \in Nat /\ ActionsSent \in Nat
  BY <1>1 DEF StreamTypeOK, TextsSent, ActionsSent, Inv, TypeOK
<1>5. status # "running" => status' = status
  BY <1>1, AfterVerdict
<1> QED BY <1>1, <1>2, <1>3, <1>4, <1>5, Silent DEF handler

\* A step of the handler, of those that write nothing.
LEMMA QuietKeeps ==
  ASSUME StreamInv,
         Tick \/ TextsEnd \/ MarkDialog \/ ActionsEnd \/ MarkActions \/ StillRunning \/ Leave
  PROVE  StreamInv'
<1>1. /\ Inv' /\ StreamTypeOK /\ UNCHANGED <<dialog, actions, status, shown, fresh, connected>>
      /\ dialog \in Nat /\ Len(actions) \in Nat
  <2>1. [Next]_vars
    BY SessionStep DEF StreamNext, Stream
  <2>2. Inv' /\ Inv /\ StreamTypeOK
    BY <2>1, InvStep DEF StreamInv
  <2> QED BY <2>2, Grows, <2>1 DEF Tick, TextsEnd, MarkDialog, ActionsEnd, MarkActions,
     StillRunning, Leave, Session, browser, vars
<1>2. StreamTypeOK' /\ TextsSent <= TextsSent' /\ ActionsSent <= ActionsSent'
      /\ spc # "ended"
  <2>1. CASE Tick
    BY <1>1, <2>1 DEF Tick, At, StreamTypeOK, TextsSent, ActionsSent
  <2>2. CASE TextsEnd
    BY <1>1, <2>2 DEF TextsEnd, At, StreamTypeOK, TextsSent, ActionsSent
  <2>3. CASE MarkDialog
    BY <1>1, <2>3 DEF MarkDialog, Mark, At, StreamTypeOK, TextsSent, ActionsSent
  <2>4. CASE ActionsEnd
    BY <1>1, <2>4 DEF ActionsEnd, At, StreamTypeOK, TextsSent, ActionsSent
  <2>5. CASE MarkActions
    BY <1>1, <2>5 DEF MarkActions, Mark, At, StreamTypeOK, TextsSent, ActionsSent
  <2>6. CASE StillRunning
    BY <1>1, <2>6 DEF StillRunning, At, StreamTypeOK, TextsSent, ActionsSent
  <2>7. CASE Leave
    BY <1>1, <2>7 DEF Leave, At, StreamTypeOK, TextsSent, ActionsSent
  <2> QED BY <2>1, <2>2, <2>3, <2>4, <2>5, <2>6, <2>7
<1> QED BY <1>1, <1>2, Silent

\* A message is written, then a result, then the end.
LEMMA WriteKeeps ==
  ASSUME StreamInv, SendText \/ SendAction \/ SendDone
  PROVE  StreamInv'
<1>1. /\ Inv' /\ StreamTypeOK /\ UNCHANGED <<dialog, actions, status, fresh>>
      /\ dialog \in Nat /\ Len(actions) \in Nat
  <2>1. [Next]_vars
    BY SessionStep DEF StreamNext, Stream
  <2>2. Inv' /\ Inv /\ StreamTypeOK
    BY <2>1, InvStep DEF StreamInv
  <2> QED BY <2>2, Grows, <2>1 DEF SendText, SendAction, SendDone, Session, vars
<1>2. CASE SendText
  <2>1. PICK whole \in BOOLEAN : Write("text", next + 1, whole)
    BY <1>2 DEF SendText, Reads
  <2>2. /\ spc = "dialog" /\ spc' = "dialog" /\ next < dialog /\ next' = next + 1
        /\ UNCHANGED <<lastDialog, lastAction, connected>> /\ next \in Nat
    BY <1>1, <1>2 DEF SendText, StreamTypeOK
  <2>3. StreamTypeOK'
    BY <1>1, <2>1, <2>2, WriteTyped DEF StreamTypeOK, Event
  <2>4. /\ TextsSent < next + 1 /\ next + 1 <= TextsSent' /\ TextsSent <= TextsSent'
        /\ ActionsSent <= ActionsSent'
    BY <1>1, <2>2 DEF TextsSent, ActionsSent, StreamTypeOK
  <2> QED BY <1>1, <2>1, <2>2, <2>3, <2>4, Written
<1>3. CASE SendAction
  <2>1. PICK whole \in BOOLEAN : Write("tool_result", next + 1, whole)
    BY <1>3 DEF SendAction, Reads
  <2>2. /\ spc = "actions" /\ spc' = "actions" /\ next < Len(actions) /\ next' = next + 1
        /\ UNCHANGED <<lastDialog, lastAction, connected>> /\ next \in Nat
    BY <1>1, <1>3 DEF SendAction, StreamTypeOK
  <2>3. StreamTypeOK'
    BY <1>1, <2>1, <2>2, WriteTyped DEF StreamTypeOK, Event
  <2>4. /\ ActionsSent < next + 1 /\ next + 1 <= ActionsSent'
        /\ TextsSent <= TextsSent' /\ ActionsSent <= ActionsSent'
    BY <1>1, <2>2 DEF TextsSent, ActionsSent, StreamTypeOK
  <2> QED BY <1>1, <2>1, <2>2, <2>3, <2>4, Written
<1>4. CASE SendDone
  <2>0. PICK whole \in BOOLEAN : Write("done", 1, whole)
    <3>1. (pc = "done") \in BOOLEAN /\ Write("done", 1, pc = "done")
      BY <1>4 DEF SendDone
    <3> QED BY <3>1, Zenon
  <2>1. 1 \in Nat \ {0}
    OBVIOUS
  <2>2. /\ spc = "status" /\ spc' = "ended" /\ status # "running"
        /\ UNCHANGED <<next, lastDialog, lastAction, connected>>
    BY <1>4 DEF SendDone, At
  <2>3. StreamTypeOK'
    BY <1>1, <2>0, <2>1, <2>2, WriteTyped DEF StreamTypeOK, Event
  <2>4. TextsSent <= TextsSent' /\ ActionsSent <= ActionsSent'
    BY <1>1, <2>2 DEF TextsSent, ActionsSent, StreamTypeOK
  <2> QED BY <1>1, <2>0, <2>1, <2>2, <2>3, <2>4, Written
<1> QED BY <1>2, <1>3, <1>4

\* A stream is opened.
LEMMA ConnectKeeps ==
  ASSUME StreamInv, Connect
  PROVE  StreamInv'
<1>1. Inv' /\ Inv /\ StreamTypeOK /\ UNCHANGED <<dialog, actions, status, fresh>>
  BY SessionStep, InvStep DEF StreamNext, StreamInv, Connect, Session, vars
<1>2. dialog \in Nat /\ Len(actions) \in Nat
  BY <1>1 DEF Inv, TypeOK
<1>3. StreamTypeOK' /\ TextsSent <= TextsSent' /\ ActionsSent <= ActionsSent'
  BY <1>1, <1>2 DEF Connect, At, StreamTypeOK, TextsSent, ActionsSent
<1> QED BY <1>1, <1>3, Silent DEF Connect, At

\* Every step keeps the invariant.
LEMMA StreamStep ==
  ASSUME StreamInv, [StreamNext]_streamVars
  PROVE  StreamInv'
<1>1. [Next]_vars /\ StreamTypeOK
  BY SessionStep DEF StreamInv
<1>2. CASE AgentStep
  BY <1>1, <1>2, SessionKeeps DEF AgentStep, Appending, browser, StreamTypeOK
<1>3. CASE Settle
  BY <1>1, <1>3, SessionKeeps DEF Settle, browser, StreamTypeOK
<1>4. CASE StartReturns \/ Click
  BY <1>1, <1>4, SessionKeeps DEF StartReturns, Click, browser, StreamTypeOK
<1>5. CASE Cut
  BY <1>1, <1>5, SessionKeeps DEF Cut, Session, StreamTypeOK
<1>6. CASE UNCHANGED streamVars
  BY <1>1, <1>6, SessionKeeps DEF streamVars, browser, StreamTypeOK
<1> QED BY <1>2, <1>3, <1>4, <1>5, <1>6, ConnectKeeps, QuietKeeps, WriteKeeps
        DEF StreamNext, Stream

-----------------------------------------------------------------------------

\* The joined invariant holds throughout every session and every stream.
THEOREM StreamInvariant == StreamSpec => []StreamInv
BY StreamInitially, StreamStep, PTL DEF StreamSpec

\* The handler counts no message and no result that does not exist
\* (healing.go:130-163).
THEOREM StreamTypeCorrect == StreamSpec => []StreamTypeOK
BY StreamInvariant, PTL DEF StreamInv

\* However the agent's appends fall between the handler's reads, the browser gets
\* messages and results in order, each once, and nothing after the verdict
\* (healing.go:130-173).
THEOREM Ordered == StreamSpec => []InOrder
BY StreamInvariant, PTL DEF StreamInv

\* Who has been told the verdict sees a session at rest (healing.go:165-172).
THEOREM Rest == StreamSpec => RestAfterEnd
<1>1. ASSUME StreamInv, [StreamNext]_streamVars
      PROVE  [Told => UNCHANGED <<effects, actions, status, shown>>]_streamVars
  <2> SUFFICES ASSUME Told
               PROVE  UNCHANGED <<effects, actions, status, shown>>
    OBVIOUS
  <2>1. spc = "ended" /\ status # "running"
    BY <1>1 DEF Told, StreamInv, Behind
  <2>2. UNCHANGED <<effects, actions, status>>
    BY <1>1, <2>1, SessionStep, AfterVerdict DEF StreamInv
  <2>3. UNCHANGED shown
    BY <1>1, <2>1 DEF StreamNext, AgentStep, Settle, StartReturns, Click, Connect, Stream,
       Tick, SendText, TextsEnd, MarkDialog, SendAction, ActionsEnd, MarkActions,
       StillRunning, SendDone, Leave, Cut, At, browser, streamVars
  <2> QED BY <2>2, <2>3
<1> QED BY <1>1, StreamInvariant, PTL DEF StreamSpec, RestAfterEnd

\* The handlers and the browser take nothing of what the session promises: under
\* them it still keeps clicks, changes and records together, gives Claude every
\* result, comes closer to its end, rests after its verdict and implements
\* WriteGate.
THEOREM SessionKept ==
  StreamSpec => /\ [](OneClickOneChange /\ AuditTrail /\ ToolResultsComplete)
                /\ FinalIsFinal /\ ComesCloser /\ ImplementsWriteGate
<1>1. Init => ToolResultsComplete /\ Gate!Init
  BY DEF Init, ToolResultsComplete, Gate!Init, Tickets
<1>2. ASSUME StreamInv, ToolResultsComplete, [StreamNext]_streamVars
      PROVE  ToolResultsComplete'
  BY <1>2, SessionStep, Completed DEF StreamInv, Inv
<1>3. StreamInv => OneClickOneChange /\ AuditTrail
  BY Consenting, Truthful DEF StreamInv
<1>4. ASSUME StreamInv, [StreamNext]_streamVars
      PROVE  [status # "running" => UNCHANGED <<status, actions, effects, dialog>>]_vars
  BY <1>4, SessionStep, AfterVerdict DEF StreamInv
<1>5. ASSUME StreamInv, StreamInv', [StreamNext]_streamVars
      PROVE  [Gate!Next]_Gate!vars
  BY <1>5, SessionStep, GateStep DEF StreamInv
<1>6. StreamInit => Init
  BY DEF StreamInit
<1>7. StreamInv /\ [StreamNext]_streamVars =>
        [IF Run THEN Closer ELSE UNCHANGED <<CallsLeft, WorkLeft>>]_vars
  BY SessionStep, Nearer DEF StreamInv
<1> QED BY <1>1, <1>2, <1>3, <1>4, <1>5, <1>6, <1>7, StreamInvariant, PTL
        DEF StreamSpec, FinalIsFinal, ComesCloser, ImplementsWriteGate
==============================================================================

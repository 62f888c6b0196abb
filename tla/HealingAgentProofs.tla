-------------------------- MODULE HealingAgentProofs -------------------------
(***************************************************************************)
(* Theorems about HealingAgent, for every set of modes and tools and every *)
(* bound.  The inductive invariant Inv joins the types with three parts:   *)
(* Control ties the goroutine's place to what it has in hand, Paid says    *)
(* that a click decides at most one call and never a second time, Honest   *)
(* relates the recorded actions to the changes of the cluster.             *)
(***************************************************************************)
EXTENDS HealingAgent, SequenceTheorems, FunctionTheorems, FiniteSetTheorems, TLAPS

\* The place of the goroutine determines status, loop bound and call in hand.
Control ==
  /\ status = "running" <=> pc \notin {"closing", "done"}
  /\ pc \in {"blocks", "tools", "await", "exec", "record"} => iter < MaxIter
  /\ pc \in {"await", "exec", "record"} => todo # <<>>
  /\ pc \in {"start", "loop"} => todo = <<>>
  /\ pc \notin {"exec", "record"} => current = NoCall
  /\ pc = "exec" => current.outcome = "none"
  /\ pc = "record" => current.outcome # "none"

\* No click is taken twice, and the one in the channel has not been taken.
Paid ==
  /\ \A n \in 1..Call : ClickOf(n) <= Len(clicks)
  /\ \A n \in 1..Call : ClickOf(n) # 0 => ClickOf(n) # approval
  /\ \A m, n \in 1..Call : m # n /\ ClickOf(m) # 0 => ClickOf(m) # ClickOf(n)

\* A call passes the gate only with the approval its mode asks for; changes
\* and records agree, and the call in hand changes the cluster only in Execute.
Honest ==
  /\ pc = "exec" =>
       /\ mode = "MANUAL" /\ IsWriteTool(Head(todo)) => current.click # 0
       /\ current.click # 0 => clicks[current.click].approved
  /\ effects \subseteq 1..Call
  /\ Call \in effects => pc = "record" /\ IsWriteTool(Head(todo))
                          /\ current.outcome # "rejected"
  /\ pc = "record" /\ IsWriteTool(Head(todo)) /\ current.outcome = "ok"
       => Call \in effects
  /\ \A n \in DOMAIN actions :
       /\ n \in effects => /\ IsWriteTool(actions[n].tool)
                           /\ actions[n].outcome # "rejected"
       /\ IsWriteTool(actions[n].tool) /\ actions[n].outcome = "ok"
            => n \in effects
  /\ \A n \in effects : /\ mode = "MANUAL" => ClickOf(n) # 0
                        /\ ClickOf(n) # 0 => clicks[ClickOf(n)].approved

Inv == TypeOK /\ Control /\ Paid /\ Honest

-----------------------------------------------------------------------------

\* Types are preserved; Control gives the head of todo and the loop bound.
LEMMA Typed ==
  ASSUME TypeOK, Control, [Next]_vars
  PROVE  TypeOK'
<1> USE BoundsAssumption
<1>1. CASE Open
  BY <1>1 DEF TypeOK, Open, answer
<1>2. CASE Answer
  <2>1. todo' \in Seq(Tools)
    <3>1. PICK n \in 0..MaxToolUses : todo' \in [1..n -> Tools]
      BY <1>2 DEF Answer
    <3> QED BY <3>1
  <2> QED BY <1>2, <2>1 DEF TypeOK, Answer
<1>3. CASE ClaudeFails
  BY <1>3 DEF TypeOK, ClaudeFails, Emit, Finalize, Statuses, answer
<1>4. CASE AppendText
  BY <1>4 DEF TypeOK, AppendText, Emit
<1>5. CASE Heal
  BY <1>5 DEF TypeOK, Heal, Emit, Finalize, Statuses, answer
<1>6. CASE UseTools
  BY <1>6 DEF TypeOK, UseTools, answer
<1>7. CASE Announce
  BY <1>7 DEF TypeOK, Announce, Emit, answer
<1>8. CASE Decide
  <2>1. current' \in [click : Nat, outcome : {"none", "ok", "error", "rejected"}]
    BY <1>8 DEF TypeOK, Decide, NoCall
  <2>2. approval' = 0 /\ pc' \in {"exec", "record"}
    BY <1>8 DEF Decide, Take
  <2> QED BY <1>8, <2>1, <2>2 DEF TypeOK, Decide, answer
<1>9. CASE TimerFires
  BY <1>9 DEF TypeOK, TimerFires, answer
<1>10. CASE Abort
  BY <1>10 DEF TypeOK, Abort, Emit, Finalize, Statuses, answer
<1>11. CASE Execute
  <2>1. Call \in Nat
    BY DEF TypeOK, Call
  <2>2. PICK outcome \in {"ok", "error"}, changed \in BOOLEAN :
          /\ effects' = IF changed THEN effects \cup {Call} ELSE effects
          /\ current' = [current EXCEPT !.outcome = outcome]
          /\ pc' = "record"
    BY <1>11 DEF Execute, Executed
  <2>3. effects' \subseteq Nat
    BY <2>1, <2>2 DEF TypeOK
  <2>4. current' \in [click : Nat, outcome : {"none", "ok", "error", "rejected"}]
    BY <2>2 DEF TypeOK
  <2> QED BY <1>11, <2>2, <2>3, <2>4 DEF TypeOK, Execute, answer
<1>12. CASE Record
  BY <1>12 DEF TypeOK, Control, Record, Emit, ToolResult, NoCall
<1>13. CASE EndTools
  BY <1>13 DEF TypeOK, Control, EndTools, answer
<1>14. CASE Exhausted
  BY <1>14 DEF TypeOK, Exhausted, Emit, Finalize, Statuses, answer
<1>15. CASE Close
  BY <1>15 DEF TypeOK, Close, answer
<1>16. CASE \E approved \in BOOLEAN : ApproveAction(approved)
  BY <1>16 DEF TypeOK, ApproveAction, Pending, Call, answer
<1>17. CASE CancelContext
  BY <1>17 DEF TypeOK, CancelContext, answer
<1>18. CASE UNCHANGED vars
  BY <1>18 DEF TypeOK, vars, answer
<1> QED BY <1>1, <1>2, <1>3, <1>4, <1>5, <1>6, <1>7, <1>8, <1>9, <1>10,
           <1>11, <1>12, <1>13, <1>14, <1>15, <1>16, <1>17, <1>18
        DEF Next, Run

\* The goroutine's place and what it has in hand stay tied together.
LEMMA Controlled ==
  ASSUME TypeOK, Control, [Next]_vars
  PROVE  Control'
<1> USE BoundsAssumption
<1>1. CASE Open
  BY <1>1 DEF TypeOK, Control, Open, answer
<1>2. CASE Answer
  BY <1>2 DEF TypeOK, Control, Answer
<1>3. CASE ClaudeFails
  BY <1>3 DEF TypeOK, Control, ClaudeFails, Finalize, answer
<1>4. CASE AppendText
  BY <1>4 DEF TypeOK, Control, AppendText
<1>5. CASE Heal
  BY <1>5 DEF TypeOK, Control, Heal, Finalize, answer
<1>6. CASE UseTools
  BY <1>6 DEF TypeOK, Control, UseTools, answer
<1>7. CASE Announce
  BY <1>7 DEF TypeOK, Control, Announce, NoCall, answer
<1>8. CASE Decide
  <2>1. UNCHANGED <<status, iter, todo>> /\ pc = "await"
    BY <1>8 DEF Decide, answer
  <2>2. \/ pc' = "exec" /\ current'.outcome = "none"
        \/ pc' = "record" /\ current'.outcome = "rejected"
    BY <1>8 DEF Decide, NoCall
  <2> QED BY <2>1, <2>2 DEF Control
<1>9. CASE TimerFires
  BY <1>9 DEF TypeOK, Control, TimerFires, NoCall, answer
<1>10. CASE Abort
  BY <1>10 DEF TypeOK, Control, Abort, Finalize, answer
<1>11. CASE Execute
  BY <1>11 DEF TypeOK, Control, Execute, Executed, answer
<1>12. CASE Record
  BY <1>12 DEF TypeOK, Control, Record
<1>13. CASE EndTools
  BY <1>13 DEF TypeOK, Control, EndTools, answer
<1>14. CASE Exhausted
  BY <1>14 DEF TypeOK, Control, Exhausted, Finalize, answer
<1>15. CASE Close
  BY <1>15 DEF TypeOK, Control, Close, answer
<1>16. CASE \E approved \in BOOLEAN : ApproveAction(approved)
  BY <1>16 DEF TypeOK, Control, ApproveAction, answer
<1>17. CASE CancelContext
  BY <1>17 DEF TypeOK, Control, CancelContext, answer
<1>18. CASE UNCHANGED vars
  BY <1>18 DEF TypeOK, Control, vars, answer
<1> QED BY <1>1, <1>2, <1>3, <1>4, <1>5, <1>6, <1>7, <1>8, <1>9, <1>10,
           <1>11, <1>12, <1>13, <1>14, <1>15, <1>16, <1>17, <1>18
        DEF Next, Run

-----------------------------------------------------------------------------

\* A step that touches neither the approvals nor the records nor the cluster.
\* It may lead to Execute, but in MANUAL mode not with a write tool.
Calm ==
  /\ UNCHANGED <<mode, approval, clicks, current, actions, effects>>
  /\ pc' = "exec" =>
       /\ UNCHANGED todo
       /\ pc = "exec" \/ mode # "MANUAL" \/ ~IsWriteTool(Head(todo))
  /\ pc = "exec" => pc' = "exec"
  /\ pc' = "record" <=> pc = "record"
  /\ pc = "record" => UNCHANGED todo
  /\ status # "running" => UNCHANGED <<status, dialog>>

\* Every step is Calm or one of the four that are not.
LEMMA Steps ==
  ASSUME TypeOK, Control, [Next]_vars
  PROVE  \/ Calm \/ Decide \/ Execute \/ Record
         \/ \E approved \in BOOLEAN : ApproveAction(approved)
<1>1. CASE Open
  BY <1>1 DEF Control, Calm, Open, answer
<1>2. CASE Answer
  BY <1>2 DEF Control, Calm, Answer
<1>3. CASE ClaudeFails
  BY <1>3 DEF Control, Calm, ClaudeFails, Finalize, answer
<1>4. CASE AppendText
  BY <1>4 DEF Control, Calm, AppendText
<1>5. CASE Heal
  BY <1>5 DEF Control, Calm, Heal, Finalize, answer
<1>6. CASE UseTools
  BY <1>6 DEF Control, Calm, UseTools, answer
<1>7. CASE Announce
  BY <1>7 DEF Control, Calm, Announce, Gated, answer
<1>9. CASE TimerFires
  BY <1>9 DEF Control, Calm, TimerFires, answer
<1>10. CASE Abort
  BY <1>10 DEF Control, Calm, Abort, Finalize, answer
<1>13. CASE EndTools
  BY <1>13 DEF Control, Calm, EndTools, answer
<1>14. CASE Exhausted
  BY <1>14 DEF Control, Calm, Exhausted, Finalize, answer
<1>15. CASE Close
  BY <1>15 DEF Control, Calm, Close, answer
<1>17. CASE CancelContext
  BY <1>17 DEF Control, Calm, CancelContext, answer
<1>18. CASE UNCHANGED vars
  BY <1>18 DEF Control, Calm, vars, answer
<1> QED BY <1>1, <1>2, <1>3, <1>4, <1>5, <1>6, <1>7, <1>9, <1>10,
           <1>13, <1>14, <1>15, <1>17, <1>18 DEF Next, Run

\* Appending, for a sequence named otherwise.
LEMMA Appended ==
  ASSUME NEW S, NEW s \in Seq(S), NEW e \in S, NEW t, t = Append(s, e)
  PROVE  /\ Len(t) = Len(s) + 1
         /\ \A n \in 1..Len(s) : t[n] = s[n]
         /\ t[Len(s) + 1] = e
BY AppendProperties

\* Calls and the clicks that decided them are numbers.
LEMMA Numbers ==
  ASSUME TypeOK
  PROVE  /\ Len(actions) \in Nat /\ Call \in Nat \ {0}
         /\ \A n \in 1..Call : ClickOf(n) \in Nat
<1>1. Len(actions) \in Nat /\ Call \in Nat \ {0}
  <2>1. Len(actions) \in Nat
    BY DEF TypeOK
  <2> QED BY <2>1 DEF Call
<1>2. ASSUME NEW n \in 1..Call
      PROVE  ClickOf(n) \in Nat
  <2>1. CASE n <= Len(actions)
    <3>1. n \in 1..Len(actions)
      BY <1>1, <1>2, <2>1 DEF Call
    <3>2. actions[n] \in [tool : Tools, click : Nat,
                          outcome : {"ok", "error", "rejected"}]
      <4>1. actions \in Seq([tool : Tools, click : Nat,
                             outcome : {"ok", "error", "rejected"}])
        BY DEF TypeOK
      <4> QED BY <3>1, <4>1, ElementOfSeq
    <3> QED BY <2>1, <3>2 DEF ClickOf
  <2>2. CASE ~(n <= Len(actions))
    BY <2>2 DEF ClickOf, TypeOK
  <2> QED BY <2>1, <2>2
<1> QED BY <1>1, <1>2

\* Which click decided a call is settled once the call has taken it.
LEMMA Clicks ==
  ASSUME TypeOK, TypeOK', Control, [Next]_vars
  PROVE  /\ Len(actions) \in Nat /\ Call \in Nat \ {0}
         /\ \A n \in 1..Call : ClickOf(n) \in Nat
         /\ Calm \/ Execute \/ (\E a \in BOOLEAN : ApproveAction(a)) =>
              Call' = Call /\ \A n \in 1..Call : ClickOf(n)' = ClickOf(n)
         /\ Decide =>
              /\ Call' = Call
              /\ ClickOf(Call)' = approval
              /\ \A n \in 1..Len(actions) : ClickOf(n)' = ClickOf(n)
         /\ Record =>
              /\ Call' = Call + 1
              /\ ClickOf(Call)' = 0
              /\ \A n \in 1..Call : ClickOf(n)' = ClickOf(n)
<1>1. /\ Len(actions) \in Nat /\ Call \in Nat \ {0}
      /\ \A n \in 1..Call : ClickOf(n) \in Nat
  BY Numbers
<1>2. ASSUME Calm \/ Execute \/ (\E a \in BOOLEAN : ApproveAction(a))
      PROVE  Call' = Call /\ \A n \in 1..Call : ClickOf(n)' = ClickOf(n)
  <2>1. actions' = actions /\ current'.click = current.click
    <3>1. CASE Calm
      BY <3>1 DEF Calm
    <3>2. CASE Execute
      BY <3>2 DEF Execute, Executed, TypeOK
    <3>3. CASE \E a \in BOOLEAN : ApproveAction(a)
      BY <3>3 DEF ApproveAction
    <3> QED BY <1>2, <3>1, <3>2, <3>3
  <2> QED BY <2>1 DEF Call, ClickOf
<1>3. ASSUME Decide
      PROVE  /\ Call' = Call
             /\ ClickOf(Call)' = approval
             /\ \A n \in 1..Len(actions) : ClickOf(n)' = ClickOf(n)
  <2>1. actions' = actions /\ current'.click = approval
    BY <1>3 DEF Decide, NoCall
  <2>2. ~(Call <= Len(actions))
    BY <1>1 DEF Call
  <2> QED BY <2>1, <2>2 DEF Call, ClickOf
<1>4. ASSUME Record
      PROVE  /\ Call' = Call + 1
             /\ ClickOf(Call)' = 0
             /\ \A n \in 1..Call : ClickOf(n)' = ClickOf(n)
  <2> DEFINE a == [tool |-> Head(todo), click |-> current.click,
                   outcome |-> current.outcome]
  <2>1. actions' = Append(actions, a) /\ current'.click = 0
    BY <1>4 DEF Record, NoCall
  <2>2. /\ Len(actions') = Len(actions) + 1
        /\ \A n \in 1..Len(actions) : actions'[n] = actions[n]
        /\ actions'[Len(actions) + 1].click = current.click
    <3>1. a \in [tool : Tools, click : Nat,
                 outcome : {"ok", "error", "rejected"}]
      BY <1>4, HeadTailProperties DEF Record, TypeOK, Control
    <3>2. a.click = current.click
      OBVIOUS
    <3> HIDE DEF a
    <3>3. actions'[Len(actions) + 1] = a
      BY <2>1, <3>1, Appended DEF TypeOK
    <3>4. /\ Len(actions') = Len(actions) + 1
          /\ \A n \in 1..Len(actions) : actions'[n] = actions[n]
      BY <2>1, <3>1, Appended DEF TypeOK
    <3> QED BY <3>2, <3>3, <3>4
  <2> HIDE DEF a
  <2> QED BY <1>1, <2>1, <2>2 DEF Call, ClickOf
<1> QED BY <1>1, <1>2, <1>3, <1>4

\* Clicks are spent one at a time: the channel holds only the last one, and a
\* click that has been taken is out of the channel for good.
LEMMA PaidStep ==
  ASSUME TypeOK, TypeOK', Control, Paid, [Next]_vars
  PROVE  Paid'
<1>1. CASE Calm
  BY <1>1, Clicks DEF Paid, Calm
<1>2. CASE Execute
  BY <1>2, Clicks DEF Paid, Execute, answer
<1>3. CASE \E approved \in BOOLEAN : ApproveAction(approved)
  <2>1. /\ Len(clicks) \in Nat
        /\ Len(clicks') = Len(clicks) + 1
        /\ approval' = Len(clicks) + 1
    BY <1>3 DEF ApproveAction, TypeOK
  <2> QED BY <1>3, <2>1, Clicks DEF Paid
<1>4. CASE Decide
  <2>1. /\ approval' = 0 /\ approval # 0 /\ clicks' = clicks
        /\ approval = Len(clicks) /\ Len(clicks) \in Nat
    BY <1>4 DEF Decide, Take, TypeOK
  <2>2. \A n \in 1..Call : n # Call => n \in 1..Len(actions)
    BY Clicks DEF Call
  <2>3. /\ Call' = Call
        /\ \A n \in 1..Call : ClickOf(n)' = IF n = Call THEN approval ELSE ClickOf(n)
    BY <1>4, <2>2, Clicks, SMTT(30)
  <2> QED BY <2>1, <2>3, Clicks, SMTT(30) DEF Paid
<1>5. CASE Record
  <2>1. /\ UNCHANGED <<approval, clicks>>
        /\ Len(clicks) \in Nat
    BY <1>5 DEF Record, TypeOK
  <2>2. /\ Call' = Call + 1
        /\ \A n \in 1..Call + 1 :
             ClickOf(n)' = IF n = Call + 1 THEN 0 ELSE ClickOf(n)
    BY <1>5, Clicks
  <2> QED BY <2>1, <2>2, Clicks DEF Paid
<1> QED BY <1>1, <1>2, <1>3, <1>4, <1>5, Steps

-----------------------------------------------------------------------------

\* The gate, the cluster and the records stay in step.
LEMMA HonestStep ==
  ASSUME TypeOK, TypeOK', Control, Control', Paid, Honest, [Next]_vars
  PROVE  Honest'
<1>1. CASE Calm
  <2>1. Call' = Call /\ \A n \in 1..Call : ClickOf(n)' = ClickOf(n)
    BY <1>1, Clicks
  <2>2. \A n \in effects : n \in 1..Call
    BY DEF Honest
  <2> QED BY <1>1, <2>1, <2>2 DEF Calm, Honest, Control, IsWriteTool, NoCall
<1>2. CASE Execute
  <2>1. Call' = Call /\ \A n \in 1..Call : ClickOf(n)' = ClickOf(n)
    BY <1>2, Clicks
  <2>2. PICK outcome \in {"ok", "error"}, changed \in BOOLEAN :
          /\ ExecutorMay(Head(todo), outcome, changed)
          /\ effects' = IF changed THEN effects \cup {Call} ELSE effects
          /\ current' = [current EXCEPT !.outcome = outcome]
          /\ pc' = "record"
    BY <1>2 DEF Execute, Executed
  <2>3. /\ UNCHANGED <<mode, todo, clicks, actions>>
        /\ pc = "exec"
    BY <1>2 DEF Execute, answer
  <2>4. Call \notin effects /\ \A n \in DOMAIN actions : n # Call
    <3>1. Call = Len(actions) + 1 /\ Len(actions) \in Nat
          /\ DOMAIN actions = 1..Len(actions)
      BY DEF TypeOK, Call
    <3>2. Call \notin effects
      BY <2>3 DEF Honest
    <3> QED BY <3>1, <3>2
  <2>5. /\ current'.outcome = outcome
        /\ current.click = ClickOf(Call)
    <3>1. ~(Call <= Len(actions))
      BY Clicks DEF Call
    <3> QED BY <2>2, <3>1 DEF TypeOK, ClickOf
  <2>6. /\ changed => IsWriteTool(Head(todo))
        /\ IsWriteTool(Head(todo)) /\ outcome = "ok" => changed
    BY <2>2 DEF ExecutorMay, IsWriteTool
  <2>7. \A n \in effects' : n \in effects \/ (n = Call /\ changed)
    BY <2>2
  <2>8. \A n \in effects' : /\ mode = "MANUAL" => ClickOf(n) # 0
                            /\ ClickOf(n) # 0 => clicks[ClickOf(n)].approved
    BY <2>3, <2>5, <2>6, <2>7 DEF Honest
  <2> QED BY <2>1, <2>2, <2>3, <2>4, <2>5, <2>6, <2>7, <2>8, Clicks DEF Honest
<1>3. CASE \E approved \in BOOLEAN : ApproveAction(approved)
  <2>1. Call' = Call /\ \A n \in 1..Call : ClickOf(n)' = ClickOf(n)
    BY <1>3, Clicks
  <2>2. UNCHANGED <<mode, pc, todo, current, actions, effects>>
    BY <1>3 DEF ApproveAction, answer
  <2>3. \A k \in 1..Len(clicks) : clicks'[k] = clicks[k]
    <3>1. PICK approved \in BOOLEAN :
            clicks' = Append(clicks, [approved |-> approved, prompt |-> Pending])
      BY <1>3 DEF ApproveAction
    <3>2. Pending \in Nat
      BY Clicks DEF Pending
    <3> QED BY <3>1, <3>2, Appended DEF TypeOK
  <2>4. \A n \in 1..Call : ClickOf(n) # 0 => ClickOf(n) \in 1..Len(clicks)
    <3>1. Len(clicks) \in Nat
      BY DEF TypeOK
    <3> QED BY <3>1, Clicks DEF Paid
  <2>5. current.click = ClickOf(Call) /\ Call \in 1..Call
    BY Clicks DEF Call, ClickOf
  <2>6. current.click # 0 => clicks'[current.click] = clicks[current.click]
    BY <2>3, <2>4, <2>5
  <2>7. ASSUME NEW n \in effects
        PROVE  /\ mode = "MANUAL" => ClickOf(n)' # 0
               /\ ClickOf(n)' # 0 => clicks'[ClickOf(n)'].approved
    <3>1. n \in 1..Call
      BY DEF Honest
    <3>2. ClickOf(n)' = ClickOf(n)
      BY <2>1, <3>1
    <3>3. ClickOf(n) # 0 => clicks'[ClickOf(n)] = clicks[ClickOf(n)]
      BY <2>3, <2>4, <3>1
    <3> QED BY <3>2, <3>3 DEF Honest
  <2> QED BY <2>1, <2>2, <2>6, <2>7 DEF Honest
<1>4. CASE Decide
  <2>1. /\ UNCHANGED <<mode, todo, clicks, actions, effects>>
        /\ pc = "await" /\ approval # 0
    BY <1>4 DEF Decide, answer
  <2>2. \/ /\ pc' = "exec" /\ current'.click = approval
           /\ clicks[approval].approved
        \/ pc' = "record" /\ current'.outcome = "rejected"
    BY <1>4 DEF Decide, NoCall
  <2>3. Call \notin effects
    BY <2>1 DEF Honest
  <2>4. \A n \in effects : n \in 1..Len(actions)
    BY <2>3, Clicks DEF Honest, Call
  <2>5. Call' = Call /\ \A n \in effects : ClickOf(n)' = ClickOf(n)
    BY <1>4, <2>4, Clicks
  <2> QED BY <2>1, <2>2, <2>3, <2>5 DEF Honest
<1>5. CASE Record
  <2>1. /\ UNCHANGED <<mode, clicks, effects>>
        /\ pc = "record" /\ pc' = "tools"
    BY <1>5 DEF Record
  <2>2. Call' = Call + 1 /\ \A n \in 1..Call : ClickOf(n)' = ClickOf(n)
    BY <1>5, Clicks
  <2> DEFINE a == [tool |-> Head(todo), click |-> current.click,
                   outcome |-> current.outcome]
  <2>3. a.tool = Head(todo) /\ a.outcome = current.outcome
    OBVIOUS
  <2>4. /\ DOMAIN actions' = 1..Call
        /\ DOMAIN actions = 1..Len(actions)
        /\ \A n \in DOMAIN actions : actions'[n] = actions[n]
        /\ actions'[Call] = a
    <3>1. a \in [tool : Tools, click : Nat,
                 outcome : {"ok", "error", "rejected"}]
      BY <2>1, HeadTailProperties DEF TypeOK, Control
    <3>2. actions' = Append(actions, a)
      BY <1>5 DEF Record
    <3>3. actions \in Seq([tool : Tools, click : Nat,
                           outcome : {"ok", "error", "rejected"}])
      BY DEF TypeOK
    <3> HIDE DEF a
    <3>4. /\ Len(actions') = Len(actions) + 1
          /\ \A n \in 1..Len(actions) : actions'[n] = actions[n]
          /\ actions'[Len(actions) + 1] = a
      BY <3>1, <3>2, <3>3, Appended
    <3>5. DOMAIN actions' = 1..Len(actions') /\ DOMAIN actions = 1..Len(actions)
      BY DEF TypeOK
    <3> QED BY <3>4, <3>5 DEF Call
  <2>5. Call + 1 \notin effects /\ effects \subseteq 1..(Call + 1)
    BY Clicks DEF Honest
  <2>6. \A n \in DOMAIN actions' : n \in DOMAIN actions \/ n = Call
    BY <2>4, Clicks DEF Call
  <2> HIDE DEF a
  <2>7. \A n \in DOMAIN actions' :
          /\ n \in effects => /\ IsWriteTool(actions'[n].tool)
                              /\ actions'[n].outcome # "rejected"
          /\ IsWriteTool(actions'[n].tool) /\ actions'[n].outcome = "ok"
               => n \in effects
    BY <2>1, <2>3, <2>4, <2>6 DEF Honest
  <2> QED BY <2>1, <2>2, <2>5, <2>7 DEF Honest
<1> QED BY <1>1, <1>2, <1>3, <1>4, <1>5, Steps

-----------------------------------------------------------------------------

\* A session that starts has nothing in hand, nothing spent, nothing recorded.
LEMMA Initially == Init => Inv
<1> SUFFICES ASSUME Init PROVE Inv
  OBVIOUS
<1> USE BoundsAssumption DEF Init
<1>1. TypeOK
  <2>1. current \in [click : Nat, outcome : {"none", "ok", "error", "rejected"}]
    BY DEF NoCall
  <2>2. \A S : <<>> \in Seq(S)
    OBVIOUS
  <2>4. texts \in Nat /\ asked \in Nat /\ results \in Nat /\ dialog \in Nat
    OBVIOUS
  <2>5. iter \in 0..MaxIter /\ buffered \in 0..EventCap
    OBVIOUS
  <2>6. effects \subseteq Nat /\ approval \in {0, Len(clicks)}
    OBVIOUS
  <2>7. /\ clicks \in Seq([approved : BOOLEAN, prompt : Nat])
        /\ todo \in Seq(Tools)
        /\ actions \in Seq([tool : Tools, click : Nat,
                            outcome : {"ok", "error", "rejected"}])
    BY <2>2
  <2>8. /\ mode \in Modes /\ endTurn \in BOOLEAN /\ ctxDone \in BOOLEAN
        /\ status \in Statuses
        /\ pc \in {"start", "loop", "blocks", "tools", "await", "exec", "record",
                  "closing", "done"}
    BY DEF Statuses
  <2> HIDE DEF Init
  <2> QED BY <2>1, <2>4, <2>5, <2>6, <2>7, <2>8 DEF TypeOK
<1>2. Control
  BY DEF Control
<1>3. Call = 1 /\ ClickOf(1) = 0
  BY DEF Call, ClickOf, NoCall
<1>4. Paid
  BY <1>3 DEF Paid
<1>5. Honest
  BY <1>3 DEF Honest
<1> QED BY <1>1, <1>2, <1>4, <1>5 DEF Inv

\* Every step keeps the joined invariant.
LEMMA InvStep ==
  ASSUME Inv, [Next]_vars
  PROVE  Inv'
BY Typed, Controlled, PaidStep, HonestStep DEF Inv

\* The joined invariant holds throughout every session.
THEOREM Invariant == Spec => []Inv
BY Initially, InvStep, PTL DEF Spec

\* Every variable of a session keeps its type (agent.go:125-308).
THEOREM TypeCorrect == Spec => []TypeOK
BY Invariant, PTL DEF Inv

\* What the invariant says of clicks, changes and records.
LEMMA Consenting ==
  ASSUME Inv
  PROVE  OneClickOneChange
BY DEF Inv, Honest, Paid, OneClickOneChange

LEMMA Truthful ==
  ASSUME Inv
  PROVE  AuditTrail
<1>1. /\ Len(actions) \in Nat
      /\ DOMAIN actions = 1..Len(actions)
  BY DEF Inv, TypeOK
<1>2. \A n \in effects : n \in DOMAIN actions \/ n = Call
  BY <1>1 DEF Inv, Honest, Call
<1> QED BY <1>2 DEF Inv, Honest, AuditTrail

\* A step after the verdict.
LEMMA AfterVerdict ==
  ASSUME Inv, [Next]_vars, status # "running"
  PROVE  UNCHANGED <<status, actions, effects, dialog>>
<1>1. pc \in {"closing", "done"}
  BY DEF Inv, Control
<1>2. CASE Calm
  BY <1>2 DEF Calm
<1>3. CASE \E approved \in BOOLEAN : ApproveAction(approved)
  BY <1>3 DEF ApproveAction
<1>4. ~(Decide \/ Execute \/ Record)
  BY <1>1 DEF Decide, Execute, Record
<1> QED BY <1>2, <1>3, <1>4, Steps DEF Inv

\* In MANUAL mode no change of the cluster without an approval of its own; no
\* click approves two changes, and none that rejects approves any
\* (agent.go:220-270).
THEOREM Consent == Spec => []OneClickOneChange
BY Invariant, Consenting, PTL

\* The clicks that approve.
Approvals == {k \in 1..Len(clicks) : clicks[k].approved}

\* Different changes were decided by different approvals, so that there are no
\* more of the one than of the other.
LEMMA Budgeted ==
  ASSUME Inv, mode = "MANUAL"
  PROVE  IsFiniteSet(effects) /\ Cardinality(effects) <= Cardinality(Approvals)
<1> DEFINE paidBy == [n \in effects |-> ClickOf(n)]
<1>1. \A n \in effects : n \in 1..Call /\ ClickOf(n) \in Nat \ {0}
  <2>1. \A n \in 1..Call : ClickOf(n) \in Nat
    BY Numbers DEF Inv
  <2> QED BY <2>1, Consenting DEF Inv, Honest, OneClickOneChange
<1>2. \A n \in effects : ClickOf(n) \in Approvals
  <2> SUFFICES ASSUME NEW n \in effects PROVE ClickOf(n) \in Approvals
    OBVIOUS
  <2>1. ClickOf(n) <= Len(clicks) /\ Len(clicks) \in Nat
    BY <1>1 DEF Inv, Paid, TypeOK
  <2>2. clicks[ClickOf(n)].approved
    BY Consenting, <1>1 DEF OneClickOneChange
  <2> QED BY <1>1, <2>1, <2>2 DEF Approvals
<1>3. \A m, n \in effects : ClickOf(m) = ClickOf(n) => m = n
  BY Consenting, <1>1 DEF OneClickOneChange
<1>4. paidBy \in Injection(effects, Approvals)
  BY <1>2, <1>3, Fun_IsInj
<1>5. IsFiniteSet(Approvals)
  <2>1. IsFiniteSet(1..Len(clicks))
    BY FS_Interval DEF Inv, TypeOK
  <2> QED BY <2>1, FS_Subset DEF Approvals
<1> QED BY <1>4, <1>5, FS_Injection

\* In MANUAL mode the cluster has never been changed more often than somebody has
\* approved (agent.go:220-270).
THEOREM Budget ==
  Spec => [](mode = "MANUAL" => Cardinality(effects) <= Cardinality(Approvals))
BY Invariant, Budgeted, PTL

\* The recorded actions and the changes of the cluster agree, but for the call
\* about to be recorded (agent.go:275-289).
THEOREM Audit == Spec => []AuditTrail
BY Invariant, Truthful, PTL

\* After the verdict nothing is executed, recorded or said any more
\* (agent.go:179, 206, 238, 264, 297).
THEOREM Final == Spec => FinalIsFinal
<1>1. ASSUME Inv, [Next]_vars
      PROVE  [status # "running" => UNCHANGED <<status, actions, effects, dialog>>]_vars
  BY <1>1, AfterVerdict
<1> QED BY Invariant, <1>1, PTL DEF Spec, FinalIsFinal

-----------------------------------------------------------------------------
(* The session comes to an end.                                             *)

\* What is left, place by place; it is never less than nothing.
LEMMA Left ==
  ASSUME TypeOK, Control
  PROVE  /\ CallsLeft \in Nat /\ WorkLeft \in Nat /\ Len(todo) \in Nat
         /\ pc \in {"blocks", "tools", "await", "exec", "record"} => CallsLeft > 0
         /\ pc = "loop" => CallsLeft > 0
<1>1. Len(todo) \in Nat /\ (todo # <<>> => Len(todo) > 0)
  BY DEF TypeOK
<1>2. iter \in Nat /\ MaxIter \in Nat /\ iter <= MaxIter
  BY BoundsAssumption DEF TypeOK
<1>3. /\ pc \in {"blocks", "tools", "await", "exec", "record"} => iter < MaxIter
      /\ pc \in {"exec", "record"} => Len(todo) > 0
      /\ texts \in Nat
  BY <1>1 DEF TypeOK, Control
<1>4. /\ CallsLeft \in Nat
      /\ pc \in {"blocks", "tools", "await", "exec", "record"} => CallsLeft > 0
      /\ pc = "loop" => CallsLeft > 0
  <2>1. CASE pc \in {"start", "loop"}
    <3>1. CallsLeft = MaxIter - iter + 1
      BY <2>1 DEF CallsLeft
    <3> QED BY <2>1, <3>1, <1>2
  <2>2. CASE pc \in {"blocks", "tools", "await", "exec", "record"}
    <3>1. CallsLeft = MaxIter - iter
      BY <2>2 DEF CallsLeft
    <3> QED BY <2>2, <3>1, <1>2, <1>3
  <2>3. CASE pc \in {"closing", "done"}
    BY <2>3 DEF CallsLeft
  <2> QED BY <2>1, <2>2, <2>3 DEF TypeOK
<1>5. WorkLeft \in Nat
  <2>1. CASE pc \in {"start", "loop", "closing", "done"}
    BY <2>1 DEF WorkLeft
  <2>2. CASE pc = "blocks"
    BY <2>2, <1>1, <1>3 DEF WorkLeft
  <2>3. CASE pc \in {"tools", "await"}
    BY <2>3, <1>1 DEF WorkLeft
  <2>4. CASE pc \in {"exec", "record"}
    BY <2>4, <1>1, <1>3 DEF WorkLeft
  <2> QED BY <2>1, <2>2, <2>3, <2>4 DEF TypeOK
<1> QED BY <1>1, <1>4, <1>5

\* Each step of the goroutine uses something up.
LEMMA RunCloser ==
  ASSUME TypeOK, Control, Run
  PROVE  Closer
<1> USE DEF Closer
<1>1. /\ Len(todo) \in Nat /\ (todo # <<>> => Len(todo) > 0) /\ texts \in Nat
      /\ iter \in Nat /\ MaxIter \in Nat /\ iter <= MaxIter
  BY BoundsAssumption DEF TypeOK
<1>2. CASE Open
  BY <1>1, <1>2 DEF Open, CallsLeft, WorkLeft
<1>3. CASE Answer
  BY <1>1, <1>3 DEF Answer, CallsLeft
<1>4. ASSUME pc' = "closing", pc \in {"loop", "blocks", "await"}
      PROVE  Closer
  <2>1. CallsLeft' = 0
    BY <1>4 DEF CallsLeft
  <2>2. CallsLeft \in Nat /\ CallsLeft > 0
    BY <1>4, Left
  <2> QED BY <2>1, <2>2
<1>5. CASE AppendText
  BY <1>1, <1>5 DEF AppendText, CallsLeft, WorkLeft
<1>6. CASE UseTools
  BY <1>1, <1>6 DEF UseTools, CallsLeft, WorkLeft, answer
<1>7. CASE Announce
  BY <1>1, <1>7 DEF Announce, CallsLeft, WorkLeft, answer
<1>8. CASE Decide
  BY <1>1, <1>8 DEF Decide, CallsLeft, WorkLeft, answer
<1>9. CASE TimerFires
  BY <1>1, <1>9 DEF TimerFires, CallsLeft, WorkLeft, answer
<1>10. CASE Execute
  <2>1. pc = "exec" /\ pc' = "record" /\ UNCHANGED <<iter, todo>>
    BY <1>10 DEF Execute, Executed, answer
  <2> QED BY <1>1, <2>1 DEF CallsLeft, WorkLeft
<1>11. CASE Record
  <2>1. Len(todo') = Len(todo) - 1
    BY <1>11, HeadTailProperties DEF Record, TypeOK, Control
  <2>2. pc = "record" /\ pc' = "tools" /\ UNCHANGED iter
    BY <1>11 DEF Record
  <2> QED BY <1>1, <2>1, <2>2 DEF CallsLeft, WorkLeft
<1>12. CASE EndTools
  <2>1. pc = "tools" /\ pc' = "loop" /\ iter' = iter + 1 /\ Len(todo) = 0
    BY <1>12 DEF EndTools
  <2> QED BY <1>1, <2>1 DEF CallsLeft, WorkLeft
<1>13. CASE Close
  BY <1>13 DEF Close, CallsLeft, WorkLeft
<1>14. CASE ClaudeFails \/ Heal \/ Abort \/ Exhausted
  BY <1>4, <1>14 DEF ClaudeFails, Heal, Abort, Exhausted, Finalize
<1> QED BY <1>2, <1>3, <1>5, <1>6, <1>7, <1>8, <1>9, <1>10, <1>11, <1>12, <1>13,
           <1>14 DEF Run

\* Nobody but the goroutine changes what is left.
LEMMA Nearer ==
  ASSUME Inv, [Next]_vars
  PROVE  [IF Run THEN Closer ELSE UNCHANGED <<CallsLeft, WorkLeft>>]_vars
<1>1. CASE Run
  BY <1>1, RunCloser DEF Inv
<1>2. CASE ~Run /\ Next
  <2>1. UNCHANGED <<pc, iter, texts, todo>>
    BY <1>2 DEF Next, ApproveAction, CancelContext, answer
  <2> QED BY <1>2, <2>1 DEF CallsLeft, WorkLeft
<1> QED BY <1>1, <1>2

\* Whatever Claude answers and however calls fail, each step of the goroutine
\* uses up a call to Claude or some of the work the last answer gave it, and
\* clicks and cancellations add to neither; and of both there is only a finite
\* amount (agent.go:166-298).
THEOREM Ending == Spec => ComesCloser /\ [](CallsLeft \in Nat /\ WorkLeft \in Nat)
<1>1. Inv /\ [Next]_vars => [IF Run THEN Closer ELSE UNCHANGED <<CallsLeft, WorkLeft>>]_vars
  BY Nearer
<1>2. Inv => CallsLeft \in Nat /\ WorkLeft \in Nat
  BY Left DEF Inv
<1> QED BY Invariant, <1>1, <1>2, PTL DEF Spec, ComesCloser

-----------------------------------------------------------------------------

\* One tool_result for each tool call before Claude is called again is an
\* invariant relative to the types and Control.
LEMMA Completed ==
  ASSUME TypeOK, Control, ToolResultsComplete, [Next]_vars
  PROVE  ToolResultsComplete'
<1>1. ASSUME UNCHANGED <<todo, asked, results>>, pc' = "loop" => todo = <<>>
      PROVE  ToolResultsComplete'
  BY <1>1 DEF TypeOK, ToolResultsComplete
<1>2. CASE Answer
  <2>1. Len(todo') \in Nat
    <3>1. PICK n \in 0..MaxToolUses : todo' \in [1..n -> Tools]
      BY <1>2 DEF Answer
    <3>2. todo' \in Seq(Tools)
      BY <3>1, BoundsAssumption
    <3> QED BY <3>2
  <2> QED BY <1>2, <2>1 DEF Answer, ToolResultsComplete
<1>3. CASE Record
  <2>1. Len(todo') = Len(todo) - 1
    BY <1>3, HeadTailProperties DEF Record, TypeOK, Control
  <2>2. results' = results + 1 /\ asked' = asked /\ pc' = "tools"
    BY <1>3 DEF Record, ToolResult
  <2>3. Len(todo) \in Nat /\ results \in Nat /\ results + Len(todo) = asked
    BY DEF TypeOK, ToolResultsComplete
  <2>4. results' + Len(todo') = asked'
    BY <2>1, <2>2, <2>3
  <2> QED BY <2>2, <2>4 DEF ToolResultsComplete
<1>4. ASSUME ~Answer, ~Record, Next
      PROVE  UNCHANGED <<todo, asked, results>> /\ (pc' = "loop" => todo = <<>>)
  <2>1. UNCHANGED <<todo, asked, results>>
    BY <1>4 DEF Next, Run, Open, ClaudeFails, AppendText, Heal, UseTools, Announce,
       Decide, TimerFires, Abort, Execute, EndTools, Exhausted, Close,
       ApproveAction, CancelContext, answer
  <2>2. ASSUME pc' = "loop" PROVE todo = <<>>
    BY <1>4, <2>2 DEF Next, Run, Open, ClaudeFails, AppendText, Heal, UseTools,
       Announce, Decide, TimerFires, Abort, Execute, Executed, EndTools,
       Exhausted, Close, Finalize, ApproveAction, CancelContext, Control
  <2> QED BY <2>1, <2>2
<1>5. CASE UNCHANGED vars
  BY <1>5 DEF vars, answer, ToolResultsComplete
<1> QED BY <1>1, <1>2, <1>3, <1>4, <1>5

\* Claude never sees a tool call of its own left without a result
\* (agent.go:212-294).
THEOREM Complete == Spec => []ToolResultsComplete
<1>1. Init => ToolResultsComplete
  BY DEF Init, ToolResultsComplete
<1>2. ASSUME Inv, ToolResultsComplete, [Next]_vars PROVE ToolResultsComplete'
  BY <1>2, Completed DEF Inv
<1> QED BY <1>1, <1>2, Invariant, PTL DEF Spec

-----------------------------------------------------------------------------
(* The session implements WriteGate.                                        *)

\* A step of a session is a step of the gate or leaves the gate alone.
LEMMA GateStep ==
  ASSUME Inv, Inv', [Next]_vars
  PROVE  [Gate!Next]_Gate!vars
<1> USE DEF Gate!vars
<1>1. CASE Calm
  <2>1. UNCHANGED <<mode, clicks, effects, Tickets>>
    <3>1. pc # "exec" /\ pc # "record" => current.click = 0
      BY DEF Inv, Control, NoCall
    <3>2. UNCHANGED <<mode, approval, clicks, current, effects>>
      BY <1>1 DEF Calm
    <3>3. pc' = "exec" /\ pc # "exec" => pc # "record"
      BY <1>1 DEF Calm
    <3>4. pc = "exec" => pc' = "exec"
      BY <1>1 DEF Calm
    <3> QED BY <3>1, <3>2, <3>3, <3>4 DEF Tickets
  <2>2. status # "running" => UNCHANGED status
    BY <1>1 DEF Calm
  <2>3. CASE status = "running" /\ status' # "running"
    BY <2>1, <2>3 DEF Gate!Next, Gate!Close
  <2>4. CASE ~(status = "running" /\ status' # "running")
    BY <2>1, <2>2, <2>4
  <2> QED BY <2>3, <2>4
<1>2. CASE Execute
  <2> DEFINE c == current.click
             chan == IF approval # 0 THEN {k \in {approval} : clicks[k].approved}
                                     ELSE {}
  <2>1. PICK outcome \in {"ok", "error"}, changed \in BOOLEAN :
          /\ ExecutorMay(Head(todo), outcome, changed)
          /\ effects' = IF changed THEN effects \cup {Call} ELSE effects
    BY <1>2 DEF Execute
  <2>2. /\ UNCHANGED <<mode, status, todo, approval, clicks>>
        /\ pc = "exec" /\ pc' = "record"
    BY <1>2 DEF Execute, Executed, answer
  <2>3. Tickets = chan \cup ({c} \ {0}) /\ Tickets' = chan
    BY <2>2 DEF Tickets
  <2>4. c # 0 => c # approval
    <3>1. ClickOf(Call) = c /\ Call \in 1..Call
      BY Clicks DEF Inv, Call, ClickOf
    <3> QED BY <3>1 DEF Inv, Paid
  <2>5. c # 0 => \E t \in Tickets : Tickets' = Tickets \ {t}
    <3> SUFFICES ASSUME c # 0 PROVE c \in Tickets /\ Tickets' = Tickets \ {c}
      OBVIOUS
    <3>1. c \notin chan
      BY <2>4
    <3> HIDE DEF c, chan
    <3> QED BY <2>3, <3>1
  <2>6. c = 0 => Tickets' = Tickets
    <3> HIDE DEF c, chan
    <3> QED BY <2>3
  <2>7. status = "running"
    BY <2>2 DEF Inv, Control
  <2>8. Call \notin effects
    BY <2>2 DEF Inv, Honest
  <2>9. CASE changed
    <3>1. IsWriteTool(Head(todo))
      BY <2>1, <2>9 DEF ExecutorMay, IsWriteTool
    <3>2. c = 0 => mode # "MANUAL"
      BY <2>2, <3>1 DEF Inv, Honest
    <3>3. \E call \in effects' \ effects : effects' = effects \cup {call}
      BY <2>1, <2>8, <2>9
    <3> HIDE DEF c, chan
    <3> QED BY <2>2, <2>5, <2>6, <2>7, <3>2, <3>3 DEF Gate!Next, Gate!Change
  <2>10. CASE ~changed
    <3>1. effects' = effects
      BY <2>1, <2>10
    <3> HIDE DEF c, chan
    <3> QED BY <2>2, <2>5, <2>6, <2>7, <3>1 DEF Gate!Next, Gate!Waste
  <2> QED BY <2>9, <2>10
<1>3. CASE \E approved \in BOOLEAN : ApproveAction(approved)
  <2>1. PICK approved \in BOOLEAN : ApproveAction(approved)
    BY <1>3
  <2> DEFINE hand == IF pc = "exec" THEN {current.click} \ {0} ELSE {}
             click == [approved |-> approved, prompt |-> Pending]
  <2>2. /\ UNCHANGED <<mode, status, effects, pc, current>>
        /\ approval = 0 /\ approval' = Len(clicks) + 1
        /\ clicks' = Append(clicks, click)
    BY <2>1 DEF ApproveAction
  <2>3. click \in [approved : BOOLEAN, prompt : Nat] /\ click.approved = approved
    BY Clicks DEF Inv, Pending
  <2>4. clicks \in Seq([approved : BOOLEAN, prompt : Nat]) /\ Len(clicks) \in Nat
    BY DEF Inv, TypeOK
  <2>5. Len(clicks') = Len(clicks) + 1 /\ clicks'[Len(clicks) + 1] = click
    <3> HIDE DEF click
    <3> QED BY <2>2, <2>3, <2>4, Appended
  <2>6. Tickets = hand
    BY <2>2 DEF Tickets
  <2>7. Tickets' = (IF approved THEN {Len(clicks) + 1} ELSE {}) \cup hand
    <3>1. approval' # 0 /\ clicks'[approval'].approved = approved
      <4> HIDE DEF click
      <4> QED BY <2>2, <2>3, <2>4, <2>5
    <3> HIDE DEF click
    <3> QED BY <2>2, <3>1 DEF Tickets
  <2>8. CASE approved
    <3> HIDE DEF hand, click
    <3>1. Tickets' = Tickets \cup {Len(clicks) + 1}
      BY <2>6, <2>7, <2>8
    <3> QED BY <2>2, <2>5, <3>1 DEF Gate!Next, Gate!Approve
  <2>9. CASE ~approved
    <3> HIDE DEF hand, click
    <3>1. Tickets' = Tickets
      BY <2>6, <2>7, <2>9
    <3> QED BY <2>2, <2>5, <3>1 DEF Gate!Next, Gate!Reject
  <2> QED BY <2>8, <2>9
<1>4. CASE Decide
  <2>1. /\ UNCHANGED <<mode, status, clicks, effects>>
        /\ pc = "await" /\ approval # 0 /\ approval' = 0
        /\ \/ /\ clicks[approval].approved
              /\ current'.click = approval
              /\ pc' = "exec"
           \/ ~clicks[approval].approved /\ pc' = "record"
    BY <1>4 DEF Decide, Take, NoCall
  <2>2. Tickets' = Tickets
    BY <2>1 DEF Tickets
  <2> QED BY <2>1, <2>2
<1>5. CASE Record
  <2>1. /\ UNCHANGED <<mode, status, clicks, approval, effects>>
        /\ pc = "record" /\ pc' = "tools"
    BY <1>5 DEF Record
  <2>2. Tickets' = Tickets
    BY <2>1 DEF Tickets
  <2> QED BY <2>1, <2>2
<1> QED BY <1>1, <1>2, <1>3, <1>4, <1>5, Steps DEF Inv

\* The whole session, whatever Claude answers and whenever anybody clicks,
\* keeps the promise of WriteGate (ARCHITECTURE.md, "Autonomie-Modi").
THEOREM Refines == Spec => ImplementsWriteGate
<1>1. Init => Gate!Init
  BY DEF Init, Gate!Init, Tickets
<1>2. ASSUME Inv, Inv', [Next]_vars PROVE [Gate!Next]_Gate!vars
  BY <1>2, GateStep
<1> QED BY <1>1, <1>2, Invariant, PTL DEF Spec, ImplementsWriteGate
==============================================================================

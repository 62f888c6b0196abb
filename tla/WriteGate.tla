------------------------------ MODULE WriteGate ------------------------------
(***************************************************************************)
(* What a healing session promises to the owner of the cluster, with every *)
(* detail of the conversation with Claude left out (ARCHITECTURE.md,       *)
(* "Autonomie-Modi"): while the session runs it may change the cluster; in *)
(* MANUAL mode each change spends one approval that an administrator gave, *)
(* and an approval is spent at most once.  Once the session is over it     *)
(* changes nothing.  HealingAgent implements this specification.           *)
(***************************************************************************)
EXTENDS Naturals

CONSTANT Modes          \* the autonomy modes a session may be started in

VARIABLES
  gateMode,             \* the session's autonomy mode
  issued,               \* number of administrator decisions taken so far
  tickets,              \* the approvals given and not spent
  applied,              \* the calls that changed the cluster
  over                  \* has the session ended?

vars == <<gateMode, issued, tickets, applied, over>>

Init ==
  /\ gateMode \in Modes
  /\ issued = 0
  /\ tickets = {}
  /\ applied = {}
  /\ over = FALSE

\* An administrator approves: a ticket that never existed before.
Approve ==
  /\ issued' = issued + 1
  /\ tickets' = tickets \cup {issued + 1}
  /\ UNCHANGED <<gateMode, applied, over>>

\* An administrator rejects: no ticket.
Reject ==
  /\ issued' = issued + 1
  /\ UNCHANGED <<gateMode, tickets, applied, over>>

\* The cluster changes.  In MANUAL mode the change costs a ticket.
Change ==
  /\ ~over
  /\ \E call \in applied' \ applied : applied' = applied \cup {call}
  /\ \/ gateMode # "MANUAL" /\ UNCHANGED tickets
     \/ \E t \in tickets : tickets' = tickets \ {t}
  /\ UNCHANGED <<gateMode, issued, over>>

\* A ticket is spent on a call that did not change the cluster.
Waste ==
  /\ \E t \in tickets : tickets' = tickets \ {t}
  /\ UNCHANGED <<gateMode, issued, applied, over>>

\* The session ends.
Close ==
  /\ ~over
  /\ over' = TRUE
  /\ UNCHANGED <<gateMode, issued, tickets, applied>>

Next == Approve \/ Reject \/ Change \/ Waste \/ Close

Spec == Init /\ [][Next]_vars
==============================================================================

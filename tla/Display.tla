------------------------------- MODULE Display -------------------------------
(***************************************************************************)
(* What the list of problems promises to the person who looks at it, with  *)
(* the workers, the cache and the requests left out: of each cluster it    *)
(* shows nothing, or a state the cluster has really been in and no older   *)
(* one than it has shown before.  Only of clusters for which a stopped     *)
(* worker's last write came late may it fall back.  ProblemList implements *)
(* this specification.                                                     *)
(***************************************************************************)
EXTENDS Naturals

CONSTANT Clusters       \* the clusters that may be shown

VARIABLES
  truth,                \* the clusters: a number that grows with each change
  display,              \* what is shown of each cluster, 0 for nothing
  best,                 \* the newest state of each cluster ever shown
  spoilt                \* the clusters that may fall back

vars == <<truth, display, best, spoilt>>

Init ==
  /\ truth \in [Clusters -> Nat]
  /\ display = [c \in Clusters |-> 0]
  /\ best = [c \in Clusters |-> 0]
  /\ spoilt = {}

\* A cluster's problems change.
Change ==
  /\ \E c \in Clusters : truth' = [truth EXCEPT ![c] = @ + 1]
  /\ UNCHANGED <<display, best, spoilt>>

\* A stopped worker's write comes late.
Spoil ==
  /\ \E c \in Clusters : spoilt' = spoilt \cup {c}
  /\ UNCHANGED <<truth, display, best>>

\* A state of c that may be shown now.
Showable(c, v) == v <= truth[c] /\ (c \notin spoilt => v >= best[c])

\* The list is replaced.
Show ==
  /\ display' \in [Clusters -> Nat]
  /\ \A c \in Clusters : display'[c] = 0 \/ Showable(c, display'[c])
  /\ best' = [c \in Clusters |-> IF display'[c] > best[c] THEN display'[c] ELSE best[c]]
  /\ UNCHANGED <<truth, spoilt>>

Next == Change \/ Spoil \/ Show

Spec == Init /\ [][Next]_vars
==============================================================================

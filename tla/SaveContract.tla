----------------------------- MODULE SaveContract -----------------------------
(***************************************************************************)
(* What an administrator may rely on when the settings are saved ("Gespei- *)
(* chert" in Settings.tsx over PUT /api/settings): a save is made of what  *)
(* was typed and of values its page had read, one for each setting it      *)
(* sends; each of them is stored once at most, at a moment of its own, and *)
(* success is shown of a save that has stored them all.  A save that fails *)
(* stops where it is and takes nothing back.  Nothing else is ever stored. *)
(* Settings implements this specification.                                 *)
(***************************************************************************)
EXTENDS Naturals, Sequences

CONSTANTS
  Keys,           \* the settings
  Typed,          \* what may have been typed: a value for some of the settings
  Saves,
  Screens,        \* where success is shown
  NoSave

VARIABLES
  past,           \* the values a setting has had; the last one is its value
  state,          \* where a save stands
  typed,          \* what was typed for it
  read,           \* the value its page had read: its place in past, 0 for none
  left,           \* the settings still to be stored
  told            \* the save whose success a screen shows

vars == <<past, state, typed, read, left, told>>

Init ==
  /\ \A k \in Keys : Len(past[k]) = 1
  /\ state = [s \in Saves |-> "unsent"]
  /\ told = [p \in Screens |-> NoSave]

Begin(s) ==
  /\ state[s] = "unsent"
  /\ state' = [state EXCEPT ![s] = "storing"]
  /\ typed'[s] \in Typed
  /\ \A k \in Keys : read'[s][k] \in 0..Len(past[k])
  /\ left'[s] = {k \in Keys : k \in DOMAIN typed'[s] \/ read'[s][k] # 0}
  /\ \A q \in Saves \ {s} :
       typed'[q] = typed[q] /\ read'[q] = read[q] /\ left'[q] = left[q]
  /\ UNCHANGED <<past, told>>

\* What a save makes of a setting.
Wanted(s, k) ==
  IF k \in DOMAIN typed[s] THEN typed[s][k] ELSE past[k][read[s][k]]

Store(s, k) ==
  /\ state[s] = "storing" /\ k \in left[s]
  /\ past' = [past EXCEPT ![k] = Append(@, Wanted(s, k))]
  /\ left' = [left EXCEPT ![s] = @ \ {k}]
  /\ UNCHANGED <<state, typed, read, told>>

\* The setting it fails at may have been stored.
Fail(s, k) ==
  /\ state[s] = "storing" /\ k \in left[s]
  /\ state' = [state EXCEPT ![s] = "failed"]
  /\ past' = past \/ past' = [past EXCEPT ![k] = Append(@, Wanted(s, k))]
  /\ UNCHANGED <<typed, read, left, told>>

Tell(p, s) ==
  /\ state[s] = "storing" /\ left[s] = {}
  /\ told' = [told EXCEPT ![p] = s]
  /\ UNCHANGED <<past, state, typed, read, left>>

Forget(p) ==
  /\ told' = [told EXCEPT ![p] = NoSave]
  /\ UNCHANGED <<past, state, typed, read, left>>

Next ==
  \/ \E s \in Saves : Begin(s) \/ \E k \in Keys : Store(s, k) \/ Fail(s, k)
  \/ \E p \in Screens : Forget(p) \/ \E s \in Saves : Tell(p, s)

Spec == Init /\ [][Next]_vars
==============================================================================

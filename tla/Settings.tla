------------------------------- MODULE Settings -------------------------------
(***************************************************************************)
(* The settings: the handlers of internal/api/settings.go over their table *)
(* and the pages of the administrators (Settings.tsx).  A page sends all   *)
(* it has loaded together with what has been typed into it; the handler    *)
(* stores one setting after the other, in the order of a Go map, which is  *)
(* any order.                                                              *)
(***************************************************************************)
EXTENDS Naturals, Sequences, TLC

CONSTANTS
  NKeys,          \* number of settings; a setting is its place in settingKeys
  Values,         \* what may be typed
  Initial,        \* the value the migration puts there
  Pages,          \* the pages that are open
  Requests,       \* bound: the PUT requests there may be
  NoRequest,
  MaxEdits        \* bound: changes typed

ASSUME SettingsAssumption ==
  /\ NKeys \in Nat \ {0} /\ MaxEdits \in Nat
  /\ Initial \notin Values /\ NoRequest \notin Requests

VARIABLES
  log,            \* the table with its history: the row of a key is the last entry
  load,           \* a page's GET: the next key, 0 for none, and what was read
  data,           \* what a page has loaded: for each key the entry read, 0 for none
  form,           \* what has been typed into a page
  page,           \* how far a page is, and whether a save of its is pending
  request,        \* the request of a page's last save
  tick,           \* the request whose success a page shows ("Gespeichert")
  put,            \* the PUT handlers
  edits           \* number of changes typed so far

vars == <<log, load, data, form, page, request, tick, put, edits>>

Keys == 1..NKeys
Entry == [value : Values \cup {Initial}, by : Requests \cup {NoRequest}]
\* What the table holds now.
Row(k) == log[k][Len(log[k])]

Partial(S) == UNION {[K -> S] : K \in SUBSET Keys}
Nothing == [k \in Keys |-> 0]
Resting == [at |-> 0, got |-> Nothing]
Beginning == [at |-> 1, got |-> Nothing]
Unsent == [state |-> "unsent", left |-> {}, body |-> <<>>, typed |-> <<>>,
           read |-> Nothing]

Init ==
  /\ log = [k \in Keys |-> <<[value |-> Initial, by |-> NoRequest]>>]
  /\ load = [p \in Pages |-> Resting]
  /\ data = [p \in Pages |-> Nothing]
  /\ form = [p \in Pages |-> <<>>]
  /\ page = [p \in Pages |-> "closed"]
  /\ request = [p \in Pages |-> NoRequest]
  /\ tick = [p \in Pages |-> NoRequest]
  /\ put = [r \in Requests |-> Unsent]
  /\ edits = 0

-----------------------------------------------------------------------------
(* Loading: when a page is opened and after it has saved.  The reloads when  *)
(* its window gets the focus only bring it nearer to the table.             *)

Open(p) ==
  /\ page[p] = "closed"
  /\ page' = [page EXCEPT ![p] = "loading"]
  /\ load' = [load EXCEPT ![p] = Beginning]
  /\ UNCHANGED <<log, data, form, request, tick, put, edits>>

\* MUTANT of Loaded: a page without data goes on loading.
LoadedWithData(p) ==
  page' = [page EXCEPT ![p] = IF @ = "loading" /\ data[p] # Nothing THEN "open" ELSE @]

\* Before the first load has ended there is no form.
Loaded(p) == page' = [page EXCEPT ![p] = IF @ = "loading" THEN "open" ELSE @]

\* GetSetting of the next key; a key that cannot be read is left out.  With the
\* last one the page has its data.
GetSetting(p) ==
  LET k == load[p].at
  IN  /\ k # 0
      /\ \E entry \in {Len(log[k]), 0} :
           LET got == [load[p].got EXCEPT ![k] = entry]
           IN  IF k < NKeys
               THEN /\ load' = [load EXCEPT ![p] = [at |-> k + 1, got |-> got]]
                    /\ UNCHANGED <<data, page>>
               ELSE /\ data' = [data EXCEPT ![p] = got]
                    /\ load' = [load EXCEPT ![p] = Resting]
                    /\ Loaded(p)
      /\ UNCHANGED <<log, form, request, tick, put, edits>>

\* The request fails for good; what was loaded before stays.
LoadFails(p) ==
  /\ load[p].at # 0
  /\ load' = [load EXCEPT ![p] = Resting]
  /\ Loaded(p)
  /\ UNCHANGED <<log, data, form, request, tick, put, edits>>

-----------------------------------------------------------------------------
(* Saving.                                                                  *)

\* f with the value v for k.
With(f, k, v) == [j \in DOMAIN f \cup {k} |-> IF j = k THEN v ELSE f[j]]

\* handleChange; typing goes on while a save is under way.
Type(p, k, v) ==
  /\ page[p] \in {"open", "pending"}
  /\ edits < MaxEdits /\ edits' = edits + 1
  /\ form' = [form EXCEPT ![p] = With(@, k, v)]
  /\ tick' = [tick EXCEPT ![p] = NoRequest]
  /\ UNCHANGED <<log, load, data, page, request, put>>

Read(p) == {k \in Keys : data[p][k] # 0}

\* MUTANT of Merged: what is loaded wins over what is typed.
MergedOther(p) ==
  [k \in Read(p) \cup DOMAIN form[p] |->
     IF k \in Read(p) THEN log[k][data[p][k]].value ELSE form[p][k]]

\* MUTANT of Merged: the fields that show a default are sent with it.
MergedDefaults(p) ==
  [k \in Keys |->
     IF k \in DOMAIN form[p] THEN form[p][k]
     ELSE IF k \in Read(p) THEN log[k][data[p][k]].value ELSE Initial]

\* What is typed wins over what is loaded.  Fields that are neither show a
\* default, which is not sent.
Merged(p) ==
  [k \in Read(p) \cup DOMAIN form[p] |->
     IF k \in DOMAIN form[p] THEN form[p][k] ELSE log[k][data[p][k]].value]

\* handleSubmit: the button is disabled while a save is pending.  What is shown of
\* an earlier save stays.
Submit(p) ==
  /\ page[p] = "open"
  /\ \E r \in Requests :
       /\ put[r].state = "unsent"
       /\ put' = [put EXCEPT ![r] =
                    [state |-> "storing", left |-> DOMAIN Merged(p),
                     body |-> Merged(p), typed |-> form[p], read |-> data[p]]]
       /\ request' = [request EXCEPT ![p] = r]
  /\ page' = [page EXCEPT ![p] = "pending"]
  /\ UNCHANGED <<log, load, data, form, tick, edits>>

\* The row of k becomes what the request wants it to be.
Store(r, k) == log' = [log EXCEPT ![k] = Append(@, [value |-> put[r].body[k], by |-> r])]

SetSetting(r) ==
  /\ put[r].state = "storing"
  /\ \E k \in put[r].left :
       Store(r, k) /\ put' = [put EXCEPT ![r].left = @ \ {k}]
  /\ UNCHANGED <<load, data, form, page, request, tick, edits>>

\* MUTANT of OnError: the handler goes on with the other settings.
OnErrorGoOn(r, k) == put' = [put EXCEPT ![r].left = @ \ {k}]

\* The handler gives up at the first error; what is stored stays.
OnError(r, k) == put' = [put EXCEPT ![r].state = "failed"]

\* The table does not answer, or answers an error; it may have been written.
SetFails(r) ==
  /\ put[r].state = "storing"
  /\ \E k \in put[r].left :
       /\ OnError(r, k)
       /\ Store(r, k) \/ UNCHANGED log
  /\ UNCHANGED <<load, data, form, page, request, tick, edits>>

-----------------------------------------------------------------------------
(* The answer.                                                              *)

\* All is stored.  Settings are loaded anew; a load under way is dropped.
Saved(p) ==
  /\ page[p] = "pending"
  /\ put[request[p]].state = "storing" /\ put[request[p]].left = {}
  /\ page' = [page EXCEPT ![p] = "open"]
  /\ tick' = [tick EXCEPT ![p] = request[p]]
  /\ load' = [load EXCEPT ![p] = Beginning]
  /\ UNCHANGED <<log, data, form, request, put, edits>>

\* An error, or no answer within the write timeout: the handler may still work.
NotSaved(p) ==
  /\ page[p] = "pending"
  /\ page' = [page EXCEPT ![p] = "open"]
  /\ UNCHANGED <<log, load, data, form, request, tick, put, edits>>

\* What is shown of a success goes away after two seconds, or earlier when the
\* timer of the save before runs out.
Fades(p) ==
  /\ tick[p] # NoRequest
  /\ tick' = [tick EXCEPT ![p] = NoRequest]
  /\ UNCHANGED <<log, load, data, form, page, request, put, edits>>

Next ==
  \/ \E p \in Pages :
       \/ Open(p) \/ GetSetting(p) \/ LoadFails(p)
       \/ Submit(p) \/ Saved(p) \/ NotSaved(p) \/ Fades(p)
       \/ \E k \in Keys, v \in Values : Type(p, k, v)
  \/ \E r \in Requests : SetSetting(r) \/ SetFails(r)

Spec == Init /\ [][Next]_vars

-----------------------------------------------------------------------------

\* Pages and requests are interchangeable.
Symmetry == Permutations(Pages) \cup Permutations(Requests)

\* Every variable has its type; a page that is loading has a load under way, one
\* that is saving has sent a request.
TypeOK ==
  /\ log \in [Keys -> Seq(Entry)] /\ \A k \in Keys : Len(log[k]) > 0
  /\ load \in [Pages -> [at : 0..NKeys, got : [Keys -> Nat]]]
  /\ data \in [Pages -> [Keys -> Nat]]
  /\ \A p \in Pages, k \in Keys :
       data[p][k] <= Len(log[k]) /\ load[p].got[k] <= Len(log[k])
  /\ form \in [Pages -> Partial(Values)]
  /\ page \in [Pages -> {"closed", "loading", "open", "pending"}]
  /\ \A p \in Pages :
       /\ page[p] = "loading" => load[p].at # 0
       /\ page[p] = "pending" =>
            request[p] \in Requests /\ put[request[p]].state # "unsent"
  /\ request \in [Pages -> Requests \cup {NoRequest}]
  /\ tick \in [Pages -> Requests \cup {NoRequest}]
  /\ edits \in 0..MaxEdits
  /\ put \in [Requests ->
       [state : {"unsent", "storing", "failed"}, left : SUBSET Keys,
        body : Partial(Values \cup {Initial}), typed : Partial(Values),
        read : [Keys -> Nat]]]

\* When a page says "Gespeichert", each value that had been typed into it has been
\* stored by the save it speaks of, whatever other saves did before or after
\* (settings.go:47-56, Settings.tsx:33-40).
SavedIsStored ==
  \A p \in Pages : tick[p] # NoRequest =>
    LET r == tick[p]
    IN  \A k \in DOMAIN put[r].typed :
          \E i \in DOMAIN log[k] : log[k][i] = [value |-> put[r].typed[k], by |-> r]

\* A save gives a setting that its administrator did not type another value only
\* if that setting was stored after the page had read it: a setting the page
\* could not load is left alone (settings.go:26-32, Settings.tsx:42).
OnlyStaleReverts ==
  [][\A k \in Keys :
       log'[k] # log[k] =>
         LET new == Row(k)'
             old == Row(k)
         IN  \/ k \in DOMAIN put[new.by].typed
             \/ new.value = old.value
             \/ put[new.by].read[k] \in 1..(Len(log[k]) - 1)]_vars

-----------------------------------------------------------------------------

\* The pages and their loads left out, the table is the values its rows have had
\* and a save what was typed for it and what its page had read.
Saving == INSTANCE SaveContract WITH
  Typed <- Partial(Values), Saves <- Requests, Screens <- Pages, NoSave <- NoRequest,
  past <- [k \in Keys |-> [i \in DOMAIN log[k] |-> log[k][i].value]],
  state <- [r \in Requests |-> put[r].state],
  typed <- [r \in Requests |-> put[r].typed],
  read <- [r \in Requests |-> put[r].read],
  left <- [r \in Requests |-> put[r].left],
  told <- tick

\* Each save is made of what was typed and what its page had read and nothing
\* else, is stored setting by setting and stops at its first error; only a save
\* that has stored all of it is shown as such (settings.go:37-60,
\* Settings.tsx:18-43).
ImplementsSaveContract == Saving!Spec
==============================================================================

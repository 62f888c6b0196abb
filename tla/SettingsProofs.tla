---------------------------- MODULE SettingsProofs ----------------------------
(***************************************************************************)
(* Theorems about Settings, for any number of settings, values, pages and  *)
(* requests.  A request carries what was typed and what was loaded, and    *)
(* what it has dealt with is in the table (Carried).                       *)
(***************************************************************************)
EXTENDS Settings, TLAPS

\* A request that has been sent holds what was typed and, for the rest, what its
\* page had read of the table; what was typed and is not left has been stored.
CarriedBy(r) ==
  /\ put[r].left \subseteq DOMAIN put[r].body
  /\ \A k \in DOMAIN put[r].typed :
       k \in DOMAIN put[r].body /\ put[r].body[k] = put[r].typed[k]
  /\ \A k \in DOMAIN put[r].typed :
       put[r].state = "storing" /\ k \notin put[r].left =>
         \E i \in DOMAIN log[k] :
           log[k][i] = [value |-> put[r].typed[k], by |-> r]
  /\ \A k \in DOMAIN put[r].body \ DOMAIN put[r].typed :
       /\ put[r].read[k] \in 1..Len(log[k])
       /\ put[r].body[k] = log[k][put[r].read[k]].value

Carried == \A r \in Requests : put[r].state # "unsent" => CarriedBy(r)

\* A request whose success is shown has been dealt with.
Finished ==
  \A p \in Pages : tick[p] # NoRequest =>
    put[tick[p]].state = "storing" /\ put[tick[p]].left = {}

Inv == TypeOK /\ Carried /\ Finished

-----------------------------------------------------------------------------

\* A partial function is a function on some of the keys.
LEMMA PartialIs ==
  ASSUME NEW S
  PROVE  /\ \A f \in Partial(S) : DOMAIN f \subseteq Keys /\ f \in [DOMAIN f -> S]
         /\ \A K \in SUBSET Keys : \A f \in [K -> S] : f \in Partial(S)
BY DEF Partial

\* Entries already in the table stay where they are.
Longer(k) ==
  /\ Len(log'[k]) >= Len(log[k])
  /\ \A i \in 1..Len(log[k]) : log'[k][i] = log[k][i]

\* Storing adds one entry to one row.
LEMMA Stored ==
  ASSUME TypeOK, NEW r \in Requests, NEW k \in Keys, Store(r, k),
         put[r].body[k] \in Values \cup {Initial}
  PROVE  /\ log' \in [Keys -> Seq(Entry)]
         /\ \A j \in Keys : Longer(j) /\ Len(log'[j]) > 0
         /\ Len(log'[k]) = Len(log[k]) + 1
         /\ log'[k][Len(log'[k])] = [value |-> put[r].body[k], by |-> r]
         /\ \A j \in Keys \ {k} : log'[j] = log[j]
<1> DEFINE e == [value |-> put[r].body[k], by |-> r]
<1>1. e \in Entry
  BY DEF Entry
<1>2. log \in [Keys -> Seq(Entry)] /\ \A j \in Keys : Len(log[j]) \in Nat /\ Len(log[j]) > 0
  BY DEF TypeOK
<1>3. log' = [log EXCEPT ![k] = Append(log[k], e)]
  BY DEF Store
<1> HIDE DEF e
<1>4. /\ Append(log[k], e) \in Seq(Entry)
      /\ Len(Append(log[k], e)) = Len(log[k]) + 1
      /\ Append(log[k], e)[Len(log[k]) + 1] = e
      /\ \A i \in 1..Len(log[k]) : Append(log[k], e)[i] = log[k][i]
  BY <1>1, <1>2
<1>5. log'[k] = Append(log[k], e) /\ \A j \in Keys \ {k} : log'[j] = log[j]
  BY <1>2, <1>3
<1>6. log' \in [Keys -> Seq(Entry)]
  BY <1>2, <1>3, <1>4
<1>7. \A j \in Keys : Longer(j) /\ Len(log'[j]) > 0
  <2>1. Longer(k) /\ Len(log'[k]) > 0
    BY <1>2, <1>4, <1>5 DEF Longer
  <2>2. ASSUME NEW j \in Keys \ {k} PROVE Longer(j) /\ Len(log'[j]) > 0
    BY <1>2, <1>5, <2>2 DEF Longer
  <2> QED BY <2>1, <2>2
<1> QED BY <1>4, <1>5, <1>6, <1>7 DEF e

\* What a request carries remains true of a table that only grows, as it gives up
\* or goes on: what it deals with next must be stored.
LEMMA CarriedOn ==
  ASSUME TypeOK, NEW r \in Requests, CarriedBy(r), \A k \in Keys : Longer(k),
         log' \in [Keys -> Seq(Entry)],
         put'[r].typed = put[r].typed, put'[r].body = put[r].body,
         put'[r].read = put[r].read, put'[r].left \subseteq put[r].left,
         put'[r].state \in {put[r].state, "failed"},
         \A k \in Keys : put'[r].state = "storing" /\ k \in put[r].left \ put'[r].left =>
           log'[k][Len(log'[k])] = [value |-> put[r].body[k], by |-> r] /\ Len(log'[k]) > 0
  PROVE  CarriedBy(r)'
<1>1. /\ DOMAIN put[r].typed \subseteq Keys /\ DOMAIN put[r].body \subseteq Keys
      /\ \A k \in Keys : put[r].read[k] \in Nat
  BY PartialIs DEF TypeOK
<1>2. \A k \in Keys : Len(log[k]) \in Nat /\ Len(log'[k]) \in Nat
                      /\ DOMAIN log[k] = 1..Len(log[k]) /\ DOMAIN log'[k] = 1..Len(log'[k])
  BY DEF TypeOK
<1>3. ASSUME NEW k \in DOMAIN put[r].typed,
             put'[r].state = "storing", k \notin put'[r].left
      PROVE  \E i \in DOMAIN log'[k] :
               log'[k][i] = [value |-> put[r].typed[k], by |-> r]
  <2>1. k \in Keys /\ put[r].state = "storing" /\ put[r].body[k] = put[r].typed[k]
    BY <1>1, <1>3 DEF CarriedBy
  <2>2. CASE k \in put[r].left
    BY <1>2, <1>3, <2>1, <2>2
  <2>3. CASE k \notin put[r].left
    <3>1. PICK i \in DOMAIN log[k] : log[k][i] = [value |-> put[r].typed[k], by |-> r]
      BY <1>3, <2>1, <2>3 DEF CarriedBy
    <3>2. i \in DOMAIN log'[k] /\ log'[k][i] = log[k][i]
      <4>1. Longer(k) /\ i \in 1..Len(log[k])
        BY <1>2, <2>1, <3>1
      <4> QED BY <1>2, <2>1, <4>1 DEF Longer
    <3> QED BY <3>1, <3>2
  <2> QED BY <2>2, <2>3
<1>4. ASSUME NEW k \in DOMAIN put[r].body \ DOMAIN put[r].typed
      PROVE  /\ put[r].read[k] \in 1..Len(log'[k])
             /\ put[r].body[k] = log'[k][put[r].read[k]].value
  <2>1. /\ k \in Keys /\ put[r].read[k] \in 1..Len(log[k])
        /\ put[r].body[k] = log[k][put[r].read[k]].value
    BY <1>1, <1>4 DEF CarriedBy
  <2>2. put[r].read[k] \in 1..Len(log'[k])
        /\ log'[k][put[r].read[k]] = log[k][put[r].read[k]]
    BY <1>2, <2>1 DEF Longer
  <2> QED BY <2>1, <2>2
<1>5. /\ put'[r].left \subseteq DOMAIN put'[r].body
      /\ \A k \in DOMAIN put'[r].typed :
           k \in DOMAIN put'[r].body /\ put'[r].body[k] = put'[r].typed[k]
  BY DEF CarriedBy
<1>6. \A k \in DOMAIN put'[r].typed :
        put'[r].state = "storing" /\ k \notin put'[r].left =>
          \E i \in DOMAIN log'[k] :
            log'[k][i] = [value |-> put'[r].typed[k], by |-> r]
  BY <1>3
<1>7. \A k \in DOMAIN put'[r].body \ DOMAIN put'[r].typed :
        /\ put'[r].read[k] \in 1..Len(log'[k])
        /\ put'[r].body[k] = log'[k][put'[r].read[k]].value
  BY <1>4
<1> QED BY <1>5, <1>6, <1>7 DEF CarriedBy

\* Requests that a step leaves alone.
LEMMA CarriedOthers ==
  ASSUME TypeOK, NEW r \in Requests, CarriedBy(r), \A k \in Keys : Longer(k),
         log' \in [Keys -> Seq(Entry)], put'[r] = put[r]
  PROVE  CarriedBy(r)'
BY CarriedOn

\* What a request carries does not depend on the pages.
LEMMA PagesApart ==
  ASSUME Inv, UNCHANGED <<log, put>>
  PROVE  Carried'
<1>1. TypeOK /\ Carried /\ log' = log /\ put' = put /\ log' \in [Keys -> Seq(Entry)]
  BY DEF Inv, TypeOK
<1>2. \A k \in Keys : Len(log[k]) \in Nat
  BY <1>1
<1>3. \A k \in Keys : Longer(k)
  BY <1>1, <1>2 DEF Longer
<1>4. ASSUME NEW r \in Requests, put'[r].state # "unsent"
      PROVE  CarriedBy(r)'
  <2>1. put[r].state # "unsent" /\ CarriedBy(r)
    BY <1>1, <1>4 DEF Carried
  <2>2. put'[r] = put[r]
    BY <1>1
  <2> QED BY <1>1, <1>3, <2>1, <2>2, CarriedOthers
<1> QED BY <1>4 DEF Carried

\* The invariant holds at the start.
LEMMA InitInv == Init => Inv
<1> SUFFICES ASSUME Init PROVE Inv
  OBVIOUS
<1> DEFINE first == [value |-> Initial, by |-> NoRequest]
<1>1. log = [k \in Keys |-> <<first>>] /\ first \in Entry
  BY DEF Init, Entry
<1>2. log \in [Keys -> Seq(Entry)] /\ \A k \in Keys : Len(log[k]) > 0
  <2> HIDE DEF first
  <2> QED BY <1>1
<1>3. <<>> \in Partial(Values) /\ <<>> \in Partial(Values \cup {Initial})
  <2>1. \A S : <<>> \in [{} -> S]
    OBVIOUS
  <2> QED BY <2>1, PartialIs
<1>4. Nothing \in [Keys -> Nat] /\ 0 \in 0..NKeys /\ 0 \in 0..MaxEdits
  BY SettingsAssumption DEF Nothing
<1>5. TypeOK
  <2>1. \A p \in Pages, k \in Keys : data[p][k] <= Len(log[k])
    BY <1>1, <1>2 DEF Init, Nothing
  <2>5. \A p \in Pages, k \in Keys : load[p].got[k] <= Len(log[k])
    BY <1>1, <1>2 DEF Init, Resting, Nothing
  <2>2. load \in [Pages -> [at : 0..NKeys, got : [Keys -> Nat]]]
        /\ data \in [Pages -> [Keys -> Nat]]
    BY <1>4 DEF Init, Resting
  <2>3. put \in [Requests ->
          [state : {"unsent", "storing", "failed"}, left : SUBSET Keys,
           body : Partial(Values \cup {Initial}), typed : Partial(Values),
           read : [Keys -> Nat]]]
    BY <1>3, <1>4 DEF Init, Unsent
  <2>4. form \in [Pages -> Partial(Values)] /\ edits \in 0..MaxEdits
    BY <1>3, <1>4 DEF Init
  <2> QED BY <1>2, <2>1, <2>2, <2>3, <2>4, <2>5 DEF Init, TypeOK
<1> QED BY <1>5 DEF Inv, Init, Carried, Finished, Unsent

\* A load at rest and one that begins have read nothing.
LEMMA Loads ==
  ASSUME TypeOK
  PROVE  \A l \in {Resting, Beginning} :
           /\ l \in [at : 0..NKeys, got : [Keys -> Nat]]
           /\ \A j \in Keys : l.got[j] <= Len(log[j])
<1>1. Nothing \in [Keys -> Nat] /\ \A j \in Keys : Nothing[j] = 0
  BY DEF Nothing
<1>2. \A j \in Keys : Len(log[j]) \in Nat
  BY DEF TypeOK
<1>3. 0 \in 0..NKeys /\ 1 \in 0..NKeys
  BY SettingsAssumption
<1> QED BY <1>1, <1>2, <1>3 DEF Resting, Beginning

\* A page is opened.
LEMMA OpenKeeps ==
  ASSUME Inv, NEW p \in Pages, Open(p)
  PROVE  Inv'
<1>1. TypeOK'
  <2>1. Beginning \in [at : 0..NKeys, got : [Keys -> Nat]] /\ Beginning.at # 0
        /\ \A j \in Keys : Beginning.got[j] <= Len(log[j])
    BY Loads DEF Inv, Beginning
  <2> QED BY <2>1 DEF Inv, TypeOK, Open
<1> QED BY <1>1, PagesApart DEF Inv, Open, Finished, TypeOK

\* A setting is read.
LEMMA GetSettingKeeps ==
  ASSUME Inv, NEW p \in Pages, GetSetting(p)
  PROVE  Inv'
<1> DEFINE k == load[p].at
<1>1. TypeOK /\ k # 0 /\ k \in Keys /\ Len(log[k]) \in Nat
      /\ UNCHANGED <<log, form, request, tick, put, edits>>
  <2>1. TypeOK /\ k # 0 /\ UNCHANGED <<log, form, request, tick, put, edits>>
    BY DEF Inv, GetSetting
  <2>2. k \in Keys
    BY <2>1, SettingsAssumption DEF TypeOK, Keys
  <2>3. Len(log[k]) \in Nat
    BY <2>1, <2>2 DEF TypeOK
  <2> QED BY <2>1, <2>2, <2>3
<1>2. PICK entry \in {Len(log[k]), 0} :
        LET got == [load[p].got EXCEPT ![k] = entry]
        IN  IF k < NKeys
            THEN /\ load' = [load EXCEPT ![p] = [at |-> k + 1, got |-> got]]
                 /\ UNCHANGED <<data, page>>
            ELSE /\ data' = [data EXCEPT ![p] = got]
                 /\ load' = [load EXCEPT ![p] = Resting]
                 /\ Loaded(p)
  BY DEF GetSetting
<1> DEFINE got == [load[p].got EXCEPT ![k] = entry]
<1>3. got \in [Keys -> Nat]
  BY <1>1, <1>2 DEF TypeOK
<1>4. \A j \in Keys : got[j] <= Len(log[j])
  BY <1>1, <1>2 DEF TypeOK
<1>5. Resting \in [at : 0..NKeys, got : [Keys -> Nat]]
      /\ \A j \in Keys : Resting.got[j] <= Len(log[j])
  BY <1>1, Loads
<1> HIDE DEF got
<1>6. CASE k < NKeys
  <2>1. load' = [load EXCEPT ![p] = [at |-> k + 1, got |-> got]] /\ UNCHANGED <<data, page>>
    BY <1>2, <1>6 DEF got
  <2>2. k + 1 \in 0..NKeys /\ k + 1 # 0
    BY <1>1, <1>6, SettingsAssumption DEF Keys
  <2>3. TypeOK'
    BY <1>1, <1>3, <1>4, <2>1, <2>2 DEF TypeOK
  <2> QED BY <1>1, <2>1, <2>3, PagesApart DEF Inv, Finished
<1>7. CASE ~(k < NKeys)
  <2>1. data' = [data EXCEPT ![p] = got] /\ load' = [load EXCEPT ![p] = Resting]
        /\ Loaded(p)
    BY <1>2, <1>7 DEF got
  <2>2. TypeOK'
    BY <1>1, <1>3, <1>4, <1>5, <2>1 DEF TypeOK, Loaded
  <2>3. Finished'
    BY <1>1, <2>1 DEF Inv, Finished, Loaded, TypeOK
  <2> QED BY <1>1, <2>2, <2>3, PagesApart DEF Inv
<1> QED BY <1>6, <1>7

\* A load fails.
LEMMA LoadFailsKeeps ==
  ASSUME Inv, NEW p \in Pages, LoadFails(p)
  PROVE  Inv'
<1>1. Resting \in [at : 0..NKeys, got : [Keys -> Nat]]
      /\ \A j \in Keys : Resting.got[j] <= Len(log[j])
  BY Loads DEF Inv
<1>2. TypeOK'
  BY <1>1 DEF Inv, TypeOK, LoadFails, Loaded
<1>3. Finished'
  BY DEF Inv, TypeOK, Finished, LoadFails, Loaded
<1> QED BY <1>2, <1>3, PagesApart DEF Inv, LoadFails

\* Something is typed.
LEMMA TypeKeeps ==
  ASSUME Inv, NEW p \in Pages, NEW k \in Keys, NEW v \in Values, Type(p, k, v)
  PROVE  Inv'
<1>1. form[p] \in Partial(Values)
  BY DEF Inv, TypeOK
<1>2. With(form[p], k, v) \in Partial(Values)
  <2>1. DOMAIN form[p] \cup {k} \in SUBSET Keys
        /\ \A j \in DOMAIN form[p] : form[p][j] \in Values
    BY <1>1, PartialIs
  <2>2. With(form[p], k, v) \in [DOMAIN form[p] \cup {k} -> Values]
    BY <2>1 DEF With
  <2> QED BY <2>1, <2>2, PartialIs
<1>3. edits' \in 0..MaxEdits
  BY SettingsAssumption DEF Inv, TypeOK, Type
<1>4. TypeOK'
  BY <1>2, <1>3 DEF Inv, TypeOK, Type
<1>5. Finished'
  BY DEF Inv, TypeOK, Finished, Type
<1> QED BY <1>4, <1>5, PagesApart DEF Inv, Type

\* A save is answered.
LEMMA SavedKeeps ==
  ASSUME Inv, NEW p \in Pages, Saved(p)
  PROVE  Inv'
<1>1. Beginning \in [at : 0..NKeys, got : [Keys -> Nat]] /\ Beginning.at # 0
      /\ \A j \in Keys : Beginning.got[j] <= Len(log[j])
  BY Loads DEF Inv, Beginning
<1>2. TypeOK'
  BY <1>1 DEF Inv, TypeOK, Saved
<1>3. Finished'
  BY DEF Inv, TypeOK, Finished, Saved
<1> QED BY <1>2, <1>3, PagesApart DEF Inv, Saved

\* What is shown of a success goes away.
LEMMA FadesKeeps ==
  ASSUME Inv, NEW p \in Pages, Fades(p)
  PROVE  Inv'
<1>1. TypeOK'
  BY DEF Inv, TypeOK, Fades
<1>2. Finished'
  BY DEF Inv, TypeOK, Finished, Fades
<1> QED BY <1>1, <1>2, PagesApart DEF Inv, Fades

\* A save is given up.
LEMMA NotSavedKeeps ==
  ASSUME Inv, NEW p \in Pages, NotSaved(p)
  PROVE  Inv'
<1>1. TypeOK'
  BY DEF Inv, TypeOK, NotSaved
<1>2. Finished'
  BY DEF Inv, TypeOK, Finished, NotSaved
<1> QED BY <1>1, <1>2, PagesApart DEF Inv, NotSaved

\* What a page sends is a request; it carries what was typed and read.
LEMMA SubmitKeeps ==
  ASSUME Inv, NEW p \in Pages, Submit(p)
  PROVE  Inv'
<1> DEFINE body == Merged(p)
<1>1. TypeOK /\ Carried /\ Finished /\ UNCHANGED <<log, load, data, form, tick, edits>>
      /\ page' = [page EXCEPT ![p] = "pending"]
  BY DEF Inv, Submit
<1>2. PICK r \in Requests :
        /\ put[r].state = "unsent"
        /\ put' = [put EXCEPT ![r] =
                     [state |-> "storing", left |-> DOMAIN body, body |-> body,
                      typed |-> form[p], read |-> data[p]]]
        /\ request' = [request EXCEPT ![p] = r]
  BY DEF Submit
<1>3. /\ form[p] \in Partial(Values) /\ DOMAIN form[p] \subseteq Keys
      /\ \A k \in DOMAIN form[p] : form[p][k] \in Values
      /\ data[p] \in [Keys -> Nat]
  BY <1>1, PartialIs DEF TypeOK
<1>4. \A k \in Read(p) : k \in Keys /\ data[p][k] \in 1..Len(log[k])
  BY <1>1, <1>3 DEF Read, TypeOK
<1>5. \A k \in Read(p) : log[k][data[p][k]].value \in Values \cup {Initial}
  <2> SUFFICES ASSUME NEW k \in Read(p)
               PROVE  log[k][data[p][k]].value \in Values \cup {Initial}
    OBVIOUS
  <2>1. log[k] \in Seq(Entry) /\ data[p][k] \in 1..Len(log[k])
    BY <1>1, <1>4 DEF TypeOK
  <2>2. log[k][data[p][k]] \in Entry
    BY <2>1
  <2> QED BY <2>2 DEF Entry
<1>6. /\ DOMAIN body = Read(p) \cup DOMAIN form[p]
      /\ \A k \in DOMAIN form[p] : body[k] = form[p][k]
      /\ \A k \in Read(p) \ DOMAIN form[p] : body[k] = log[k][data[p][k]].value
      /\ body \in [Read(p) \cup DOMAIN form[p] -> Values \cup {Initial}]
  BY <1>3, <1>5 DEF Merged
<1> HIDE DEF body
<1>7. body \in Partial(Values \cup {Initial}) /\ DOMAIN body \subseteq Keys
  <2>1. Read(p) \cup DOMAIN form[p] \in SUBSET Keys
    BY <1>3 DEF Read
  <2> QED BY <1>6, <2>1, PartialIs
<1>8. /\ put'[r] = [state |-> "storing", left |-> DOMAIN body, body |-> body,
                    typed |-> form[p], read |-> data[p]]
      /\ \A q \in Requests \ {r} : put'[q] = put[q]
      /\ put' \in [Requests ->
           [state : {"unsent", "storing", "failed"}, left : SUBSET Keys,
            body : Partial(Values \cup {Initial}), typed : Partial(Values),
            read : [Keys -> Nat]]]
  BY <1>1, <1>2, <1>3, <1>7 DEF TypeOK
<1>9. /\ request' \in [Pages -> Requests \cup {NoRequest}] /\ request'[p] = r
      /\ \A q \in Pages \ {p} : request'[q] = request[q] /\ page'[q] = page[q]
      /\ page'[p] = "pending"
      /\ page' \in [Pages -> {"closed", "loading", "open", "pending"}]
  BY <1>1, <1>2 DEF TypeOK
<1>10. TypeOK'
  <2>1. ASSUME NEW q \in Pages
        PROVE  /\ page'[q] = "loading" => load'[q].at # 0
               /\ page'[q] = "pending" =>
                    request'[q] \in Requests /\ put'[request'[q]].state # "unsent"
    <3>1. CASE q = p
      <4>1. page'[q] = "pending" /\ request'[q] = r
        BY <1>9, <3>1
      <4>2. put'[r].state = "storing"
        BY <1>8
      <4> QED BY <4>1, <4>2
    <3>2. CASE q # p
      <4>1. page'[q] = page[q] /\ request'[q] = request[q] /\ load' = load
        BY <1>1, <1>9, <3>2
      <4>2. \A x \in Requests : put[x].state # "unsent" => put'[x].state # "unsent"
        BY <1>8
      <4>3. page[q] = "loading" => load[q].at # 0
        BY <1>1 DEF TypeOK
      <4>4. page[q] = "pending" =>
              request[q] \in Requests /\ put[request[q]].state # "unsent"
        BY <1>1 DEF TypeOK
      <4> QED BY <4>1, <4>2, <4>3, <4>4
    <3> QED BY <3>1, <3>2
  <2>2. /\ log' \in [Keys -> Seq(Entry)] /\ \A k \in Keys : Len(log'[k]) > 0
        /\ load' \in [Pages -> [at : 0..NKeys, got : [Keys -> Nat]]]
        /\ data' \in [Pages -> [Keys -> Nat]]
        /\ \A q \in Pages, k \in Keys :
             data'[q][k] <= Len(log'[k]) /\ load'[q].got[k] <= Len(log'[k])
        /\ form' \in [Pages -> Partial(Values)] /\ edits' \in 0..MaxEdits
        /\ tick' \in [Pages -> Requests \cup {NoRequest}]
    BY <1>1 DEF TypeOK
  <2> QED BY <1>8, <1>9, <2>1, <2>2 DEF TypeOK
<1>11. Carried'
  <2>1. CarriedBy(r)'
    <3>1. log' = log
      BY <1>1
    <3> QED BY <1>4, <1>6, <1>8, <3>1 DEF CarriedBy
  <2>2. \A k \in Keys : Longer(k)
    <3>1. log' = log /\ \A k \in Keys : Len(log[k]) \in Nat
      BY <1>1 DEF TypeOK
    <3> QED BY <3>1 DEF Longer
  <2>3. ASSUME NEW q \in Requests \ {r}, put'[q].state # "unsent" PROVE CarriedBy(q)'
    <3>1. put'[q] = put[q] /\ CarriedBy(q)
      BY <1>1, <1>8, <2>3 DEF Carried
    <3>2. log' \in [Keys -> Seq(Entry)]
      BY <1>1 DEF TypeOK
    <3> QED BY <1>1, <2>2, <3>1, <3>2, CarriedOthers
  <2> QED BY <2>1, <2>3 DEF Carried
<1>12. Finished'
  <2> SUFFICES ASSUME NEW q \in Pages, tick[q] # NoRequest
               PROVE  put'[tick[q]].state = "storing" /\ put'[tick[q]].left = {}
    BY <1>1 DEF Finished
  <2>1. /\ tick[q] \in Requests
        /\ put[tick[q]].state = "storing" /\ put[tick[q]].left = {}
    BY <1>1 DEF Finished, TypeOK
  <2>2. put'[tick[q]] = put[tick[q]]
    BY <1>2, <1>8, <2>1
  <2> QED BY <2>1, <2>2
<1> QED BY <1>10, <1>11, <1>12 DEF Inv

\* What is left of a request is in its body.
LEMMA LeftIs ==
  ASSUME Inv, NEW r \in Requests, put[r].state = "storing", NEW k \in put[r].left
  PROVE  k \in Keys /\ put[r].body[k] \in Values \cup {Initial}
<1>1. CarriedBy(r) /\ put[r].body \in Partial(Values \cup {Initial})
  BY DEF Inv, Carried, TypeOK
<1>2. k \in DOMAIN put[r].body
  BY <1>1 DEF CarriedBy
<1> QED BY <1>1, <1>2, PartialIs

\* A handler's step on the request r: the table grows, other requests stay.
LEMMA HandlerKeeps ==
  ASSUME Inv, NEW r \in Requests, put[r].state = "storing", put[r].left # {},
         log' \in [Keys -> Seq(Entry)],
         \A k \in Keys : Longer(k) /\ Len(log'[k]) > 0,
         NEW state \in {"storing", "failed"}, NEW left \in SUBSET put[r].left,
         put' = [put EXCEPT ![r] = [@ EXCEPT !.state = state, !.left = left]],
         \A k \in Keys : state = "storing" /\ k \in put[r].left \ left =>
           log'[k][Len(log'[k])] = [value |-> put[r].body[k], by |-> r],
         UNCHANGED <<load, data, form, page, request, tick, edits>>
  PROVE  Inv'
<1>1. TypeOK /\ Carried /\ Finished
  BY DEF Inv
<1> DEFINE Put == [state : {"unsent", "storing", "failed"}, left : SUBSET Keys,
                   body : Partial(Values \cup {Initial}), typed : Partial(Values),
                   read : [Keys -> Nat]]
           new == [put[r] EXCEPT !.state = state, !.left = left]
<1>6. put \in [Requests -> Put] /\ put[r] \in Put
  BY <1>1 DEF TypeOK
<1>7. /\ new \in Put /\ new.typed = put[r].typed /\ new.body = put[r].body
      /\ new.read = put[r].read /\ new.left = left /\ new.state = state
  BY <1>6
<1>8. put' = [put EXCEPT ![r] = new]
  OBVIOUS
<1> HIDE DEF Put, new
<1>9. /\ put' \in [Requests -> Put] /\ put'[r] = new
      /\ \A q \in Requests \ {r} : put'[q] = put[q]
  BY <1>6, <1>7, <1>8
<1>2. /\ put'[r].typed = put[r].typed /\ put'[r].body = put[r].body
      /\ put'[r].read = put[r].read /\ put'[r].left = left /\ put'[r].state = state
      /\ \A q \in Requests \ {r} : put'[q] = put[q]
      /\ put' \in [Requests ->
           [state : {"unsent", "storing", "failed"}, left : SUBSET Keys,
            body : Partial(Values \cup {Initial}), typed : Partial(Values),
            read : [Keys -> Nat]]]
  BY <1>7, <1>9 DEF Put
<1>3. TypeOK'
  <2>1. \A k \in Keys : Len(log[k]) \in Nat /\ Len(log'[k]) \in Nat
                        /\ Len(log'[k]) >= Len(log[k])
    BY <1>1 DEF TypeOK, Longer
  <2>2. \A p \in Pages, k \in Keys :
          data'[p][k] <= Len(log'[k]) /\ load'[p].got[k] <= Len(log'[k])
    <3> SUFFICES ASSUME NEW p \in Pages, NEW k \in Keys
                 PROVE  data[p][k] <= Len(log'[k]) /\ load[p].got[k] <= Len(log'[k])
      OBVIOUS
    <3>1. /\ data[p][k] \in Nat /\ load[p].got[k] \in Nat
          /\ data[p][k] <= Len(log[k]) /\ load[p].got[k] <= Len(log[k])
      BY <1>1 DEF TypeOK
    <3> QED BY <2>1, <3>1
  <2>3. \A q \in Requests : put[q].state # "unsent" => put'[q].state # "unsent"
    BY <1>2
  <2> QED BY <1>1, <1>2, <2>2, <2>3 DEF TypeOK
<1>4. Carried'
  <2>1. CarriedBy(r)'
    BY <1>1, <1>2, CarriedOn DEF Carried
  <2>2. ASSUME NEW q \in Requests \ {r}, put'[q].state # "unsent" PROVE CarriedBy(q)'
    BY <1>1, <1>2, <2>2, CarriedOthers DEF Carried
  <2> QED BY <2>1, <2>2 DEF Carried
<1>5. Finished'
  <2> SUFFICES ASSUME NEW p \in Pages, tick[p] # NoRequest
               PROVE  put'[tick[p]].state = "storing" /\ put'[tick[p]].left = {}
    BY DEF Finished
  <2>1. tick[p] \in Requests /\ put[tick[p]].state = "storing" /\ put[tick[p]].left = {}
    BY <1>1 DEF Finished, TypeOK
  <2> QED BY <1>2, <2>1
<1> QED BY <1>3, <1>4, <1>5 DEF Inv

\* A setting is stored.
LEMMA SetSettingKeeps ==
  ASSUME Inv, NEW r \in Requests, SetSetting(r)
  PROVE  Inv'
<1>1. PICK k \in put[r].left : Store(r, k) /\ put' = [put EXCEPT ![r].left = @ \ {k}]
  BY DEF SetSetting
<1>2. /\ put[r].state = "storing" /\ TypeOK
      /\ UNCHANGED <<load, data, form, page, request, tick, edits>>
  BY DEF SetSetting, Inv
<1>3. k \in Keys /\ put[r].body[k] \in Values \cup {Initial}
  BY <1>1, <1>2, LeftIs
<1>4. put' = [put EXCEPT ![r] = [@ EXCEPT !.state = "storing", !.left = put[r].left \ {k}]]
  BY <1>1, <1>2 DEF TypeOK
<1>5. /\ log' \in [Keys -> Seq(Entry)]
      /\ \A j \in Keys : Longer(j) /\ Len(log'[j]) > 0
      /\ log'[k][Len(log'[k])] = [value |-> put[r].body[k], by |-> r]
  BY <1>1, <1>2, <1>3, Stored
<1>6. \A j \in Keys : j \in put[r].left \ (put[r].left \ {k}) => j = k
  OBVIOUS
<1>7. put[r].left \ {k} \in SUBSET put[r].left /\ put[r].left # {}
  BY <1>1
<1>8. \A j \in Keys : "storing" = "storing" /\ j \in put[r].left \ (put[r].left \ {k}) =>
        log'[j][Len(log'[j])] = [value |-> put[r].body[j], by |-> r]
  BY <1>5, <1>6
<1> QED
  <2> DEFINE left == put[r].left \ {k}
  <2> HIDE DEF left
  <2> QED BY <1>2, <1>4, <1>5, <1>7, <1>8, HandlerKeeps DEF left

\* A handler gives up, with or without having stored the setting.
LEMMA SetFailsKeeps ==
  ASSUME Inv, NEW r \in Requests, SetFails(r)
  PROVE  Inv'
<1>1. PICK k \in put[r].left : OnError(r, k) /\ (Store(r, k) \/ UNCHANGED log)
  BY DEF SetFails
<1>2. /\ put[r].state = "storing" /\ TypeOK
      /\ UNCHANGED <<load, data, form, page, request, tick, edits>>
  BY DEF SetFails, Inv
<1>3. k \in Keys /\ put[r].body[k] \in Values \cup {Initial}
  BY <1>1, <1>2, LeftIs
<1>4. put' = [put EXCEPT ![r] = [@ EXCEPT !.state = "failed", !.left = put[r].left]]
  BY <1>1, <1>2 DEF TypeOK, OnError
<1>5. log' \in [Keys -> Seq(Entry)] /\ \A j \in Keys : Longer(j) /\ Len(log'[j]) > 0
  <2>1. CASE Store(r, k)
    BY <1>2, <1>3, <2>1, Stored
  <2>2. CASE UNCHANGED log
    <3>1. \A j \in Keys : Len(log[j]) \in Nat
      BY <1>2 DEF TypeOK
    <3> QED BY <1>2, <2>2, <3>1 DEF TypeOK, Longer
  <2> QED BY <1>1, <2>1, <2>2
<1>6. put[r].left \in SUBSET put[r].left /\ put[r].left # {}
  BY <1>1
<1> QED BY <1>2, <1>4, <1>5, <1>6, HandlerKeeps

\* Every step keeps the invariant.
LEMMA StepKeeps ==
  ASSUME Inv, [Next]_vars
  PROVE  Inv'
<1>1. CASE UNCHANGED vars
  <2>1. Carried'
    BY <1>1, PagesApart DEF vars
  <2>2. TypeOK' /\ Finished'
    BY <1>1 DEF Inv, TypeOK, Finished, vars
  <2> QED BY <2>1, <2>2 DEF Inv
<1> QED BY <1>1, OpenKeeps, GetSettingKeeps, LoadFailsKeeps, TypeKeeps, SubmitKeeps,
           SavedKeeps, NotSavedKeeps, FadesKeeps, SetSettingKeeps, SetFailsKeeps DEF Next

\* The invariant holds in every reachable state.
THEOREM Invariant == Spec => []Inv
BY InitInv, StepKeeps, PTL DEF Spec

\* Every variable keeps its type.
THEOREM TypeCorrect == Spec => []TypeOK
<1>1. Inv => TypeOK
  BY DEF Inv
<1> QED BY <1>1, Invariant, PTL

\* "Gespeichert" is only shown of a save that has stored what was typed
\* (settings.go:47-56, Settings.tsx:33-40).
THEOREM Stays == Spec => []SavedIsStored
<1>1. Inv => SavedIsStored
  <2> SUFFICES ASSUME Inv, NEW p \in Pages, tick[p] # NoRequest,
                      NEW k \in DOMAIN put[tick[p]].typed
               PROVE  \E i \in DOMAIN log[k] :
                        log[k][i] = [value |-> put[tick[p]].typed[k], by |-> tick[p]]
    BY DEF SavedIsStored
  <2>1. /\ tick[p] \in Requests
        /\ put[tick[p]].state = "storing" /\ put[tick[p]].left = {}
    BY DEF Inv, TypeOK, Finished
  <2>2. CarriedBy(tick[p])
    BY <2>1 DEF Inv, Carried
  <2> QED BY <2>1, <2>2 DEF CarriedBy
<1> QED BY <1>1, Invariant, PTL

\* What became of the setting k in a step is explained.
Explained(k) ==
  \/ k \in DOMAIN put[Row(k)'.by].typed
  \/ Row(k)'.value = Row(k).value
  \/ put[Row(k)'.by].read[k] \in 1..(Len(log[k]) - 1)

\* A request stores what was typed, or what its page had read.
LEMMA StoreExplained ==
  ASSUME Inv, NEW r \in Requests, put[r].state = "storing", NEW k \in put[r].left,
         Store(r, k), NEW j \in Keys, log'[j] # log[j]
  PROVE  Explained(j)
<1>1. TypeOK /\ CarriedBy(r) /\ k \in Keys /\ put[r].body[k] \in Values \cup {Initial}
  BY LeftIs DEF Inv, Carried
<1>2. j = k /\ log'[k][Len(log'[k])] = [value |-> put[r].body[k], by |-> r]
  BY <1>1, Stored
<1>3. Row(j)'.value = put[r].body[j] /\ Row(j)'.by = r
  BY <1>2 DEF Row
<1>4. CASE j \in DOMAIN put[r].typed
  BY <1>3, <1>4 DEF Explained
<1>5. CASE j \notin DOMAIN put[r].typed
  <2>1. /\ put[r].read[j] \in 1..Len(log[j])
        /\ put[r].body[j] = log[j][put[r].read[j]].value
    BY <1>1, <1>2, <1>5 DEF CarriedBy
  <2>2. Len(log[j]) \in Nat
    BY <1>1 DEF TypeOK
  <2>3. CASE put[r].read[j] = Len(log[j])
    <3>1. Row(j)'.value = Row(j).value
      BY <1>3, <2>1, <2>3 DEF Row
    <3> QED BY <3>1 DEF Explained
  <2>4. CASE put[r].read[j] # Len(log[j])
    <3>1. put[r].read[j] \in 1..(Len(log[j]) - 1)
      BY <2>1, <2>2, <2>4
    <3> QED BY <1>3, <3>1 DEF Explained
  <2> QED BY <2>3, <2>4
<1> QED BY <1>4, <1>5

\* A setting nobody typed in the page gets another value only from a page that had
\* read it before it was stored again (settings.go:26-32, Settings.tsx:42).
THEOREM Reverts == Spec => OnlyStaleReverts
<1>1. ASSUME Inv, [Next]_vars
      PROVE  \A k \in Keys : log'[k] # log[k] => Explained(k)
  <2> SUFFICES ASSUME NEW k \in Keys, log'[k] # log[k] PROVE Explained(k)
    OBVIOUS
  <2>1. PICK r \in Requests : SetSetting(r) \/ SetFails(r)
    BY <1>1 DEF Next, vars, Open, GetSetting, LoadFails, Type, Submit, Saved, NotSaved,
                Fades
  <2>2. put[r].state = "storing" /\ \E j \in put[r].left : Store(r, j)
    BY <2>1 DEF SetSetting, SetFails
  <2> QED BY <1>1, <2>2, StoreExplained
<1>2. [Next]_vars /\ Inv =>
        [\A k \in Keys : log'[k] # log[k] =>
           LET new == Row(k)'
               old == Row(k)
           IN  \/ k \in DOMAIN put[new.by].typed
               \/ new.value = old.value
               \/ put[new.by].read[k] \in 1..(Len(log[k]) - 1)]_vars
  BY <1>1 DEF Explained
<1> QED BY <1>2, Invariant, PTL DEF Spec, OnlyStaleReverts

-----------------------------------------------------------------------------
(* The settings keep what SaveContract promises of a save.                  *)

\* The values a setting has had.
Past(k) == [i \in DOMAIN log[k] |-> log[k][i].value]
Pasts == [k \in Keys |-> Past(k)]

\* The values of a setting are as many as its entries.
LEMMA PastIs ==
  ASSUME TypeOK, NEW k \in Keys
  PROVE  /\ Past(k) \in Seq(Values \cup {Initial})
         /\ DOMAIN Past(k) = 1..Len(log[k])
         /\ Len(Past(k)) = Len(log[k]) /\ Len(log[k]) \in Nat
         /\ \A i \in 1..Len(log[k]) : Past(k)[i] = log[k][i].value
         /\ Pasts[k] = Past(k)
<1>1. log[k] \in Seq(Entry) /\ Len(log[k]) \in Nat /\ DOMAIN log[k] = 1..Len(log[k])
  BY DEF TypeOK
<1>2. \A i \in 1..Len(log[k]) : log[k][i] \in Entry
  BY <1>1
<1>3. \A i \in 1..Len(log[k]) : log[k][i].value \in Values \cup {Initial}
  BY <1>2 DEF Entry
<1>4. Past(k) = [i \in 1..Len(log[k]) |-> log[k][i].value]
  BY <1>1 DEF Past
<1>5. Past(k) \in Seq(Values \cup {Initial}) /\ Len(Past(k)) = Len(log[k])
  BY <1>1, <1>3, <1>4
<1> QED BY <1>1, <1>4, <1>5 DEF Pasts

\* What a request has in its body is what the contract wants of it.
LEMMA BodyIsWanted ==
  ASSUME Inv, NEW r \in Requests, put[r].state = "storing", NEW k \in put[r].left
  PROVE  k \in Keys /\ put[r].body[k] = Saving!Wanted(r, k)
<1>1. CarriedBy(r) /\ k \in Keys /\ k \in DOMAIN put[r].body /\ TypeOK
  BY LeftIs DEF Inv, Carried, CarriedBy
<1>2. CASE k \in DOMAIN put[r].typed
  BY <1>1, <1>2 DEF CarriedBy, Saving!Wanted
<1>3. CASE k \notin DOMAIN put[r].typed
  <2>1. put[r].read[k] \in 1..Len(log[k])
        /\ put[r].body[k] = log[k][put[r].read[k]].value
    BY <1>1, <1>3 DEF CarriedBy
  <2>2. Pasts[k][put[r].read[k]] = put[r].body[k]
    BY <1>1, <2>1, PastIs
  <2> QED BY <1>1, <1>3, <2>2 DEF Saving!Wanted, Pasts, Past
<1> QED BY <1>2, <1>3

\* A stored entry adds its value to what the setting has had.
LEMMA StoreAppends ==
  ASSUME Inv, NEW r \in Requests, put[r].state = "storing", NEW k \in put[r].left,
         Store(r, k)
  PROVE  Pasts' = [Pasts EXCEPT ![k] = Append(@, put[r].body[k])]
<1> DEFINE v == put[r].body[k]
           n == Len(log[k])
<1>1. TypeOK /\ k \in Keys /\ v \in Values \cup {Initial}
  BY LeftIs DEF Inv
<1>2. /\ log' \in [Keys -> Seq(Entry)]
      /\ Longer(k) /\ Len(log'[k]) = n + 1
      /\ log'[k][n + 1].value = v
      /\ \A j \in Keys \ {k} : log'[j] = log[j]
  <2> DEFINE e == [value |-> v, by |-> r]
  <2>1. /\ log' \in [Keys -> Seq(Entry)]
        /\ Longer(k) /\ Len(log'[k]) = n + 1
        /\ log'[k][Len(log'[k])] = e
        /\ \A j \in Keys \ {k} : log'[j] = log[j]
    BY <1>1, Stored
  <2>2. e.value = v
    OBVIOUS
  <2> HIDE DEF e, v, n
  <2> QED BY <2>1, <2>2
<1>3. n \in Nat /\ Past(k) \in Seq(Values \cup {Initial}) /\ Len(Past(k)) = n
      /\ \A i \in 1..n : Past(k)[i] = log[k][i].value
  BY <1>1, PastIs
<1>4. log'[k] \in Seq(Entry) /\ DOMAIN log'[k] = 1..(n + 1)
  BY <1>1, <1>2, <1>3
<1> HIDE DEF v, n
<1>5. Past(k)' = [i \in 1..(n + 1) |-> log'[k][i].value]
  BY <1>4 DEF Past
<1>6. \A i \in 1..n : log'[k][i].value = Past(k)[i]
  BY <1>2, <1>3 DEF Longer, n
<1>7. Append(Past(k), v) = [i \in 1..(n + 1) |-> IF i = n + 1 THEN v ELSE Past(k)[i]]
  <2> DEFINE s == Append(Past(k), v)
  <2>1. /\ s \in Seq(Values \cup {Initial}) /\ Len(s) = n + 1 /\ s[n + 1] = v
        /\ \A i \in 1..n : s[i] = Past(k)[i]
    BY <1>1, <1>3
  <2> HIDE DEF s
  <2>2. s = [i \in 1..(n + 1) |-> s[i]]
    BY <1>3, <2>1
  <2>3. \A i \in 1..(n + 1) : s[i] = IF i = n + 1 THEN v ELSE Past(k)[i]
    BY <1>3, <2>1
  <2> QED BY <2>2, <2>3 DEF s
<1>8. \A i \in 1..(n + 1) :
        log'[k][i].value = IF i = n + 1 THEN v ELSE Past(k)[i]
  BY <1>2, <1>3, <1>6
<1>9. Past(k)' = Append(Past(k), v)
  BY <1>5, <1>7, <1>8
<1>10. \A j \in Keys \ {k} : Past(j)' = Past(j)
  BY <1>2 DEF Past
<1> QED BY <1>1, <1>9, <1>10 DEF Pasts, v

\* The requests, part by part.
States == [r \in Requests |-> put[r].state]
Typings == [r \in Requests |-> put[r].typed]
Readings == [r \in Requests |-> put[r].read]
Rests == [r \in Requests |-> put[r].left]

\* A page that sends begins a save: of what was typed and of what it had read.
LEMMA SubmitBegins ==
  ASSUME Inv, NEW p \in Pages, Submit(p)
  PROVE  \E r \in Requests : Saving!Begin(r)
<1>1. /\ TypeOK /\ UNCHANGED <<log, tick>>
      /\ form[p] \in Partial(Values) /\ DOMAIN form[p] \subseteq Keys
      /\ data[p] \in [Keys -> Nat]
  BY PartialIs DEF Inv, TypeOK, Submit
<1>2. PICK r \in Requests :
        /\ put[r].state = "unsent"
        /\ put' = [put EXCEPT ![r] =
                     [state |-> "storing", left |-> DOMAIN Merged(p), body |-> Merged(p),
                      typed |-> form[p], read |-> data[p]]]
  BY DEF Submit
<1>3. DOMAIN Merged(p) = {k \in Keys : k \in DOMAIN form[p] \/ data[p][k] # 0}
  BY <1>1 DEF Merged, Read
<1> DEFINE new == [state |-> "storing", left |-> DOMAIN Merged(p), body |-> Merged(p),
                   typed |-> form[p], read |-> data[p]]
<1>4. /\ new.state = "storing" /\ new.left = DOMAIN Merged(p)
      /\ new.typed = form[p] /\ new.read = data[p]
  OBVIOUS
<1> HIDE DEF new
<1>5. put'[r] = new /\ \A q \in Requests \ {r} : put'[q] = put[q]
  BY <1>1, <1>2 DEF TypeOK, new
<1>6. /\ Pasts' = Pasts
      /\ \A k \in Keys : data[p][k] \in 0..Len(Pasts[k])
  <2>1. \A k \in Keys : Len(Pasts[k]) = Len(log[k]) /\ Len(log[k]) \in Nat
    BY <1>1, PastIs
  <2>2. \A k \in Keys : data[p][k] \in Nat /\ data[p][k] <= Len(log[k])
    BY <1>1 DEF TypeOK
  <2>3. Pasts' = Pasts
    BY <1>1 DEF Pasts, Past
  <2> QED BY <2>1, <2>2, <2>3
<1>7. /\ States[r] = "unsent"
      /\ States' = [States EXCEPT ![r] = "storing"]
  <2>1. \A q \in Requests : put'[q].state = IF q = r THEN "storing" ELSE put[q].state
    BY <1>4, <1>5
  <2>2. States' = [q \in Requests |-> IF q = r THEN "storing" ELSE put[q].state]
    BY <2>1 DEF States
  <2> QED BY <1>2, <2>2 DEF States
<1>8. Typings'[r] = form[p] /\ \A q \in Requests \ {r} : Typings'[q] = Typings[q]
  BY <1>4, <1>5 DEF Typings
<1>9. Readings'[r] = data[p] /\ \A q \in Requests \ {r} : Readings'[q] = Readings[q]
  BY <1>4, <1>5 DEF Readings
<1>10. /\ Rests'[r] = {k \in Keys : k \in DOMAIN form[p] \/ data[p][k] # 0}
       /\ \A q \in Requests \ {r} : Rests'[q] = Rests[q]
  BY <1>3, <1>4, <1>5 DEF Rests
<1>11. Saving!Begin(r) <=>
         /\ States[r] = "unsent"
         /\ States' = [States EXCEPT ![r] = "storing"]
         /\ Typings'[r] \in Partial(Values)
         /\ \A k \in Keys : Readings'[r][k] \in 0..Len(Pasts[k])
         /\ Rests'[r] = {k \in Keys : k \in DOMAIN Typings'[r] \/ Readings'[r][k] # 0}
         /\ \A q \in Requests \ {r} :
              /\ Typings'[q] = Typings[q] /\ Readings'[q] = Readings[q]
              /\ Rests'[q] = Rests[q]
         /\ UNCHANGED <<Pasts, tick>>
  BY DEF Saving!Begin, States, Typings, Readings, Rests, Pasts, Past
<1> QED BY <1>1, <1>6, <1>7, <1>8, <1>9, <1>10, <1>11

\* One more setting is stored.
LEMMA SetSettingStores ==
  ASSUME Inv, NEW r \in Requests, SetSetting(r)
  PROVE  \E k \in Keys : Saving!Store(r, k)
<1>1. PICK k \in put[r].left : Store(r, k) /\ put' = [put EXCEPT ![r].left = @ \ {k}]
  BY DEF SetSetting
<1>2. put[r].state = "storing" /\ UNCHANGED tick /\ put \in [Requests ->
         [state : {"unsent", "storing", "failed"}, left : SUBSET Keys,
          body : Partial(Values \cup {Initial}), typed : Partial(Values),
          read : [Keys -> Nat]]]
  BY DEF SetSetting, Inv, TypeOK
<1>3. k \in Keys /\ Pasts' = [Pasts EXCEPT ![k] = Append(@, Saving!Wanted(r, k))]
  <2>1. k \in Keys /\ put[r].body[k] = Saving!Wanted(r, k)
    BY <1>2, BodyIsWanted
  <2>2. Pasts' = [Pasts EXCEPT ![k] = Append(@, put[r].body[k])]
    BY <1>1, <1>2, StoreAppends
  <2> QED BY <2>1, <2>2
<1>4. Rests' = [Rests EXCEPT ![r] = @ \ {k}] /\ UNCHANGED <<States, Typings, Readings>>
  BY <1>1, <1>2 DEF Rests, States, Typings, Readings
<1>5. States[r] = "storing" /\ k \in Rests[r]
  BY <1>2 DEF States, Rests
<1> QED BY <1>2, <1>3, <1>4, <1>5
        DEF Saving!Store, States, Typings, Readings, Rests, Pasts, Past

\* A save that fails stops where it is.
LEMMA SetFailsFails ==
  ASSUME Inv, NEW r \in Requests, SetFails(r)
  PROVE  \E k \in Keys : Saving!Fail(r, k)
<1>1. PICK k \in put[r].left : OnError(r, k) /\ (Store(r, k) \/ UNCHANGED log)
  BY DEF SetFails
<1>2. put[r].state = "storing" /\ UNCHANGED tick /\ put \in [Requests ->
         [state : {"unsent", "storing", "failed"}, left : SUBSET Keys,
          body : Partial(Values \cup {Initial}), typed : Partial(Values),
          read : [Keys -> Nat]]]
  BY DEF SetFails, Inv, TypeOK
<1>3. k \in Keys
      /\ \/ Pasts' = Pasts
         \/ Pasts' = [Pasts EXCEPT ![k] = Append(@, Saving!Wanted(r, k))]
  <2>1. k \in Keys /\ put[r].body[k] = Saving!Wanted(r, k)
    BY <1>2, BodyIsWanted
  <2>2. CASE Store(r, k)
    BY <1>2, <2>1, <2>2, StoreAppends
  <2>3. CASE UNCHANGED log
    BY <2>1, <2>3 DEF Pasts, Past
  <2> QED BY <1>1, <2>2, <2>3
<1>4. States' = [States EXCEPT ![r] = "failed"] /\ UNCHANGED <<Rests, Typings, Readings>>
  BY <1>1, <1>2 DEF OnError, Rests, States, Typings, Readings
<1>5. States[r] = "storing" /\ k \in Rests[r]
  BY <1>2 DEF States, Rests
<1> QED BY <1>2, <1>3, <1>4, <1>5
        DEF Saving!Fail, States, Typings, Readings, Rests, Pasts, Past

\* Success is shown of a save that has stored all of it.
LEMMA SavedTells ==
  ASSUME Inv, NEW p \in Pages, Saved(p)
  PROVE  \E r \in Requests : Saving!Tell(p, r)
<1>1. /\ request[p] \in Requests
      /\ put[request[p]].state = "storing" /\ put[request[p]].left = {}
      /\ tick' = [tick EXCEPT ![p] = request[p]] /\ UNCHANGED <<log, put>>
  BY DEF Inv, TypeOK, Saved
<1>2. States[request[p]] = "storing" /\ Rests[request[p]] = {}
  BY <1>1 DEF States, Rests
<1>3. UNCHANGED <<Pasts, States, Typings, Readings, Rests>>
  BY <1>1 DEF Pasts, Past, States, Typings, Readings, Rests
<1> QED BY <1>1, <1>2, <1>3 DEF Saving!Tell, Pasts, Past, States, Typings, Readings, Rests

\* Steps that store nothing leave the saves and what the settings have had alone.
LEMMA NothingSaved ==
  ASSUME UNCHANGED <<log, put>>
  PROVE  UNCHANGED <<Pasts, States, Typings, Readings, Rests>>
BY DEF Pasts, Past, States, Typings, Readings, Rests

\* Loading, typing, the handlers' errors and the end of two seconds: of all this
\* an administrator only notices what is shown.  The settings keep SaveContract.
THEOREM Keeps == Spec => ImplementsSaveContract
<1>1. ASSUME Init PROVE Saving!Init
  <2>1. \A k \in Keys : log[k] = <<[value |-> Initial, by |-> NoRequest]>>
    BY <1>1 DEF Init
  <2>2. \A k \in Keys : Pasts[k] = Past(k) /\ Len(log[k]) = 1
    BY <2>1 DEF Pasts
  <2>3. Inv
    BY <1>1, InitInv
  <2>4. \A k \in Keys : Len(Pasts[k]) = 1
    BY <2>2, <2>3, PastIs DEF Inv
  <2>5. States = [r \in Requests |-> "unsent"] /\ tick = [p \in Pages |-> NoRequest]
    BY <1>1 DEF Init, Unsent, States
  <2> QED BY <2>4, <2>5 DEF Saving!Init, Pasts, Past, States
<1>2. ASSUME Inv, [Next]_vars PROVE [Saving!Next]_(Saving!vars)
  <2>1. ASSUME UNCHANGED <<log, put, tick>> PROVE UNCHANGED Saving!vars
    BY <2>1, NothingSaved
       DEF Saving!vars, Pasts, Past, States, Typings, Readings, Rests
  <2>2. ASSUME NEW p \in Pages, UNCHANGED <<log, put>>,
               tick' = [tick EXCEPT ![p] = NoRequest]
        PROVE  Saving!Next
    BY <2>2, NothingSaved
       DEF Saving!Next, Saving!Forget, Pasts, Past, States, Typings, Readings, Rests
  <2>3. ASSUME NEW p \in Pages,
               Open(p) \/ GetSetting(p) \/ LoadFails(p) \/ NotSaved(p)
        PROVE  UNCHANGED Saving!vars
    BY <2>1, <2>3 DEF Open, GetSetting, LoadFails, NotSaved
  <2>4. ASSUME NEW p \in Pages, NEW k \in Keys, NEW v \in Values,
               Type(p, k, v)
        PROVE  Saving!Next
    BY <2>2, <2>4 DEF Type
  <2>5. ASSUME NEW p \in Pages, Fades(p) PROVE Saving!Next
    BY <2>2, <2>5 DEF Fades
  <2>6. ASSUME NEW p \in Pages, Submit(p) \/ Saved(p) PROVE Saving!Next
    BY <1>2, <2>6, SubmitBegins, SavedTells DEF Saving!Next
  <2>7. ASSUME NEW r \in Requests, SetSetting(r) \/ SetFails(r) PROVE Saving!Next
    BY <1>2, <2>7, SetSettingStores, SetFailsFails DEF Saving!Next
  <2>8. CASE UNCHANGED vars
    BY <2>1, <2>8 DEF vars
  <2> QED BY <1>2, <2>3, <2>4, <2>5, <2>6, <2>7, <2>8 DEF Next
<1> QED BY <1>1, <1>2, Invariant, PTL DEF Spec, Saving!Spec, ImplementsSaveContract
==============================================================================

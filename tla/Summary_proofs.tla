------------------------- MODULE Summary_proofs -------------------------
(* The accounting of the summary, for any number of callers and topics. *)
EXTENDS Summary, TLAPS

\* A caller in the middle of an update has its topic and its value.
LEMMA BusyAdder ==
    ASSUME TypeOK, NEW a \in Adders, adder[a].pc # "idle"
    PROVE  adder[a] \in AdderType
  BY DEF TypeOK, Resting

\* What a map operation finds is a map of counts.
LEMMA ViewsType ==
    ASSUME TypeOK, NEW v \in Views
    PROVE  /\ v.content \in [Topics -> Nat]
           /\ v.content = stream \/ v.content = Empty
           /\ v.state \in {"ok", "clearing", "reborn"}
  BY DEF TypeOK, Views, Empty

\* The topics being updated are topics, and Tears adds no others.
LEMMA StoringType ==
    ASSUME TypeOK
    PROVE  Storing \subseteq Topics
  <1>1. ASSUME NEW a \in Adders, adder[a].pc = "store" PROVE adder[a].topic \in Topics
    BY <1>1, BusyAdder DEF AdderType
  <1>. QED BY <1>1 DEF Storing

LEMMA TearsType ==
    ASSUME TypeOK, NEW ts \in SUBSET Topics, Tears(ts)
    PROVE  torn' \subseteq Topics
  BY DEF TypeOK, Tears

\* Type correctness of the summary.
THEOREM SummaryTypeCorrect == Spec => []TypeOK
  <1>0. Empty \in [Topics -> Nat] BY DEF Empty
  <1>1. Init => TypeOK
    <2>1. Waiting \in PrinterType BY <1>0 DEF Waiting, PrinterType
    <2>2. Init => adder \in [Adders -> AdderType \cup {Resting}]
      BY DEF Init
    <2>3. Init => up \in BOOLEAN
      BY Zenon DEF Init
    <2>4. Init => /\ eventsExported \in Nat /\ failedEvents \in Nat /\ prints \in Nat
                  /\ added \in Nat /\ reported \in Nat
                  /\ lost \in Nat /\ torn \subseteq Topics
                  /\ mapState \in {"ok", "clearing", "reborn", "broken"}
      BY DEF Init
    <2>5. Init => /\ stream \in [Topics -> Nat] /\ topicAdds \in [Topics -> Nat]
                  /\ sinceReset \in [Topics -> Nat] /\ printer \in PrinterType
      BY <1>0, <2>1 DEF Init
    <2>. QED BY <2>2, <2>3, <2>4, <2>5 DEF TypeOK
  <1>2. TypeOK /\ [Next]_vars => TypeOK'
    <2>. SUFFICES ASSUME TypeOK, [Next]_vars PROVE TypeOK' OBVIOUS
    <2>1. CASE UNCHANGED vars
      BY <2>1 DEF TypeOK, vars
    <2>2. ASSUME NEW a \in Adders, NEW t \in Topics, AddEventsExported(a, t)
          PROVE  TypeOK'
      BY <2>2 DEF TypeOK, AddEventsExported, AdderType
    <2>3. ASSUME NEW a \in Adders, LoadOrStore(a) PROVE TypeOK'
      <3>1. adder[a] \in AdderType BY <2>3, BusyAdder DEF LoadOrStore
      <3>. DEFINE t == adder[a].topic
      <3>2. t \in Topics BY <3>1 DEF AdderType
      <3>3. PICK v \in Views :
               LET current == IF v.content[t] = 0 THEN 1 ELSE v.content[t] IN
               /\ stream' = [v.content EXCEPT ![t] = current]
               /\ mapState' = v.state
               /\ adder' = [adder EXCEPT ![a].pc = "store", ![a].val = current]
        BY <2>3 DEF LoadOrStore
      <3>4. v.content \in [Topics -> Nat] /\ v.state \in {"ok", "clearing", "reborn"}
        BY ViewsType
      <3>5. stream' \in [Topics -> Nat]
        BY <3>2, <3>3, <3>4
      <3>6. adder' \in [Adders -> AdderType \cup {Resting}]
        BY <3>1, <3>2, <3>3, <3>4 DEF TypeOK, AdderType
      <3>7. topicAdds' \in [Topics -> Nat] /\ sinceReset' \in [Topics -> Nat]
        BY <2>3, <3>2 DEF LoadOrStore, TypeOK
      <3>8. torn' \subseteq Topics
        BY <2>3, <3>2, StoringType, TearsType DEF LoadOrStore
      <3>. QED BY <2>3, <3>3, <3>4, <3>5, <3>6, <3>7, <3>8 DEF TypeOK, LoadOrStore
    <2>4. ASSUME NEW a \in Adders, Store(a) PROVE TypeOK'
      <3>1. adder[a] \in AdderType BY <2>4, BusyAdder DEF Store
      <3>2. PICK v \in Views :
               /\ stream' = [v.content EXCEPT ![adder[a].topic] = adder[a].val + 1]
               /\ mapState' = v.state
        BY <2>4 DEF Store
      <3>3. v.content \in [Topics -> Nat] /\ v.state \in {"ok", "clearing", "reborn"}
        BY ViewsType
      <3>4. stream' \in [Topics -> Nat]
        BY <3>1, <3>2, <3>3 DEF AdderType
      <3>5. torn' \subseteq Topics
        BY <2>4, TearsType DEF Store
      <3>. QED BY <2>4, <3>2, <3>3, <3>4, <3>5 DEF TypeOK, Store
    <2>5. ASSUME NEW a \in Adders, AdderPanics(a) PROVE TypeOK'
      <3>1. torn' \subseteq Topics
        BY <2>5, TearsType DEF AdderPanics
      <3>. QED BY <2>5, <3>1 DEF TypeOK, AdderPanics
    <2>6. CASE GetEventStreamEvents
      <3>1. up' \in BOOLEAN
        BY <2>6, Zenon DEF GetEventStreamEvents
      <3>2. /\ prints' = prints + 1
            /\ printer' = [printer EXCEPT !.pc = "load", !.events = stream]
        BY <2>6, Zenon DEF GetEventStreamEvents
      <3>3. printer' \in PrinterType /\ prints' \in Nat
        <4>1. printer \in PrinterType /\ stream \in [Topics -> Nat] /\ prints \in Nat
          BY DEF TypeOK
        <4>2. prints' \in Nat BY <3>2, <4>1
        <4>3. printer' \in PrinterType BY <3>2, <4>1 DEF PrinterType
        <4>. QED BY <4>2, <4>3
      <3>4. UNCHANGED <<eventsExported, failedEvents, stream, mapState, adder, added,
                        topicAdds, sinceReset, reported, lost, torn>>
        BY <2>6 DEF GetEventStreamEvents
      <3>. QED BY <3>1, <3>3, <3>4 DEF TypeOK
    <2>7. CASE GetEventsExported
      BY <2>7 DEF TypeOK, GetEventsExported, PrinterType
    <2>8. CASE LogSummary
      BY <2>8 DEF TypeOK, LogSummary, PrinterType
    <2>9. CASE ResetExported
      BY <2>9 DEF TypeOK, ResetExported, PrinterType
    <2>10. CASE ResetMapBegins
      BY <2>10 DEF TypeOK, ResetMapBegins, PrinterType
    <2>11. CASE ResetMapEnds
      <3>1. Waiting \in PrinterType BY <1>0 DEF Waiting, PrinterType
      <3>. QED BY <1>0, <2>11, <3>1, StoringType DEF TypeOK, ResetMapEnds
    <2>. QED
      BY <2>1, <2>2, <2>3, <2>4, <2>5, <2>6, <2>7, <2>8, <2>9, <2>10, <2>11
      DEF Next, PrintSummary
  <1>. QED BY <1>1, <1>2, PTL DEF Spec

-----------------------------------------------------------------------------
(***************************************************************************)
(* The summary reports every exported event exactly once, but for those    *)
(* counted between Print's load and Reset's store (Print, Reset).          *)
(***************************************************************************)
THEOREM ExportedAccounted == Spec => []ExportedAccounting
  <1>1. Init => ExportedAccounting
    BY DEF Init, ExportedAccounting, Waiting
  <1>2. TypeOK /\ ExportedAccounting /\ [Next]_vars => ExportedAccounting'
    <2>. SUFFICES ASSUME TypeOK, ExportedAccounting, [Next]_vars
                  PROVE  ExportedAccounting'
      OBVIOUS
    <2>. USE DEF ExportedAccounting
    <2>0. /\ eventsExported \in Nat /\ added \in Nat /\ reported \in Nat /\ lost \in Nat
          /\ printer \in PrinterType
      BY DEF TypeOK
    <2>1. CASE UNCHANGED <<eventsExported, printer, added, reported, lost>>
      BY <2>1
    <2>2. ASSUME NEW a \in Adders, NEW t \in Topics, AddEventsExported(a, t)
          PROVE  ExportedAccounting'
      <3>1. /\ eventsExported' = eventsExported + 1 /\ added' = added + 1
            /\ lost' = IF printer.pc \in {"log", "resetExported"} THEN lost + 1 ELSE lost
            /\ UNCHANGED <<printer, reported>>
        BY <2>2 DEF AddEventsExported
      <3>. QED BY <2>0, <3>1 DEF PrinterType
    <2>3. CASE GetEventStreamEvents
      BY <2>0, <2>3 DEF GetEventStreamEvents, PrinterType
    <2>4. CASE GetEventsExported
      BY <2>0, <2>4 DEF GetEventsExported, PrinterType
    <2>5. CASE LogSummary
      BY <2>0, <2>5 DEF LogSummary, PrinterType
    <2>6. CASE ResetExported
      BY <2>0, <2>6 DEF ResetExported, PrinterType
    <2>7. CASE ResetMapBegins
      BY <2>0, <2>7 DEF ResetMapBegins, PrinterType
    <2>8. CASE ResetMapEnds
      BY <2>0, <2>8 DEF ResetMapEnds, PrinterType, Waiting
    <2>. QED
      BY <2>1, <2>2, <2>3, <2>4, <2>5, <2>6, <2>7, <2>8
      DEF Next, PrintSummary, LoadOrStore, Store, AdderPanics, vars
  <1>. QED BY <1>1, <1>2, SummaryTypeCorrect, PTL DEF Spec

(* The value a caller carries from LoadOrStore to Store counts events that  *)
(* were counted, its own among them.                                        *)
CarriedCount ==
    \A a \in Adders : adder[a].pc = "store" => adder[a].val <= topicAdds[adder[a].topic]

(***************************************************************************)
(* No lost or late update makes the count of a topic exceed the events     *)
(* ever counted for it by more than one.                                   *)
(***************************************************************************)
THEOREM StreamIsBounded == Spec => []StreamBound
  <1>0. /\ Empty \in [Topics -> Nat]
        /\ \A t \in Topics : Empty[t] = 0
    BY DEF Empty
  <1>1. Init => CarriedCount /\ StreamBound
    BY <1>0 DEF Init, CarriedCount, StreamBound, Waiting, Resting
  <1>2. TypeOK /\ CarriedCount /\ StreamBound /\ [Next]_vars
           => CarriedCount' /\ StreamBound'
    <2>. SUFFICES ASSUME TypeOK, CarriedCount, StreamBound, [Next]_vars
                  PROVE  CarriedCount' /\ StreamBound'
      OBVIOUS
    <2>0. /\ stream \in [Topics -> Nat] /\ topicAdds \in [Topics -> Nat]
          /\ printer \in PrinterType /\ adder \in [Adders -> AdderType \cup {Resting}]
      BY DEF TypeOK
    <2>1. CASE UNCHANGED <<stream, adder, topicAdds, printer>>
      BY <2>1 DEF CarriedCount, StreamBound
    <2>2. ASSUME NEW a \in Adders, NEW t \in Topics, AddEventsExported(a, t)
          PROVE  CarriedCount' /\ StreamBound'
      BY <2>0, <2>2 DEF AddEventsExported, CarriedCount, StreamBound
    <2>3. ASSUME NEW a \in Adders, LoadOrStore(a)
          PROVE  CarriedCount' /\ StreamBound'
      <3>1. adder[a] \in AdderType BY <2>3, BusyAdder DEF LoadOrStore
      <3>. DEFINE t == adder[a].topic
      <3>2. t \in Topics BY <3>1 DEF AdderType
      <3>3. PICK v \in Views :
               LET current == IF v.content[t] = 0 THEN 1 ELSE v.content[t] IN
               /\ stream' = [v.content EXCEPT ![t] = current]
               /\ adder' = [adder EXCEPT ![a].pc = "store", ![a].val = current]
        BY <2>3 DEF LoadOrStore
      <3>4. /\ v.content \in [Topics -> Nat]
            /\ \A u \in Topics : v.content[u] <= topicAdds[u] + 1
        BY <1>0, <2>0, ViewsType DEF StreamBound
      <3>5. /\ topicAdds' = [topicAdds EXCEPT ![t] = @ + 1] /\ UNCHANGED printer
        BY <2>3 DEF LoadOrStore
      <3>6. \A u \in Topics : topicAdds[u] \in Nat /\ topicAdds[u] <= topicAdds'[u]
        BY <2>0, <3>2, <3>5
      <3>7. adder'[a].topic = t /\ adder'[a].val <= topicAdds'[t]
        BY <2>0, <3>1, <3>2, <3>3, <3>4, <3>5 DEF AdderType
      <3>8. \A b \in Adders \ {a} : adder'[b] = adder[b]
        BY <2>0, <3>3
      <3>9. ASSUME NEW b \in Adders \ {a}, adder[b].pc = "store"
            PROVE  adder[b].val <= topicAdds'[adder[b].topic]
        <4>1. adder[b].topic \in Topics /\ adder[b].val \in Nat
          BY <3>9, BusyAdder DEF AdderType
        <4>. QED BY <2>0, <3>5, <3>6, <3>9, <4>1 DEF CarriedCount
      <3>10. CarriedCount'
        BY <3>7, <3>8, <3>9 DEF CarriedCount
      <3>11. \A u \in Topics : stream'[u] <= topicAdds'[u] + 1
        BY <2>0, <3>2, <3>3, <3>4, <3>5
      <3>12. \A u \in Topics : printer.events[u] <= topicAdds'[u] + 1
        BY <2>0, <3>2, <3>5, <3>6 DEF StreamBound, PrinterType
      <3>. QED BY <3>5, <3>10, <3>11, <3>12 DEF StreamBound
    <2>4. ASSUME NEW a \in Adders, Store(a)
          PROVE  CarriedCount' /\ StreamBound'
      <3>1. adder[a] \in AdderType BY <2>4, BusyAdder DEF Store
      <3>2. PICK v \in Views :
               stream' = [v.content EXCEPT ![adder[a].topic] = adder[a].val + 1]
        BY <2>4 DEF Store
      <3>3. /\ v.content \in [Topics -> Nat]
            /\ \A u \in Topics : v.content[u] <= topicAdds[u] + 1
        BY <1>0, <2>0, ViewsType DEF StreamBound
      <3>4. adder[a].val <= topicAdds[adder[a].topic]
        BY <2>4 DEF Store, CarriedCount
      <3>5. \A u \in Topics : stream'[u] <= topicAdds[u] + 1
        BY <2>0, <3>1, <3>2, <3>3, <3>4 DEF AdderType
      <3>6. CarriedCount'
        BY <2>0, <2>4 DEF Store, CarriedCount, Resting
      <3>. QED BY <2>4, <3>5, <3>6 DEF Store, StreamBound
    <2>5. ASSUME NEW a \in Adders, AdderPanics(a)
          PROVE  CarriedCount' /\ StreamBound'
      BY <2>0, <2>5 DEF AdderPanics, CarriedCount, StreamBound, Resting
    <2>6. CASE GetEventStreamEvents
      BY <2>0, <2>6 DEF GetEventStreamEvents, CarriedCount, StreamBound, PrinterType
    <2>7. CASE GetEventsExported \/ LogSummary \/ ResetExported \/ ResetMapBegins
      BY <2>0, <2>7
      DEF GetEventsExported, LogSummary, ResetExported, ResetMapBegins,
          CarriedCount, StreamBound, PrinterType
    <2>8. CASE ResetMapEnds
      BY <1>0, <2>0, <2>8 DEF ResetMapEnds, CarriedCount, StreamBound, Waiting
    <2>. QED
      BY <2>1, <2>2, <2>3, <2>4, <2>5, <2>6, <2>7, <2>8 DEF Next, PrintSummary, vars
  <1>. QED BY <1>1, <1>2, SummaryTypeCorrect, PTL DEF Spec

-----------------------------------------------------------------------------
(* Caller a is between LoadOrStore and Store for topic t. *)
Updates(a, t) == adder[a].pc = "store" /\ adder[a].topic = t

(* What the count of topic t is when it was not disturbed: in the middle of *)
(* an update, of which there is one at most, and between updates.           *)
Orderly(t) ==
    /\ \A a, b \in Adders : Updates(a, t) /\ Updates(b, t) => a = b
    /\ \A a \in Adders : Updates(a, t) =>
          /\ sinceReset[t] > 0
          /\ adder[a].val = sinceReset[t] /\ stream[t] = sinceReset[t]
    /\ (\A a \in Adders : ~Updates(a, t)) =>
          stream[t] = IF sinceReset[t] = 0 THEN 0 ELSE sinceReset[t] + 1

(* The inductive invariant behind QuietCount. *)
Undisturbed ==
    /\ mapState \in {"reborn", "broken"} => torn = Topics
    /\ \A t \in Topics \ torn : Orderly(t)

\* The topics being updated, by Updates.
LEMMA StoringUpdates ==
    \A t : t \in Storing <=> \E a \in Adders : Updates(a, t)
  BY DEF Storing, Updates

\* A topic that keeps its updates, its count and its events stays orderly.
LEMMA SameOrder ==
    ASSUME NEW t \in Topics, Orderly(t),
           \A a \in Adders : Updates(a, t)' <=> Updates(a, t),
           \A a \in Adders : Updates(a, t) => adder'[a].val = adder[a].val,
           stream'[t] = stream[t], sinceReset'[t] = sinceReset[t]
    PROVE  Orderly(t)'
  BY DEF Orderly

\* With no Reset under way a map operation finds the map as it is.
LEMMA OkView ==
    ASSUME mapState = "ok", NEW v \in Views
    PROVE  v.content = stream /\ v.state = "ok"
  BY DEF Views

\* A map operation during a Reset tears every topic.
LEMMA TearsAll ==
    ASSUME NEW ts, Tears(ts), mapState # "ok"
    PROVE  Undisturbed'
  BY DEF Tears, Undisturbed

\* LoadOrStore begins an update of its topic, and tears one that is under way.
LEMMA LoadOrder ==
    ASSUME TypeOK, Undisturbed, NEW a \in Adders, LoadOrStore(a), mapState = "ok"
    PROVE  Undisturbed'
  <1>0. PICK t, n : t = adder[a].topic /\ n = IF stream[t] = 0 THEN 1 ELSE stream[t]
    OBVIOUS
  <1>1. adder[a] \in AdderType /\ adder[a].pc = "load"
    BY BusyAdder DEF LoadOrStore
  <1>2. /\ t \in Topics /\ stream \in [Topics -> Nat] /\ sinceReset \in [Topics -> Nat]
        /\ adder \in [Adders -> AdderType \cup {Resting}]
    BY <1>0, <1>1 DEF AdderType, TypeOK
  <1>3. /\ stream' = [stream EXCEPT ![t] = n] /\ mapState' = "ok"
        /\ adder' = [adder EXCEPT ![a].pc = "store", ![a].val = n]
    BY <1>0, OkView DEF LoadOrStore
  <1>4. /\ sinceReset' = [sinceReset EXCEPT ![t] = @ + 1]
        /\ torn' = torn \cup ({t} \cap Storing)
    BY <1>0 DEF LoadOrStore, Tears
  <1>5. /\ Updates(a, t)' /\ adder'[a].val = n
        /\ \A u \in Topics \ {t} : ~Updates(a, u)'
        /\ \A u \in Topics : ~Updates(a, u)
        /\ \A b \in Adders \ {a} : adder'[b] = adder[b]
    BY <1>0, <1>1, <1>2, <1>3 DEF AdderType, Updates
  <1>6. ASSUME NEW u \in Topics \ torn', u # t PROVE Orderly(u)'
    <2>1. Orderly(u) BY <1>4, <1>6 DEF Undisturbed
    <2>2. \A b \in Adders : Updates(b, u)' <=> Updates(b, u)
      BY <1>5, <1>6 DEF Updates
    <2>3. \A b \in Adders : Updates(b, u) => adder'[b].val = adder[b].val
      BY <1>5
    <2>4. stream'[u] = stream[u] /\ sinceReset'[u] = sinceReset[u]
      BY <1>2, <1>3, <1>4, <1>6
    <2>. QED BY <2>1, <2>2, <2>3, <2>4, SameOrder
  <1>7. ASSUME t \notin torn' PROVE Orderly(t)'
    <2>1. Orderly(t) /\ \A b \in Adders : ~Updates(b, t)
      BY <1>2, <1>4, <1>7, StoringUpdates DEF Undisturbed
    <2>2. stream[t] = IF sinceReset[t] = 0 THEN 0 ELSE sinceReset[t] + 1
      BY <2>1 DEF Orderly
    <2>3. stream'[t] = n /\ sinceReset'[t] = sinceReset[t] + 1
      BY <1>2, <1>3, <1>4
    <2>4. n = sinceReset'[t] /\ sinceReset'[t] > 0
      BY <1>0, <1>2, <2>2, <2>3
    <2>5. \A b \in Adders : Updates(b, t)' => b = a
      BY <1>5, <2>1 DEF Updates
    <2>. QED BY <1>5, <2>3, <2>4, <2>5 DEF Orderly
  <1>. QED BY <1>3, <1>6, <1>7 DEF Undisturbed

\* Store ends the one update of its topic.
LEMMA StoreOrder ==
    ASSUME TypeOK, Undisturbed, NEW a \in Adders, Store(a), mapState = "ok"
    PROVE  Undisturbed'
  <1>0. PICK t : t = adder[a].topic
    OBVIOUS
  <1>1. adder[a] \in AdderType /\ adder[a].pc = "store"
    BY BusyAdder DEF Store
  <1>2. /\ t \in Topics /\ stream \in [Topics -> Nat] /\ sinceReset \in [Topics -> Nat]
        /\ adder \in [Adders -> AdderType \cup {Resting}] /\ Updates(a, t)
    BY <1>0, <1>1 DEF AdderType, TypeOK, Updates
  <1>3. /\ stream' = [stream EXCEPT ![t] = adder[a].val + 1] /\ mapState' = "ok"
        /\ adder' = [adder EXCEPT ![a] = Resting] /\ UNCHANGED sinceReset
        /\ torn' = torn
    BY <1>0, OkView DEF Store, Tears
  <1>4. /\ \A u \in Topics : ~Updates(a, u)'
        /\ \A u \in Topics \ {t} : ~Updates(a, u)
        /\ \A b \in Adders \ {a} : adder'[b] = adder[b]
    BY <1>0, <1>2, <1>3 DEF Updates, Resting
  <1>5. ASSUME NEW u \in Topics \ torn', u # t PROVE Orderly(u)'
    <2>1. Orderly(u) BY <1>3, <1>5 DEF Undisturbed
    <2>2. \A b \in Adders : Updates(b, u)' <=> Updates(b, u)
      BY <1>4, <1>5 DEF Updates
    <2>3. \A b \in Adders : Updates(b, u) => adder'[b].val = adder[b].val
      BY <1>4, <1>5
    <2>4. stream'[u] = stream[u] /\ sinceReset'[u] = sinceReset[u]
      BY <1>2, <1>3, <1>5
    <2>. QED BY <2>1, <2>2, <2>3, <2>4, SameOrder
  <1>6. ASSUME t \notin torn' PROVE Orderly(t)'
    <2>1. /\ \A b \in Adders : Updates(b, t) => a = b
          /\ adder[a].val = sinceReset[t] /\ sinceReset[t] > 0
      BY <1>2, <1>3, <1>6 DEF Undisturbed, Orderly
    <2>2. \A b \in Adders : ~Updates(b, t)'
      BY <1>2, <1>4, <2>1 DEF Updates
    <2>3. stream'[t] = sinceReset'[t] + 1 /\ sinceReset'[t] # 0
      BY <1>2, <1>3, <2>1
    <2>. QED BY <2>2, <2>3 DEF Orderly
  <1>. QED BY <1>3, <1>5, <1>6 DEF Undisturbed

(***************************************************************************)
(* The count of a topic that no two updates and no Reset disturbed is one  *)
(* more than its events, for any number of callers and topics              *)
(* (AddEventStreamEvents; CountExport of module Handler).                  *)
(***************************************************************************)
THEOREM QuietCountsAreExact == Spec => []QuietCount
  <1>1. Init => Undisturbed
    BY DEF Init, Undisturbed, Orderly, Updates, Resting, Empty
  <1>2. TypeOK /\ Undisturbed /\ [Next]_vars => Undisturbed'
    <2>. SUFFICES ASSUME TypeOK, Undisturbed, [Next]_vars PROVE Undisturbed'
      OBVIOUS
    <2>1. CASE /\ UNCHANGED <<stream, adder, sinceReset, torn>>
               /\ mapState' \in {mapState, "clearing"}
      BY <2>1 DEF Undisturbed, Orderly, Updates
    <2>2. ASSUME NEW a \in Adders, NEW t \in Topics, AddEventsExported(a, t)
          PROVE  Undisturbed'
      <3>1. /\ adder[a].pc = "idle" /\ adder'[a].pc = "load"
            /\ \A b \in Adders \ {a} : adder'[b] = adder[b]
            /\ UNCHANGED <<stream, mapState, sinceReset, torn>>
        BY <2>2 DEF AddEventsExported, TypeOK
      <3>2. \A b \in Adders, u \in Topics : /\ Updates(b, u)' <=> Updates(b, u)
                                            /\ Updates(b, u) => adder'[b] = adder[b]
        BY <3>1 DEF Updates
      <3>3. \A u \in Topics \ torn : Orderly(u)'
        BY <3>1, <3>2, SameOrder DEF Undisturbed
      <3>. QED BY <3>1, <3>3 DEF Undisturbed
    <2>3. ASSUME NEW a \in Adders, LoadOrStore(a) PROVE Undisturbed'
      BY <2>3, LoadOrder, TearsAll DEF LoadOrStore
    <2>4. ASSUME NEW a \in Adders, Store(a) PROVE Undisturbed'
      BY <2>4, StoreOrder, TearsAll DEF Store
    <2>5. ASSUME NEW a \in Adders, AdderPanics(a) PROVE Undisturbed'
      BY <2>5, TearsAll DEF AdderPanics
    <2>6. CASE ResetMapEnds
      <3>1. CASE stream' = Empty /\ mapState' = "ok" /\ torn' = Storing
        <4>1. \A t \in Topics : stream'[t] = 0 /\ sinceReset'[t] = 0
          BY <2>6, <3>1 DEF ResetMapEnds, Empty
        <4>2. \A t \in Topics \ torn', a \in Adders : ~Updates(a, t)'
          BY <2>6, <3>1, StoringUpdates DEF ResetMapEnds, Updates
        <4>. QED BY <3>1, <4>1, <4>2 DEF Undisturbed, Orderly
      <3>2. CASE mapState = "reborn" /\ UNCHANGED torn
        BY <3>2 DEF Undisturbed
      <3>. QED BY <2>6, <3>1, <3>2 DEF ResetMapEnds
    <2>. QED
      BY <2>1, <2>2, <2>3, <2>4, <2>5, <2>6
      DEF Next, PrintSummary, GetEventStreamEvents, GetEventsExported, LogSummary,
          ResetExported, ResetMapBegins, vars
  <1>3. Undisturbed => QuietCount
    BY StoringUpdates DEF Undisturbed, Orderly, QuietCount
  <1>. QED BY <1>1, <1>2, <1>3, SummaryTypeCorrect, PTL DEF Spec

=============================================================================

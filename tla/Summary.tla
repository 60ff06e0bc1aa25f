---------------------------- MODULE Summary ----------------------------
(***************************************************************************)
(* The counters of pkg/processor/summary.go and the goroutine that prints  *)
(* and clears them.                                                        *)
(*                                                                         *)
(* The callers that export events count each of them with                  *)
(* AddEventsExported(1), one atomic add, and AddEventStreamEvents(topic,1),*)
(* a LoadOrStore and a Store on a sync.Map.  The summary goroutine runs    *)
(* Print on every tick of its ticker: it ranges over the map, loads the    *)
(* counters, logs them and resets them one after the other.  Nothing locks *)
(* out the callers meanwhile.                                              *)
(*                                                                         *)
(* Reset replaces the map by assigning a sync.Map{} over it, several plain *)
(* stores that race with the callers' map operations.  The map in use (a   *)
(* HashTrieMap) starts with an "initialised" flag that its operations test *)
(* before they touch its root, so while the assignment is under way        *)
(*   - an operation may still work on the old tree,                        *)
(*   - or find the flag cleared and initialise a new, empty tree, which    *)
(*     the rest of the assignment then leaves alone, clears, or breaks     *)
(*     (flag set, root nil),                                               *)
(*   - or find the flag set and the root already nil, and panic.           *)
(* A panic of a caller is recovered by SendEventBatch; a panic of the      *)
(* summary goroutine ends the process.                                     *)
(***************************************************************************)
EXTENDS Integers

CONSTANTS
    Adders,       \* the callers that export events
    Topics,       \* the names of the events they export
    MaxAdds,      \* bound: how many events are counted
    MaxPrints     \* bound: how many times the ticker fires

ASSUME SummaryAssumption == MaxAdds \in Nat /\ MaxPrints \in Nat

VARIABLES
    eventsExported,   \* Summary.eventsExported
    failedEvents,     \* Summary.failedEvents
    stream,           \* Summary.eventStreamEvents; 0: the topic has no entry
    mapState,         \* "ok", "clearing", "reborn" or "broken"
    adder,            \* what each caller is doing
    printer,          \* what the summary goroutine is doing
    up,               \* the process is alive
    prints,           \* how many times Print ran
    added,            \* history: calls of AddEventsExported
    topicAdds,        \* history: calls of AddEventStreamEvents, per topic
    sinceReset,       \* history: those that began after the last Reset
    reported,         \* history: the sum of all events_exported logged
    lost,             \* history: calls of it between Print's load and Reset's store
    torn              \* history: the topics whose updates since the last Reset met
                      \* one another or a Reset

vars == <<eventsExported, failedEvents, stream, mapState, adder, printer, up,
          prints, added, topicAdds, sinceReset, reported, lost, torn>>

Empty == [t \in Topics |-> 0]

Resting == [pc |-> "idle"]

Waiting == [pc |-> "wait", events |-> Empty, exported |-> 0]

Init ==
    /\ eventsExported = 0
    /\ failedEvents = 0
    /\ stream = Empty
    /\ mapState = "ok"
    /\ adder = [a \in Adders |-> Resting]
    /\ printer = Waiting
    /\ up = TRUE
    /\ prints = 0
    /\ added = 0
    /\ topicAdds = Empty
    /\ sinceReset = Empty
    /\ reported = 0
    /\ lost = 0
    /\ torn = {}

-----------------------------------------------------------------------------
\* handleNewDecoratedEvent: AddEventsExported(1), for an event of topic t.
AddEventsExported(a, t) ==
    /\ up
    /\ adder[a].pc = "idle"
    /\ added < MaxAdds
    /\ eventsExported' = eventsExported + 1
    /\ adder' = [adder EXCEPT ![a] = [pc |-> "load", topic |-> t, val |-> 0]]
    /\ added' = added + 1
    /\ lost' = IF printer.pc \in {"log", "resetExported"} THEN lost + 1 ELSE lost
    /\ UNCHANGED <<failedEvents, stream, mapState, printer, up, prints,
                   topicAdds, sinceReset, reported, torn>>

\* What a map operation may find: the contents it works on, and the state it
\* leaves the map in.
Views ==
    {v \in [content : {stream, Empty}, state : {"ok", "clearing", "reborn"}] :
        \/ mapState # "broken" /\ v.content = stream /\ v.state = mapState
        \/ mapState = "clearing" /\ v.content = Empty /\ v.state = "reborn"}

\* The topics for which some caller is between its LoadOrStore and its Store.
Storing == {adder[a].topic : a \in {b \in Adders : adder[b].pc = "store"}}

\* A map operation tears the updates of ts, and all of them during a Reset.
Tears(ts) == torn' = IF mapState = "ok" THEN torn \cup ts ELSE Topics

\* AddEventStreamEvents: LoadOrStore(topic, 1) returns the count it finds, or
\* stores 1 and returns that.
LoadOrStore(a) ==
    LET t == adder[a].topic IN
    /\ up
    /\ adder[a].pc = "load"
    /\ \E v \in Views :
          LET current == IF v.content[t] = 0 THEN 1 ELSE v.content[t] IN
          /\ stream' = [v.content EXCEPT ![t] = current]
          /\ mapState' = v.state
          /\ adder' = [adder EXCEPT ![a].pc = "store", ![a].val = current]
    /\ topicAdds' = [topicAdds EXCEPT ![t] = @ + 1]
    /\ sinceReset' = [sinceReset EXCEPT ![t] = @ + 1]
    /\ Tears({t} \cap Storing)
    /\ UNCHANGED <<eventsExported, failedEvents, printer, up, prints, added,
                   reported, lost>>

\* Mutant: an event is counted by LoadOrStore's caller as well as by Store.
StoreTwice(a) ==
    /\ up
    /\ adder[a].pc = "store"
    /\ \E v \in Views :
          /\ stream' = [v.content EXCEPT ![adder[a].topic] = adder[a].val + 2]
          /\ mapState' = v.state
    /\ adder' = [adder EXCEPT ![a] = Resting]
    /\ Tears({})
    /\ UNCHANGED <<eventsExported, failedEvents, printer, up, prints, added,
                   topicAdds, sinceReset, reported, lost>>

\* Mutant: Store puts back the count it read.
StoreRead(a) ==
    /\ up
    /\ adder[a].pc = "store"
    /\ \E v \in Views :
          /\ stream' = [v.content EXCEPT ![adder[a].topic] = adder[a].val]
          /\ mapState' = v.state
    /\ adder' = [adder EXCEPT ![a] = Resting]
    /\ Tears({})
    /\ UNCHANGED <<eventsExported, failedEvents, printer, up, prints, added,
                   topicAdds, sinceReset, reported, lost>>

\* AddEventStreamEvents: Store(topic, val+1), with the count read before.
Store(a) ==
    /\ up
    /\ adder[a].pc = "store"
    /\ \E v \in Views :
          /\ stream' = [v.content EXCEPT ![adder[a].topic] = adder[a].val + 1]
          /\ mapState' = v.state
    /\ adder' = [adder EXCEPT ![a] = Resting]
    /\ Tears({})
    /\ UNCHANGED <<eventsExported, failedEvents, printer, up, prints, added,
                   topicAdds, sinceReset, reported, lost>>

\* A map operation of a caller met a nil root: SendEventBatch recovers, and the
\* event and the rest of its batch go no further.
AdderPanics(a) ==
    /\ up
    /\ adder[a].pc \in {"load", "store"}
    /\ mapState # "ok"
    /\ adder' = [adder EXCEPT ![a] = Resting]
    /\ Tears({})
    /\ UNCHANGED <<eventsExported, failedEvents, stream, mapState, printer, up,
                   prints, added, topicAdds, sinceReset, reported, lost>>

-----------------------------------------------------------------------------
\* The ticker fired: Print calls GetEventStreamEvents, whose Range panics on a
\* broken map.
GetEventStreamEvents ==
    /\ up
    /\ printer.pc = "wait"
    /\ prints < MaxPrints
    /\ prints' = prints + 1
    /\ up' = (mapState # "broken")
    /\ printer' = [printer EXCEPT !.pc = "load", !.events = stream]
    /\ UNCHANGED <<eventsExported, failedEvents, stream, mapState, adder, added,
                   topicAdds, sinceReset, reported, lost, torn>>

\* Print: the counter of exported events is loaded.
GetEventsExported ==
    /\ up
    /\ printer.pc = "load"
    /\ printer' = [printer EXCEPT !.pc = "log", !.exported = eventsExported]
    /\ UNCHANGED <<eventsExported, failedEvents, stream, mapState, adder, up, prints,
                   added, topicAdds, sinceReset, reported, lost, torn>>

\* Print: failedEvents is loaded (nobody calls AddFailedEvents) and the line
\* is logged.
LogSummary ==
    /\ up
    /\ printer.pc = "log"
    /\ reported' = reported + printer.exported
    /\ printer' = [printer EXCEPT !.pc = "resetExported"]
    /\ UNCHANGED <<eventsExported, failedEvents, stream, mapState, adder, up, prints,
                   added, topicAdds, sinceReset, lost, torn>>

\* Mutant: Reset leaves the counter of exported events alone.
ResetExportedKeeps ==
    /\ up
    /\ printer.pc = "resetExported"
    /\ printer' = [printer EXCEPT !.pc = "resetMap"]
    /\ UNCHANGED <<eventsExported, failedEvents, stream, mapState, adder, up, prints,
                   added, topicAdds, sinceReset, reported, lost, torn>>

\* Reset: eventsExported.Store(0).
ResetExported ==
    /\ up
    /\ printer.pc = "resetExported"
    /\ eventsExported' = 0
    /\ printer' = [printer EXCEPT !.pc = "resetMap"]
    /\ UNCHANGED <<failedEvents, stream, mapState, adder, up, prints,
                   added, topicAdds, sinceReset, reported, lost, torn>>

\* Reset: failedEvents.Store(0), and the assignment of sync.Map{} begins.
ResetMapBegins ==
    /\ up
    /\ printer.pc = "resetMap"
    /\ failedEvents' = 0
    /\ mapState' = "clearing"
    /\ printer' = [printer EXCEPT !.pc = "clearing"]
    /\ UNCHANGED <<eventsExported, stream, adder, up, prints,
                   added, topicAdds, sinceReset, reported, lost, torn>>

\* Reset: the assignment of sync.Map{} ends.
ResetMapEnds ==
    /\ up
    /\ printer.pc = "clearing"
    /\ \/ stream' = Empty /\ mapState' = "ok" /\ torn' = Storing
       \/ /\ mapState = "reborn" /\ mapState' \in {"ok", "broken"}
          /\ UNCHANGED <<stream, torn>>
    /\ sinceReset' = Empty
    /\ printer' = Waiting
    /\ UNCHANGED <<eventsExported, failedEvents, adder, up, prints,
                   added, topicAdds, reported, lost>>

PrintSummary ==
    \/ GetEventStreamEvents \/ GetEventsExported \/ LogSummary
    \/ ResetExported \/ ResetMapBegins \/ ResetMapEnds

Next ==
    \/ \E a \in Adders : \/ \E t \in Topics : AddEventsExported(a, t)
                         \/ LoadOrStore(a) \/ Store(a) \/ AdderPanics(a)
    \/ PrintSummary

Spec == Init /\ [][Next]_vars

-----------------------------------------------------------------------------
AdderType == [pc : {"load", "store"}, topic : Topics, val : Nat]

PrinterType == [pc : {"wait", "load", "log", "resetExported", "resetMap", "clearing"},
                events : [Topics -> Nat], exported : Nat]

\* Every variable has its type.
TypeOK ==
    /\ eventsExported \in Nat /\ failedEvents \in Nat
    /\ stream \in [Topics -> Nat]
    /\ mapState \in {"ok", "clearing", "reborn", "broken"}
    /\ adder \in [Adders -> AdderType \cup {Resting}]
    /\ printer \in PrinterType
    /\ up \in BOOLEAN /\ prints \in Nat
    /\ added \in Nat /\ reported \in Nat /\ lost \in Nat /\ torn \subseteq Topics
    /\ topicAdds \in [Topics -> Nat] /\ sinceReset \in [Topics -> Nat]

(***************************************************************************)
(* Every exported event is logged once, or is still to be logged, or was   *)
(* counted after Print loaded the counter and before Reset cleared it:     *)
(* only those are lost, and none is logged twice, however many intervals   *)
(* go by.  (AddEventsExported, Print and Reset.)                           *)
(***************************************************************************)
ExportedAccounting ==
    LET pending == CASE printer.pc = "log"           -> printer.exported
                     [] printer.pc = "resetExported" -> 0
                     [] OTHER                        -> eventsExported
    IN  reported + pending + lost = added

(***************************************************************************)
(* Whatever updates are lost or come back after a Reset, the count of a    *)
(* topic, in the map or about to be logged, is at most one more than the   *)
(* events of that topic ever counted.  (AddEventStreamEvents, Reset.)      *)
(***************************************************************************)
StreamBound ==
    \A t \in Topics :
        /\ stream[t] <= topicAdds[t] + 1
        /\ printer.events[t] <= topicAdds[t] + 1

(***************************************************************************)
(* An undisturbed count.  A topic whose updates met neither one another    *)
(* nor a Reset has, once no update of it is under way, one more than its   *)
(* events since the last Reset, or nothing if there were none, whatever    *)
(* happened to other topics and before that Reset.  This is what           *)
(* CountExport of module Handler assumes.  (AddEventStreamEvents, Reset.)  *)
(***************************************************************************)
QuietCount ==
    \A t \in Topics \ (torn \cup Storing) :
        stream[t] = IF sinceReset[t] = 0 THEN 0 ELSE sinceReset[t] + 1

-----------------------------------------------------------------------------
\* AddEventStreamEvents "increments the counter for a specific event topic": as
\* long as nothing was reset and no update is under way, the count of a topic is
\* the number of its events.
StreamCountExact ==
    prints = 0 /\ (\A a \in Adders : adder[a].pc = "idle") => stream = topicAdds

\* Reset "clears all summary counters": a topic of which no event was counted
\* since the last Reset has no count.
ResetClears ==
    printer.pc = "wait" => \A t \in Topics : sinceReset[t] = 0 => stream[t] = 0

=============================================================================

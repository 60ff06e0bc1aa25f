---------------------------- MODULE Handler ----------------------------
(***************************************************************************)
(* The event pipeline of the sidecar: pkg/processor/handler.go.            *)
(*                                                                         *)
(* A host client calls SendEventBatch from several threads at once, and    *)
(* each event of a batch is one run of HandleRawEvent.  A caller is such a *)
(* thread; its call goes through                                           *)
(*                                                                         *)
(*   idle -> dispatch -> dedup -> age -> export -> sinks -> idle           *)
(*                                                                         *)
(* one step per access to state that other threads share: the clock drift, *)
(* the block slot cache, the duplicate cache, the wallclock, the summary   *)
(* and each sink.  Any number of ticks may pass between two steps.         *)
(***************************************************************************)
EXTENDS EventTypes

CONSTANTS
    Callers,      \* the threads of the client that call SendEventBatch
    Events,       \* the raw events the client may send
    Roots,        \* the block roots they mention
    BlockSlot,    \* BlockSlot[r]: the slot the block with root r really has
    Drifts,       \* the clock offsets an NTP server may report (nanoseconds)
    NumSinks,     \* how many sinks are configured
    Lead,         \* how many slots ahead of the wallclock an event may be
    MaxTime,      \* bound: the last tick
    MaxCalls      \* bound: how many calls are made

Sinks == 1..NumSinks

EventType == [type : STRING, root : Roots \cup {NoRoot}, column : Nat,
              slot : Nat, ts : Nat, source : Nat, target : Nat,
              shape : {"ok", "badJSON", "badEnum"}]

Handled == {e \in Events : Supported(e)}

Keys == {DupKey(e) : e \in Handled}

Names == {KindOf(e).name : e \in Handled}

\* The slot an event belongs to, whether or not the event says so.
RealSlot(e) == IF e.root = NoRoot THEN e.slot ELSE BlockSlot[e.root]

(***************************************************************************)
(* What the client promises: an event names the slot its block really has, *)
(* or, only in a part or an outcome, slot 0 for "unknown" (README, payloads *)
(* of the partial types); a completion names a block.                      *)
(***************************************************************************)
ASSUME ConstantsAssumption ==
    /\ Events \subseteq EventType
    /\ NoRoot \notin Roots
    /\ BlockSlot \in [Roots -> Nat]
    /\ Drifts \subseteq Int
    /\ {NumSinks, Lead, MaxTime, MaxCalls} \subseteq Nat

ASSUME ClientAssumption ==
    \A e \in Handled :
        /\ e.root # NoRoot =>
              \/ e.slot = BlockSlot[e.root]
              \/ e.slot = 0 /\ KindOf(e).resolve = "use"
        /\ KindOf(e).key = "column" => e.root # NoRoot

(***************************************************************************)
(* An entry of a ConsensusTTL cache outlives the window in which its event *)
(* can pass the age cutoff: 7 minutes against 17 slots of 12 seconds.      *)
(***************************************************************************)
ASSUME WindowAssumption ==
    ConsensusTTL >= (MaxSlotAge + 1 + Lead) * TicksPerSlot

(***************************************************************************)
(* A call and what it exports remember the tick of the claim (claimed):    *)
(* history, which no action reads.                                         *)
(***************************************************************************)
VARIABLES
    now,          \* the wallclock, in ticks since genesis
    drift,        \* Handler.clockDrift
    dup,          \* the duplicate caches: the expiry of every key
    blockSlots,   \* the block slot cache
    call,         \* what each caller is doing
    nextId,       \* the id (a fresh UUID) the next call takes
    exported,     \* the decorated events built and counted so far
    accepted,     \* per sink: the ids of the events it took
    rejected,     \* per sink: the ids of the events it returned an error for
    refused,      \* the keys whose call ended in a wallclock error
    summary       \* Handler.summary, as its interface presents it

vars == <<now, drift, dup, blockSlots, call, nextId, exported,
          accepted, rejected, refused, summary>>

Idle == [pc |-> "idle"]

EmptySummary == [exported |-> 0, stream |-> [n \in Names |-> 0]]

Init ==
    /\ now = 0
    /\ drift = 0
    /\ dup = [k \in Keys |-> Absent]
    /\ blockSlots = [r \in Roots \cup {NoRoot} |-> [slot |-> 0, expiry |-> Absent]]
    /\ call = [c \in Callers |-> Idle]
    /\ nextId = 1
    /\ exported = {}
    /\ accepted = [s \in Sinks |-> {}]
    /\ rejected = [s \in Sinks |-> {}]
    /\ refused = {}
    /\ summary = EmptySummary

-----------------------------------------------------------------------------
\* Time passes.
Tick ==
    /\ now < MaxTime
    /\ now' = now + 1
    /\ UNCHANGED <<drift, dup, blockSlots, call, nextId, exported,
                   accepted, rejected, refused, summary>>

\* The cron job got an answer from the NTP server.  (When the query or its
\* validation fails it changes nothing.)
syncClockDrift ==
    /\ \E d \in Drifts : drift' = d
    /\ UNCHANGED <<now, dup, blockSlots, call, nextId, exported,
                   accepted, rejected, refused, summary>>

\* The summary goroutine's ticker fired: it logs the counters and clears
\* them.  Summary.tla takes this step apart.
PrintSummary ==
    /\ summary' = EmptySummary
    /\ UNCHANGED <<now, drift, dup, blockSlots, call, nextId, exported,
                   accepted, rejected, refused>>

-----------------------------------------------------------------------------
\* The current call of c moves on to pc.
Goto(c, pc) == call' = [call EXCEPT ![c].pc = pc]

\* The current call of c returns.
Return(c) == call' = [call EXCEPT ![c] = Idle]

\* An event of a later slot than the current one may arrive, but no more
\* than Lead slots ahead (proposer preferences are published ahead of time).
Timely(e) ==
    Supported(e) /\ KindOf(e).cutoff # "none" => RealSlot(e) <= SlotAt(now) + Lead

\* A caller enters HandleRawEvent with event e: the drift is read once, and
\* the client metadata made from that reading.
HandleRawEvent(c, e) ==
    /\ call[c].pc = "idle"
    /\ nextId <= MaxCalls
    /\ Timely(e)
    /\ call' = [call EXCEPT ![c] =
                   [pc |-> "dispatch", ev |-> e, id |-> nextId, slot |-> e.slot,
                    clockDrift |-> drift, meta |-> clockDriftMillis(drift),
                    claimed |-> Absent, sink |-> 1]]
    /\ nextId' = nextId + 1
    /\ UNCHANGED <<now, drift, dup, blockSlots, exported,
                   accepted, rejected, refused, summary>>

\* Unmarshalling failed, or the event type is not supported.
Unsupported(c) ==
    /\ call[c].pc = "dispatch"
    /\ ~Supported(call[c].ev) \/ call[c].ev.shape = "badJSON"
    /\ Return(c)
    /\ UNCHANGED <<now, drift, dup, blockSlots, nextId, exported,
                   accepted, rejected, refused, summary>>

\* The event object is built: types that carry a block root and a slot record
\* them in the block slot cache, and partial types take their slot from it.
Dispatch(c) ==
    LET e == call[c].ev
        k == KindOf(e)
        resolved == Resolve(blockSlots, e.root, e.slot, now)
    IN  /\ call[c].pc = "dispatch"
        /\ Supported(e) /\ e.shape # "badJSON"
        /\ call' = [call EXCEPT ![c].pc = "dedup",
                       ![c].slot = IF k.resolve = "use" THEN resolved.slot ELSE e.slot]
        /\ blockSlots' = IF k.resolve = "no" THEN blockSlots ELSE resolved.cache
        /\ UNCHANGED <<now, drift, dup, nextId, exported,
                       accepted, rejected, refused, summary>>

\* Mutant: the enum fields are validated after GetOrSet claimed the key.
RejectAfterClaim(c) ==
    LET e == call[c].ev IN
    /\ call[c].pc = "dedup"
    /\ Malformed(e)
    /\ dup' = GetOrSet(dup, DupKey(e), TTL(e), now)
    /\ Return(c)
    /\ UNCHANGED <<now, drift, blockSlots, nextId, exported,
                   accepted, rejected, refused, summary>>

\* ShouldIgnore: an unknown enum value is an error, before the cache is asked.
Reject(c) ==
    /\ call[c].pc = "dedup"
    /\ Malformed(call[c].ev)
    /\ Return(c)
    /\ UNCHANGED <<now, drift, dup, blockSlots, nextId, exported,
                   accepted, rejected, refused, summary>>

\* ShouldIgnore: GetOrSet found the key.
Duplicate(c) ==
    LET e == call[c].ev IN
    /\ call[c].pc = "dedup"
    /\ ~Malformed(e)
    /\ Retrieved(dup, DupKey(e), now)
    /\ dup' = GetOrSet(dup, DupKey(e), TTL(e), now)
    /\ Return(c)
    /\ UNCHANGED <<now, drift, blockSlots, nextId, exported,
                   accepted, rejected, refused, summary>>

\* The call of c has the key, and goes on to the age cutoff if its type has one.
Claimed(c) ==
    call' = [call EXCEPT
                ![c].pc = IF KindOf(call[c].ev).cutoff = "none" THEN "export" ELSE "age",
                ![c].claimed = now]

\* Mutant: ShouldIgnore looks the key up with Get and never sets it.
ClaimUnset(c) ==
    LET e == call[c].ev IN
    /\ call[c].pc = "dedup"
    /\ ~Malformed(e)
    /\ ~Retrieved(dup, DupKey(e), now)
    /\ Claimed(c)
    /\ UNCHANGED <<now, drift, dup, blockSlots, nextId, exported,
                   accepted, rejected, refused, summary>>

\* ShouldIgnore: GetOrSet did not find the key and has now set it.
Claim(c) ==
    LET e == call[c].ev IN
    /\ call[c].pc = "dedup"
    /\ ~Malformed(e)
    /\ ~Retrieved(dup, DupKey(e), now)
    /\ dup' = GetOrSet(dup, DupKey(e), TTL(e), now)
    /\ Claimed(c)
    /\ UNCHANGED <<now, drift, blockSlots, nextId, exported,
                   accepted, rejected, refused, summary>>

\* ShouldIgnore: wallclock.Now failed.  The event is dropped with an error,
\* but its key stays claimed.
WallclockError(c) ==
    /\ call[c].pc = "age"
    /\ ReadsClock(call[c].ev, call[c].slot)
    /\ refused' = refused \cup {DupKey(call[c].ev)}
    /\ Return(c)
    /\ UNCHANGED <<now, drift, dup, blockSlots, nextId, exported,
                   accepted, rejected, summary>>

\* Mutant: the age cutoff takes the slot of the raw event, not the resolved one.
IsStaleUnresolved(c) ==
    ReadsClock(call[c].ev, call[c].ev.slot) /\ TooOld(call[c].ev.slot, now)

\* The answer of the age cutoff for the current call of c.
IsStale(c) ==
    ReadsClock(call[c].ev, call[c].slot) /\ TooOld(call[c].slot, now)

\* ShouldIgnore: the event is too far behind the wallclock.
Stale(c) ==
    /\ call[c].pc = "age"
    /\ IsStale(c)
    /\ Return(c)
    /\ UNCHANGED <<now, drift, dup, blockSlots, nextId, exported,
                   accepted, rejected, refused, summary>>

\* ShouldIgnore returned false.
Fresh(c) ==
    /\ call[c].pc = "age"
    /\ ~IsStale(c)
    /\ Goto(c, "export")
    /\ UNCHANGED <<now, drift, dup, blockSlots, nextId, exported,
                   accepted, rejected, refused, summary>>

\* Mutant: Decorate reads the handler's drift again instead of the snapshot.
DecorateRereads(c, timed) ==
    [id         |-> call[c].id,
     ev         |-> call[c].ev,
     dateTime   |-> call[c].ev.ts * NanosPerMilli + drift,
     clockDrift |-> call[c].meta,
     claimed    |-> call[c].claimed,
     data       |-> IF timed THEN AdditionalData(call[c].ev, call[c].slot)
                    ELSE NoAdditionalData]

\* Decorate: the event with its corrected time, the client metadata and, if
\* wallclock.FromTime worked, the additional data.
Decorate(c, timed) ==
    [id         |-> call[c].id,
     ev         |-> call[c].ev,
     dateTime   |-> call[c].ev.ts * NanosPerMilli + call[c].clockDrift,
     clockDrift |-> call[c].meta,
     claimed    |-> call[c].claimed,
     data       |-> IF timed THEN AdditionalData(call[c].ev, call[c].slot)
                    ELSE NoAdditionalData]

\* AddEventsExported(1) and AddEventStreamEvents(name, 1) run undisturbed: the
\* LoadOrStore of a name's first event stores 1 and the Store after it 2.
CountExport(s, name) ==
    [exported |-> s.exported + 1,
     stream   |-> [s.stream EXCEPT ![name] = IF @ = 0 THEN 2 ELSE @ + 1]]

\* Mutant: Decorate returns the error of getAdditionalData instead of logging it.
ExportOnlyTimed(c) ==
    /\ call[c].pc = "export"
    /\ \/ /\ exported' = exported \cup {Decorate(c, TRUE)}
          /\ summary' = CountExport(summary, KindOf(call[c].ev).name)
          /\ Goto(c, "sinks")
       \/ Return(c) /\ UNCHANGED <<exported, summary>>
    /\ UNCHANGED <<now, drift, dup, blockSlots, nextId,
                   accepted, rejected, refused>>

\* Decorate, and handleNewDecoratedEvent up to its loop over the sinks.
Export(c) ==
    /\ call[c].pc = "export"
    /\ \E timed \in BOOLEAN : exported' = exported \cup {Decorate(c, timed)}
    /\ summary' = CountExport(summary, KindOf(call[c].ev).name)
    /\ Goto(c, "sinks")
    /\ UNCHANGED <<now, drift, dup, blockSlots, nextId,
                   accepted, rejected, refused>>

\* Mutant: handleNewDecoratedEvent returns at the first sink that fails.
SinkFailsAndReturns(c) ==
    /\ call[c].pc = "sinks"
    /\ call[c].sink \in Sinks
    /\ rejected' = [rejected EXCEPT ![call[c].sink] = @ \cup {call[c].id}]
    /\ Return(c)
    /\ UNCHANGED <<now, drift, dup, blockSlots, nextId, exported,
                   accepted, refused, summary>>

\* Mutant: handleNewDecoratedEvent offers the event to the same sink again.
SinkFailsAndRetries(c) ==
    /\ call[c].pc = "sinks"
    /\ call[c].sink \in Sinks
    /\ rejected' = [rejected EXCEPT ![call[c].sink] = @ \cup {call[c].id}]
    /\ UNCHANGED <<now, drift, dup, blockSlots, call, nextId, exported,
                   accepted, refused, summary>>

\* sink.HandleNewDecoratedEvent returned an error: it is logged, and the loop
\* goes on with the next sink.
SinkFails(c) ==
    /\ call[c].pc = "sinks"
    /\ call[c].sink \in Sinks
    /\ rejected' = [rejected EXCEPT ![call[c].sink] = @ \cup {call[c].id}]
    /\ call' = [call EXCEPT ![c].sink = @ + 1]
    /\ UNCHANGED <<now, drift, dup, blockSlots, nextId, exported,
                   accepted, refused, summary>>

\* The sink took the event.
SinkAccepts(c) ==
    /\ call[c].pc = "sinks"
    /\ call[c].sink \in Sinks
    /\ accepted' = [accepted EXCEPT ![call[c].sink] = @ \cup {call[c].id}]
    /\ call' = [call EXCEPT ![c].sink = @ + 1]
    /\ UNCHANGED <<now, drift, dup, blockSlots, nextId, exported,
                   rejected, refused, summary>>

\* The loop over the sinks ended and HandleRawEvent returned nil.
Finish(c) ==
    /\ call[c].pc = "sinks"
    /\ call[c].sink \notin Sinks
    /\ Return(c)
    /\ UNCHANGED <<now, drift, dup, blockSlots, nextId, exported,
                   accepted, rejected, refused, summary>>

Step(c) ==
    \/ Unsupported(c) \/ Dispatch(c)
    \/ Reject(c) \/ Duplicate(c) \/ Claim(c)
    \/ WallclockError(c) \/ Stale(c) \/ Fresh(c)
    \/ Export(c) \/ SinkFails(c) \/ SinkAccepts(c) \/ Finish(c)

Next ==
    \/ Tick
    \/ syncClockDrift
    \/ PrintSummary
    \/ \E c \in Callers : Step(c) \/ \E e \in Events : HandleRawEvent(c, e)

Spec == Init /\ [][Next]_vars

\* A call that has begun keeps running: the Go scheduler preempts no goroutine
\* for ever, and sinks hand the event to a queue and return.
FairSpec == Spec /\ \A c \in Callers : WF_vars(Step(c))

-----------------------------------------------------------------------------
Busy == {"dispatch", "dedup", "age", "export", "sinks"}

CallType == [pc : Busy, ev : Events, id : Nat, slot : Nat,
             clockDrift : Int, meta : Nat, claimed : Int, sink : Nat]

DataType == [wallclockSlot : Int, wallclockEpoch : Int, slot : Int, epoch : Int,
             propagation : Int, sourceStart : Int, targetStart : Int]

ExportType == [id : Nat, ev : Handled, dateTime : Int, clockDrift : Nat,
               claimed : Int, data : DataType]

\* Every variable has its type; a call past its dispatch holds a supported event.
TypeOK ==
    /\ now \in Nat
    /\ drift \in Int
    /\ dup \in [Keys -> Int]
    /\ blockSlots \in [Roots \cup {NoRoot} -> [slot : Nat, expiry : Int]]
    /\ call \in [Callers -> CallType \cup {Idle}]
    /\ \A c \in Callers :
          call[c].pc \in {"dedup", "age", "export", "sinks"} => Supported(call[c].ev)
    /\ nextId \in Nat
    /\ exported \subseteq ExportType
    /\ accepted \in [Sinks -> SUBSET Nat]
    /\ rejected \in [Sinks -> SUBSET Nat]
    /\ refused \subseteq Keys
    /\ summary \in [exported : Nat, stream : [Names -> Nat]]

\* The age cutoff applies to e and its key is kept for ConsensusTTL.
Dated(e) ==
    \/ KindOf(e).cutoff = "age"
    \/ KindOf(e).cutoff = "known" /\ KindOf(e).ttl = "consensus" /\ e.slot # 0

(***************************************************************************)
(* Deduplication.  However calls interleave, however long a call rests     *)
(* between GetOrSet and the age cutoff, and however many lifetimes of a    *)
(* cache entry go by, two calls never export events with the same key, if  *)
(* these name their slot: a key that has expired belongs to an event that  *)
(* the age cutoff refuses.  (GetOrSet and the cutoff of ShouldIgnore, with *)
(* the TTLs of NewDuplicateCache.)                                         *)
(***************************************************************************)
AtMostOnce ==
    \A x, y \in exported :
        /\ Dated(x.ev) /\ Dated(y.ev)
        /\ DupKey(x.ev) = DupKey(y.ev)
        => x.id = y.id

(***************************************************************************)
(* Repetitions are spaced.  For the events AtMostOnce leaves out, the      *)
(* parts and outcomes with their 30 seconds and the preferences without a  *)
(* cutoff: between the claims of two calls that export the same key lies   *)
(* more than the lifetime of that key, however these calls overlap,        *)
(* whatever was delivered in between, and however late either is exported. *)
(* (GetOrSet in ShouldIgnore; PartialTTL entries "guard against the same   *)
(* observation being delivered twice".)                                    *)
(***************************************************************************)
SpacedApart ==
    \A x, y \in exported :
        DupKey(x.ev) = DupKey(y.ev) /\ x.id # y.id =>
            \/ x.claimed > y.claimed + TTL(y.ev)
            \/ y.claimed > x.claimed + TTL(x.ev)

(***************************************************************************)
(* Nothing is lost to deduplication.  A key in a duplicate cache stands    *)
(* for an event that was exported, or is about to be by the call that set  *)
(* it, or was refused by a wallclock error, or is really more than         *)
(* MaxSlotAge slots old: a claim never silences an event that no call      *)
(* exports.  (ShouldIgnore: enum validation, then GetOrSet, then cutoff.)  *)
(***************************************************************************)
NoFreshLoss ==
    \A k \in Keys : dup[k] # Absent =>
        \/ \E x \in exported : DupKey(x.ev) = k
        \/ \E c \in Callers : /\ call[c].pc \in {"age", "export"}
                              /\ DupKey(call[c].ev) = k
        \/ k \in refused
        \/ \E e \in Handled : /\ DupKey(e) = k
                             /\ RealSlot(e) + MaxSlotAge < SlotAt(now)

(***************************************************************************)
(* Nothing old comes through.  An exported event that names its slot, or   *)
(* is shown in one that the block slot cache gave it, was at most          *)
(* MaxSlotAge slots behind the wallclock when its key was claimed, by the  *)
(* slot its block really has: what another thread taught the cache counts  *)
(* for the cutoff as it does for the export.  (ShouldIgnore after Resolve, *)
(* except for proposer preferences, which have no cutoff.)                 *)
(***************************************************************************)
FreshWhenClaimed ==
    \A x \in exported :
        /\ KindOf(x.ev).cutoff # "none"
        /\ KindOf(x.ev).cutoff = "age" \/ x.ev.slot # 0 \/ x.data.slot # Unset
        => SlotAt(x.claimed) <= RealSlot(x.ev) + MaxSlotAge

(***************************************************************************)
(* The corrected time and the reported drift of an exported event agree,   *)
(* although the NTP job may store a new drift at any moment of the call:   *)
(* clock_drift is the whole milliseconds by which date_time was shifted.   *)
(* (HandleRawEvent reads the drift once for both.)                         *)
(***************************************************************************)
DriftCoherent ==
    \A x \in exported :
        x.clockDrift = clockDriftMillis(x.dateTime - x.ev.ts * NanosPerMilli)

(***************************************************************************)
(* An exported event is placed in the slot of its own block or in none:    *)
(* the slot a partial data column takes from the block slot cache, learned *)
(* from another thread's event, is the one its block has; slot 0 is never  *)
(* shown as a slot for an unknown one, and events without a block root     *)
(* never share a slot.  (BlockSlotCache.Resolve, newBlockTiming.)          *)
(***************************************************************************)
SlotAttribution ==
    \A x \in exported : x.data.slot \in {RealSlot(x.ev), Unset}

(***************************************************************************)
(* No step forgets or changes the slot of a live block root, or shortens   *)
(* the time for which it is remembered.  (BlockSlotCache.Resolve.)         *)
(***************************************************************************)
MappingStable ==
    [][\A r \in Roots : Live(blockSlots[r].expiry, now) =>
          /\ blockSlots'[r].slot = blockSlots[r].slot
          /\ blockSlots'[r].expiry >= blockSlots[r].expiry]_vars

\* An event that tells the slot of its block.
Teaches(e) ==
    /\ e.type \in {"BEACON_BLOCK", "DATA_COLUMN_SIDECAR", "DATA_COLUMN_SIDECAR_GLOAS",
                  "DATA_COLUMN_COMPLETED", "PARTIAL_DATA_COLUMN",
                  "PARTIAL_DATA_COLUMN_OUTCOME"}
    /\ e.root # NoRoot
    /\ e.slot # 0

(***************************************************************************)
(* A part that does not know its slot gets it from an earlier event of its *)
(* block: once any thread has exported an event that tells it, and for     *)
(* BlockSlotTTL from the earliest moment that event can have arrived, the  *)
(* part's call goes on with the block's real slot, whatever lookups,       *)
(* slot-less parts and other blocks came in between.  (HandleRawEvent      *)
(* calls Resolve for every type that has both, README "fills it from       *)
(* earlier events".)                                                       *)
(***************************************************************************)
PartsLearnSlot ==
    [][\A c \in Callers, x \in exported :
          /\ call[c].pc = "dispatch" /\ call'[c].pc = "dedup"
          /\ KindOf(call[c].ev).resolve = "use"
          /\ Teaches(x.ev) /\ x.ev.root = call[c].ev.root
          /\ now + Lead * TicksPerSlot <= SlotStart(x.ev.slot) + BlockSlotTTL
          => call'[c].slot = RealSlot(call[c].ev)]_vars

(***************************************************************************)
(* A failing sink costs no other sink the event: every exported event has  *)
(* been offered to every sink, or its call is still on the way there.      *)
(* (handleNewDecoratedEvent logs a sink's error and goes on.)              *)
(***************************************************************************)
SinkIsolation ==
    \A x \in exported, s \in Sinks :
        \/ x.id \in accepted[s] \cup rejected[s]
        \/ \E c \in Callers : /\ call[c].pc = "sinks"
                              /\ call[c].id = x.id
                              /\ call[c].sink <= s

(***************************************************************************)
(* An event that ShouldIgnore lets through reaches every sink in the end.  *)
(* (HandleRawEvent after ShouldIgnore; every caller keeps running.)        *)
(***************************************************************************)
EventuallyOffered ==
    \A i \in 1..MaxCalls, s \in Sinks :
        (\E c \in Callers : call[c].pc = "export" /\ call[c].id = i)
            ~> (i \in accepted[s] \cup rejected[s])

-----------------------------------------------------------------------------
(***************************************************************************)
(* What comments and the README say of the program and the code does not   *)
(* do.                                                                     *)
(***************************************************************************)

\* ATTESTATION: target_epoch is an epoch number, and the exported start of the
\* target epoch is the start of that epoch.
TargetEpochStart ==
    \A x \in exported :
        x.data.targetStart # Unset => x.data.targetStart = EpochStart(x.ev.target)

=============================================================================

------------------------- MODULE Handler_proofs -------------------------
(***************************************************************************)
(* Theorems about the event pipeline of Handler.tla for every value of its *)
(* constants: type correctness, the coherence of the clock drift, the      *)
(* isolation of the sinks, and the truth and stability of the block slot   *)
(* cache.  Deduplication has a module of its own, Dedup_proofs.            *)
(***************************************************************************)
EXTENDS Handler, TLAPS

\* Integer division by a positive number: quotient and remainder.
LEMMA DivMod ==
    ASSUME NEW a \in Int, NEW n \in Nat \ {0}
    PROVE  /\ a \div n \in Int
           /\ n * (a \div n) <= a
           /\ a < n * (a \div n) + n
  OBVIOUS

\* The quotient is the largest q with n * q <= a.
LEMMA DivUnique ==
    ASSUME NEW a \in Int, NEW n \in Nat \ {0}, NEW q \in Int,
           n * q <= a
    PROVE  q <= a \div n
  <1> DEFINE p == a \div n
  <1>1. p \in Int /\ a < n * p + n
    BY DivMod
  <1> HIDE DEF p
  <1>2. n * q < n * (p + 1)
    BY <1>1, SMT
  <1>3. q < p + 1
    BY <1>1, <1>2, SMT
  <1>. QED BY <1>1, <1>3 DEF p

\* The wallclock never reads a negative slot.
LEMMA SlotAtType ==
    ASSUME NEW t \in Nat PROVE SlotAt(t) \in Nat
  <1>. TicksPerSlot \in Nat \ {0} BY ChainAssumption
  <1>1. SlotAt(t) \in Int BY DivMod DEF SlotAt
  <1>2. 0 <= SlotAt(t) BY DivUnique DEF SlotAt
  <1>. QED BY <1>1, <1>2

\* Later ticks belong to the same slot or a later one.
LEMMA SlotAtMonotone ==
    ASSUME NEW s \in Nat, NEW t \in Nat, s <= t
    PROVE  SlotAt(s) <= SlotAt(t)
  <1>. TicksPerSlot \in Nat \ {0} BY ChainAssumption
  <1>1. SlotAt(s) \in Int /\ TicksPerSlot * SlotAt(s) <= s BY DivMod DEF SlotAt
  <1>2. TicksPerSlot * SlotAt(s) <= t BY <1>1
  <1>. QED BY <1>1, <1>2, DivUnique DEF SlotAt

\* The reported drift is never negative, whatever sign the offset has.
LEMMA ClockDriftMillisType ==
    ASSUME NEW d \in Int PROVE clockDriftMillis(d) \in Nat
  <1>. NanosPerMilli \in Nat \ {0} BY EventTypesAssumption
  <1>1. d \div NanosPerMilli \in Int /\ (-d) \div NanosPerMilli \in Int BY DivMod
  <1>. QED BY <1>1 DEF clockDriftMillis

-----------------------------------------------------------------------------
(* The conjunct of TypeOK about the calls, on its own. *)
CallOK ==
    /\ call \in [Callers -> CallType \cup {Idle}]
    /\ \A c \in Callers :
          call[c].pc \in {"dedup", "age", "export", "sinks"} => Supported(call[c].ev)

\* A call that is not idle has all its fields.
LEMMA BusyCall ==
    ASSUME CallOK, NEW c \in Callers, call[c].pc # "idle"
    PROVE  call[c] \in CallType
  BY DEF CallOK, Idle

\* Return(c) keeps the calls well formed.
LEMMA ReturnType ==
    ASSUME CallOK, NEW c \in Callers, Return(c)
    PROVE  CallOK'
  BY DEF CallOK, Return, Idle

\* Goto(c, pc) keeps them well formed too, once the type of c's event is known.
LEMMA GotoType ==
    ASSUME CallOK, NEW c \in Callers, NEW p \in {"dedup", "age", "export", "sinks"},
           call[c].pc # "idle", Supported(call[c].ev), Goto(c, p)
    PROVE  CallOK'
  <1>1. call[c] \in CallType BY BusyCall
  <1>. QED BY <1>1 DEF CallOK, Goto, CallType, Busy, Idle

\* Claimed(c) also takes the time, and leaves the rest of the call alone.
LEMMA ClaimedCall ==
    ASSUME CallOK, NEW c \in Callers, call[c].pc # "idle", now \in Nat, Claimed(c)
    PROVE  /\ call'[c] \in CallType
           /\ \A d \in Callers \ {c} : call'[d] = call[d]
           /\ call'[c].pc = IF KindOf(call[c].ev).cutoff = "none" THEN "export" ELSE "age"
           /\ call'[c].claimed = now
           /\ call'[c].ev = call[c].ev /\ call'[c].id = call[c].id
           /\ call'[c].clockDrift = call[c].clockDrift /\ call'[c].meta = call[c].meta
           /\ call'[c].slot = call[c].slot /\ call'[c].sink = call[c].sink
           /\ call' \in [Callers -> CallType \cup {Idle}]
  <1>. DEFINE p == IF KindOf(call[c].ev).cutoff = "none" THEN "export" ELSE "age"
              r == [call[c] EXCEPT !.pc = p, !.claimed = now]
  <1>1. call[c] \in CallType BY BusyCall
  <1>2. p \in Busy BY DEF Busy
  <1>3. call' = [call EXCEPT ![c] = r]
    BY DEF Claimed
  <1>. HIDE DEF p
  <1>4. /\ r \in CallType /\ r.pc = p /\ r.claimed = now
        /\ r.ev = call[c].ev /\ r.id = call[c].id
        /\ r.clockDrift = call[c].clockDrift /\ r.meta = call[c].meta
        /\ r.slot = call[c].slot /\ r.sink = call[c].sink
    <2>1. PICK o \in CallType, n \in Int : o = call[c] /\ n = now
      BY <1>1
    <2>2. r = [o EXCEPT !.pc = p, !.claimed = n]
      BY <2>1
    <2>. HIDE DEF r
    <2>. QED BY <1>2, <2>1, <2>2 DEF CallType
  <1>. HIDE DEF r
  <1>. QED BY <1>3, <1>4 DEF CallOK, p

\* So it keeps the calls well formed.
LEMMA ClaimedType ==
    ASSUME CallOK, NEW c \in Callers, call[c].pc # "idle", Supported(call[c].ev),
           now \in Nat, Claimed(c)
    PROVE  CallOK'
  BY ClaimedCall DEF CallOK

\* The additional data of an event is well formed.
LEMMA AdditionalDataType ==
    ASSUME NEW e \in Events, NEW n \in Nat
    PROVE  AdditionalData(e, n) \in DataType
  <1>. /\ TicksPerSlot \in Nat \ {0}
       /\ SlotsPerEpoch \in Nat \ {0}
    BY ChainAssumption
  <1>1. /\ e.ts \in Nat /\ e.source \in Nat /\ e.target \in Nat
    BY ConstantsAssumption DEF EventType
  <1>2. \A t \in Nat : SlotAt(t) \in Nat BY SlotAtType
  <1>3. \A m \in Nat : EpochOf(m) \in Int BY DivMod DEF EpochOf
  <1>4. \A m \in Int : SlotStart(m) \in Int BY DEF SlotStart
  <1>5. \A m \in Int : EpochStart(m) \in Int BY <1>4 DEF EpochStart
  <1>6. SlotStartDiff(n, e.ts) \in Int BY <1>1, <1>4 DEF SlotStartDiff
  <1>7. Unset \in Int BY DEF Unset
  <1>8. VoteEpochStart(e.source) \in Int /\ VoteEpochStart(e.target) \in Int
    BY <1>1, <1>3, <1>5 DEF VoteEpochStart
  <1>. HIDE DEF Unset
  <1>. QED
    BY <1>1, <1>2, <1>3, <1>6, <1>7, <1>8 DEF AdditionalData, DataType

\* Resolve returns a slot and a well formed block slot cache.
LEMMA ResolveType ==
    ASSUME NEW cache \in [Roots \cup {NoRoot} -> [slot : Nat, expiry : Int]],
           NEW r \in Roots \cup {NoRoot}, NEW n \in Nat, NEW t \in Nat
    PROVE  /\ Resolve(cache, r, n, t).slot \in Nat
           /\ Resolve(cache, r, n, t).cache
                 \in [Roots \cup {NoRoot} -> [slot : Nat, expiry : Int]]
  BY TTLAssumption DEF Resolve, SetSlot, GetSlot

\* GetOrSet on the key of a supported event keeps the cache well formed.
LEMMA GetOrSetType ==
    ASSUME dup \in [Keys -> Int], now \in Nat, NEW e \in Events, Supported(e)
    PROVE  /\ DupKey(e) \in Keys
           /\ TTL(e) \in Nat \ {0}
           /\ GetOrSet(dup, DupKey(e), TTL(e), now) \in [Keys -> Int]
  <1>1. DupKey(e) \in Keys BY DEF Keys, Handled
  <1>2. TTL(e) \in Nat \ {0} BY TTLAssumption DEF TTL
  <1>. HIDE DEF Keys
  <1>. QED BY <1>1, <1>2 DEF GetOrSet

(***************************************************************************)
(* Type correctness of the pipeline.                                       *)
(***************************************************************************)
THEOREM TypeCorrect == Spec => []TypeOK
  <1>1. Init => TypeOK
    <2>. SUFFICES ASSUME Init PROVE TypeOK OBVIOUS
    <2>1. dup \in [Keys -> Int] BY DEF Init, Absent
    <2>2. blockSlots \in [Roots \cup {NoRoot} -> [slot : Nat, expiry : Int]]
      BY DEF Init, Absent
    <2>3. CallOK BY DEF Init, CallOK, Idle
    <2>4. accepted \in [Sinks -> SUBSET Nat] /\ rejected \in [Sinks -> SUBSET Nat]
      BY DEF Init
    <2>5. summary \in [exported : Nat, stream : [Names -> Nat]]
      BY DEF Init, EmptySummary
    <2>. QED BY <2>1, <2>2, <2>3, <2>4, <2>5 DEF Init, TypeOK, CallOK
  <1>2. TypeOK /\ [Next]_vars => TypeOK'
    <2>. SUFFICES ASSUME TypeOK, [Next]_vars PROVE TypeOK' OBVIOUS
    <2>0. CallOK BY DEF TypeOK, CallOK
    <2>1. CASE UNCHANGED vars
      BY <2>1 DEF TypeOK, vars
    <2>2. CASE Tick
      BY <2>2 DEF TypeOK, Tick
    <2>3. CASE syncClockDrift
      BY <2>3, ConstantsAssumption DEF TypeOK, syncClockDrift
    <2>4. CASE PrintSummary
      <3>1. EmptySummary \in [exported : Nat, stream : [Names -> Nat]]
        BY DEF EmptySummary
      <3>. QED BY <2>4, <3>1 DEF TypeOK, PrintSummary
    <2>5. ASSUME NEW c \in Callers, NEW e \in Events, HandleRawEvent(c, e)
          PROVE  TypeOK'
      <3>1. clockDriftMillis(drift) \in Nat
        BY ClockDriftMillisType DEF TypeOK
      <3>2. e.slot \in Nat
        BY ConstantsAssumption DEF EventType
      <3>3. CallOK'
        BY <2>0, <2>5, <3>1, <3>2
        DEF TypeOK, CallOK, HandleRawEvent, CallType, Busy, Idle, Absent
      <3>. QED BY <2>5, <3>3 DEF TypeOK, CallOK, HandleRawEvent
    <2>6. ASSUME NEW c \in Callers, Unsupported(c) PROVE TypeOK'
      <3>1. CallOK' BY <2>0, <2>6, ReturnType DEF Unsupported
      <3>. QED BY <2>6, <3>1 DEF TypeOK, CallOK, Unsupported
    <2>7. ASSUME NEW c \in Callers, Dispatch(c) PROVE TypeOK'
      <3>1. call[c] \in CallType
        BY <2>0, <2>7, BusyCall DEF Dispatch
      <3>2. call[c].ev \in EventType
        BY <3>1, ConstantsAssumption DEF CallType
      <3>. DEFINE e == call[c].ev
                  resolved == Resolve(blockSlots, e.root, e.slot, now)
      <3>3. e.root \in Roots \cup {NoRoot} /\ e.slot \in Nat
        BY <3>2 DEF EventType
      <3>4. /\ resolved.slot \in Nat
            /\ resolved.cache \in [Roots \cup {NoRoot} -> [slot : Nat, expiry : Int]]
        BY <3>3, ResolveType DEF TypeOK
      <3>. HIDE DEF resolved
      <3>5. /\ Supported(e)
            /\ call' = [call EXCEPT ![c].pc = "dedup",
                           ![c].slot = IF KindOf(e).resolve = "use" THEN resolved.slot ELSE e.slot]
            /\ blockSlots' = IF KindOf(e).resolve = "no" THEN blockSlots ELSE resolved.cache
        BY <2>7 DEF Dispatch, resolved
      <3>6. CallOK'
        BY <2>0, <3>1, <3>3, <3>4, <3>5 DEF CallOK, CallType, Busy, Idle
      <3>7. blockSlots' \in [Roots \cup {NoRoot} -> [slot : Nat, expiry : Int]]
        BY <3>4, <3>5 DEF TypeOK
      <3>. QED BY <2>7, <3>6, <3>7 DEF TypeOK, CallOK, Dispatch
    <2>8. ASSUME NEW c \in Callers, Reject(c) PROVE TypeOK'
      <3>1. CallOK' BY <2>0, <2>8, ReturnType DEF Reject
      <3>. QED BY <2>8, <3>1 DEF TypeOK, CallOK, Reject
    <2>9. ASSUME NEW c \in Callers, Duplicate(c) \/ Claim(c) PROVE TypeOK'
      <3>1. call[c].ev \in Events /\ Supported(call[c].ev) /\ call[c].pc = "dedup"
        BY <2>0, <2>9, BusyCall DEF Duplicate, Claim, CallType, CallOK
      <3>2. dup' \in [Keys -> Int]
        BY <2>9, <3>1, GetOrSetType DEF Duplicate, Claim, TypeOK
      <3>3. CallOK'
        BY <2>0, <2>9, <3>1, ReturnType, ClaimedType DEF Duplicate, Claim, TypeOK
      <3>. QED BY <2>9, <3>2, <3>3 DEF TypeOK, CallOK, Duplicate, Claim
    <2>10. ASSUME NEW c \in Callers, WallclockError(c) PROVE TypeOK'
      <3>1. CallOK' BY <2>0, <2>10, ReturnType DEF WallclockError
      <3>2. DupKey(call[c].ev) \in Keys
        BY <2>0, <2>10, BusyCall DEF WallclockError, CallType, CallOK, Keys, Handled
      <3>. QED BY <2>10, <3>1, <3>2 DEF TypeOK, CallOK, WallclockError
    <2>11. ASSUME NEW c \in Callers, Stale(c) PROVE TypeOK'
      <3>1. CallOK' BY <2>0, <2>11, ReturnType DEF Stale
      <3>. QED BY <2>11, <3>1 DEF TypeOK, CallOK, Stale
    <2>12. ASSUME NEW c \in Callers, Fresh(c) PROVE TypeOK'
      <3>1. CallOK' BY <2>0, <2>12, GotoType DEF Fresh, CallOK
      <3>. QED BY <2>12, <3>1 DEF TypeOK, CallOK, Fresh
    <2>13. ASSUME NEW c \in Callers, Export(c) PROVE TypeOK'
      <3>1. call[c] \in CallType /\ Supported(call[c].ev)
        BY <2>0, <2>13, BusyCall DEF Export, CallOK
      <3>2. /\ call[c].ev \in Handled /\ call[c].ev \in Events
            /\ call[c].ev.ts \in Nat /\ call[c].slot \in Nat
            /\ call[c].id \in Nat /\ call[c].clockDrift \in Int /\ call[c].meta \in Nat
            /\ call[c].claimed \in Int
        BY <3>1, ConstantsAssumption DEF CallType, Handled, EventType
      <3>3. /\ AdditionalData(call[c].ev, call[c].slot) \in DataType
            /\ NoAdditionalData \in DataType
        BY <3>2, AdditionalDataType DEF NoAdditionalData, DataType, Unset
      <3>4. call[c].ev.ts * NanosPerMilli + call[c].clockDrift \in Int
        BY <3>2, EventTypesAssumption
      <3>5. \A timed \in BOOLEAN : Decorate(c, timed) \in ExportType
        BY <3>2, <3>3, <3>4 DEF Decorate, ExportType
      <3>6. exported' \subseteq ExportType
        BY <2>13, <3>5 DEF Export, TypeOK
      <3>7. KindOf(call[c].ev).name \in Names
        BY <3>2 DEF Names
      <3>8. summary' \in [exported : Nat, stream : [Names -> Nat]]
        BY <2>13, <3>7 DEF Export, CountExport, TypeOK
      <3>9. CallOK' BY <2>0, <2>13, GotoType DEF Export, CallOK
      <3>. QED BY <2>13, <3>6, <3>8, <3>9 DEF TypeOK, CallOK, Export
    <2>14. ASSUME NEW c \in Callers, SinkFails(c) \/ SinkAccepts(c) PROVE TypeOK'
      <3>1. call[c] \in CallType
        BY <2>0, <2>14, BusyCall DEF SinkFails, SinkAccepts
      <3>2. CallOK'
        BY <2>0, <2>14, <3>1 DEF SinkFails, SinkAccepts, CallOK, CallType, Idle
      <3>3. accepted' \in [Sinks -> SUBSET Nat] /\ rejected' \in [Sinks -> SUBSET Nat]
        BY <2>14, <3>1 DEF SinkFails, SinkAccepts, TypeOK, CallType
      <3>. QED BY <2>14, <3>2, <3>3 DEF TypeOK, CallOK, SinkFails, SinkAccepts
    <2>15. ASSUME NEW c \in Callers, Finish(c) PROVE TypeOK'
      <3>1. CallOK' BY <2>0, <2>15, ReturnType DEF Finish
      <3>. QED BY <2>15, <3>1 DEF TypeOK, CallOK, Finish
    <2>. QED
      BY <2>1, <2>2, <2>3, <2>4, <2>5, <2>6, <2>7, <2>8, <2>9, <2>10, <2>11,
         <2>12, <2>13, <2>14, <2>15 DEF Next, Step
  <1>. QED BY <1>1, <1>2, PTL DEF Spec

-----------------------------------------------------------------------------
(***************************************************************************)
(* What every step of a call leaves alone: the clock, the drift, the other *)
(* calls, and, unless the call returns, the event it is about and what it  *)
(* read on entry.  It begins from a busy call.                             *)
(***************************************************************************)
LEMMA StepFrame ==
    ASSUME TypeOK, NEW c \in Callers, Step(c)
    PROVE  /\ call[c] \in CallType
           /\ UNCHANGED <<now, drift, nextId>>
           /\ \A d \in Callers \ {c} : call'[d] = call[d]
           /\ \/ call'[c] = Idle
              \/ /\ call'[c] \in CallType
                 /\ call'[c].ev = call[c].ev
                 /\ call'[c].id = call[c].id
                 /\ call'[c].clockDrift = call[c].clockDrift
                 /\ call'[c].meta = call[c].meta
  <1>1. call[c].pc # "idle"
    BY DEF Step, Unsupported, Dispatch, Reject, Duplicate, Claim, WallclockError,
           Stale, Fresh, Export, SinkFails, SinkAccepts, Finish
  <1>2. call[c] \in CallType
    BY <1>1, BusyCall DEF TypeOK, CallOK
  <1>3. UNCHANGED <<now, drift, nextId>>
    BY DEF Step, Unsupported, Dispatch, Reject, Duplicate, Claim, WallclockError,
           Stale, Fresh, Export, SinkFails, SinkAccepts, Finish
  <1>4. CASE Return(c)
    BY <1>2, <1>3, <1>4 DEF Return, TypeOK
  <1>5. CASE \E p \in Busy : Goto(c, p)
    BY <1>2, <1>3, <1>5 DEF Goto, TypeOK, CallType
  <1>6. CASE Dispatch(c)
    <2>1. call[c].ev.root \in Roots \cup {NoRoot} /\ call[c].ev.slot \in Nat
      BY <1>2, ConstantsAssumption DEF CallType, EventType
    <2>2. PICK n \in Nat : call' = [call EXCEPT ![c].pc = "dedup", ![c].slot = n]
      BY <1>6, <2>1, ResolveType DEF Dispatch, TypeOK
    <2>. QED BY <1>2, <1>3, <2>2 DEF TypeOK, CallType, Busy
  <1>7. CASE SinkFails(c) \/ SinkAccepts(c)
    BY <1>2, <1>3, <1>7 DEF SinkFails, SinkAccepts, TypeOK, CallType
  <1>8. CASE Claimed(c)
    BY <1>1, <1>2, <1>3, <1>8, ClaimedCall DEF TypeOK, CallOK
  <1>. QED
    BY <1>4, <1>5, <1>6, <1>7, <1>8
    DEF Step, Unsupported, Reject, Duplicate, Claim, WallclockError,
        Stale, Fresh, Export, Finish, Busy

-----------------------------------------------------------------------------
(* The metadata of a call was made from the drift the call read. *)
MetaCoherent ==
    \A c \in Callers : call[c].pc # "idle" =>
        call[c].meta = clockDriftMillis(call[c].clockDrift)

(***************************************************************************)
(* The corrected time of an exported event and the drift it reports come   *)
(* from one reading of the handler's drift (currentClockDrift at the top   *)
(* of HandleRawEvent), whatever the NTP job stores meanwhile.              *)
(***************************************************************************)
THEOREM DriftIsCoherent == Spec => []DriftCoherent
  <1>1. Init => MetaCoherent /\ DriftCoherent
    BY DEF Init, MetaCoherent, DriftCoherent, Idle
  <1>2. TypeOK /\ MetaCoherent /\ DriftCoherent /\ [Next]_vars
           => MetaCoherent' /\ DriftCoherent'
    <2>. SUFFICES ASSUME TypeOK, MetaCoherent, DriftCoherent, [Next]_vars
                  PROVE  MetaCoherent' /\ DriftCoherent'
      OBVIOUS
    <2>1. CASE UNCHANGED <<call, exported>>
      BY <2>1 DEF MetaCoherent, DriftCoherent
    <2>2. ASSUME NEW c \in Callers, NEW e \in Events, HandleRawEvent(c, e)
          PROVE  MetaCoherent' /\ DriftCoherent'
      BY <2>2 DEF HandleRawEvent, MetaCoherent, DriftCoherent, TypeOK
    <2>3. ASSUME NEW c \in Callers, Step(c)
          PROVE  MetaCoherent' /\ DriftCoherent'
      <3>1. MetaCoherent'
        BY <2>3, StepFrame DEF MetaCoherent, Idle, CallType, Busy
      <3>2. CASE UNCHANGED exported
        BY <3>1, <3>2 DEF DriftCoherent
      <3>3. CASE Export(c)
        <4>1. call[c] \in CallType /\ call[c].ev \in EventType
          BY <2>3, StepFrame, ConstantsAssumption DEF CallType
        <4>2. call[c].ev.ts * NanosPerMilli \in Int /\ call[c].clockDrift \in Int
          BY <4>1, EventTypesAssumption DEF CallType, EventType
        <4>3. call[c].meta = clockDriftMillis(call[c].clockDrift)
          BY <3>3 DEF Export, MetaCoherent
        <4>4. ASSUME NEW timed \in BOOLEAN
              PROVE  LET x == Decorate(c, timed)
                     IN  x.clockDrift = clockDriftMillis(x.dateTime - x.ev.ts * NanosPerMilli)
          <5>1. \A a, b \in Int : (a + b) - a = b
            OBVIOUS
          <5>2. LET x == Decorate(c, timed)
                IN  /\ x.dateTime - x.ev.ts * NanosPerMilli = call[c].clockDrift
                    /\ x.clockDrift = call[c].meta
            BY <4>2, <5>1, Zenon DEF Decorate
          <5>. QED BY <4>3, <5>2, Zenon
        <4>. QED BY <3>1, <3>3, <4>4 DEF Export, DriftCoherent
      <3>. QED
        BY <2>3, <3>1, <3>2, <3>3
        DEF Step, Unsupported, Dispatch, Reject, Duplicate, Claim, WallclockError,
            Stale, Fresh, SinkFails, SinkAccepts, Finish
    <2>. QED
      BY <2>1, <2>2, <2>3 DEF Next, Tick, syncClockDrift, PrintSummary, vars
  <1>. QED BY <1>1, <1>2, TypeCorrect, PTL DEF Spec

-----------------------------------------------------------------------------
(* A call that reached the sinks is on its way from the first of them. *)
SinkPosition ==
    \A c \in Callers :
        /\ call[c].pc # "idle" => call[c].sink >= 1
        /\ call[c].pc \notin {"idle", "sinks"} => call[c].sink = 1

(***************************************************************************)
(* Every exported event is offered to every sink, whatever the other sinks *)
(* answered (the loop of handleNewDecoratedEvent).                         *)
(***************************************************************************)
THEOREM SinksAreIsolated == Spec => []SinkIsolation
  <1>1. Init => SinkPosition /\ SinkIsolation
    BY DEF Init, SinkPosition, SinkIsolation, Idle
  <1>2. TypeOK /\ SinkPosition /\ SinkIsolation /\ [Next]_vars
           => SinkPosition' /\ SinkIsolation'
    <2>. SUFFICES ASSUME TypeOK, SinkPosition, SinkIsolation, [Next]_vars
                  PROVE  SinkPosition' /\ SinkIsolation'
      OBVIOUS
    <2>1. CASE UNCHANGED <<call, exported, accepted, rejected>>
      BY <2>1 DEF SinkPosition, SinkIsolation
    <2>2. ASSUME NEW c \in Callers, NEW e \in Events, HandleRawEvent(c, e)
          PROVE  SinkPosition' /\ SinkIsolation'
      <3>1. SinkPosition'
        BY <2>2 DEF HandleRawEvent, SinkPosition, TypeOK
      <3>2. SinkIsolation'
        BY <2>2 DEF HandleRawEvent, SinkIsolation, TypeOK
      <3>. QED BY <3>1, <3>2
    <2>3. ASSUME NEW c \in Callers, Step(c)
          PROVE  SinkPosition' /\ SinkIsolation'
      <3>0. call[c] \in CallType /\ call \in [Callers -> CallType \cup {Idle}]
        BY <2>3, StepFrame DEF TypeOK
      <3>1. CASE Return(c) /\ call[c].pc # "sinks" /\ UNCHANGED <<exported, accepted, rejected>>
        <4>1. SinkPosition'
          BY <3>0, <3>1 DEF Return, Idle, SinkPosition
        <4>2. SinkIsolation'
          BY <3>0, <3>1 DEF Return, Idle, SinkIsolation
        <4>. QED BY <4>1, <4>2
      <3>2. CASE /\ call[c].pc # "sinks" /\ UNCHANGED <<exported, accepted, rejected>>
                 /\ Dispatch(c) \/ Claimed(c) \/ Goto(c, "export")
        <4>1. /\ \A d \in Callers \ {c} : call'[d] = call[d]
              /\ call'[c].sink = call[c].sink
              /\ call'[c].pc \in Busy
          BY <3>0, <3>2 DEF Dispatch, Claimed, Goto, CallType, Busy
        <4>2. SinkPosition'
          BY <3>0, <3>2, <4>1 DEF SinkPosition, CallType, Busy
        <4>3. SinkIsolation'
          BY <3>2, <4>1 DEF SinkIsolation
        <4>. QED BY <4>2, <4>3
      <3>3. CASE Export(c)
        <4>1. /\ call[c].pc = "export" /\ call[c].sink = 1
              /\ \A d \in Callers \ {c} : call'[d] = call[d]
              /\ call'[c].sink = 1 /\ call'[c].pc = "sinks" /\ call'[c].id = call[c].id
          BY <3>0, <3>3 DEF Export, Goto, SinkPosition, CallType
        <4>2. PICK x : x.id = call[c].id /\ exported' = exported \cup {x}
          BY <3>3 DEF Export, Decorate
        <4>3. SinkPosition' BY <4>1 DEF SinkPosition
        <4>4. \A s \in Sinks : 1 <= s BY DEF Sinks
        <4>5. UNCHANGED <<accepted, rejected>> BY <3>3 DEF Export
        <4>6. SinkIsolation'
          BY <4>1, <4>2, <4>4, <4>5 DEF SinkIsolation
        <4>. QED BY <4>3, <4>6
      <3>4. CASE SinkFails(c) \/ SinkAccepts(c)
        <4>1. /\ call[c].pc = "sinks" /\ call[c].sink \in Sinks /\ call[c].sink \in Nat
              /\ \A d \in Callers \ {c} : call'[d] = call[d]
              /\ call'[c].sink = call[c].sink + 1
              /\ call'[c].pc = "sinks" /\ call'[c].id = call[c].id
          BY <3>0, <3>4 DEF SinkFails, SinkAccepts, CallType
        <4>2. SinkPosition' BY <4>1 DEF SinkPosition
        <4>3. /\ UNCHANGED exported
              /\ \A s \in Sinks : accepted[s] \cup rejected[s]
                                     \subseteq accepted'[s] \cup rejected'[s]
              /\ call[c].id \in accepted'[call[c].sink] \cup rejected'[call[c].sink]
          BY <3>4 DEF SinkFails, SinkAccepts, TypeOK
        <4>4. SUFFICES ASSUME NEW x \in exported, NEW s \in Sinks
                       PROVE  \/ x.id \in accepted'[s] \cup rejected'[s]
                              \/ \E d \in Callers : /\ call'[d].pc = "sinks"
                                                    /\ call'[d].id = x.id
                                                    /\ call'[d].sink <= s
          BY <4>2, <4>3 DEF SinkIsolation
        <4>5. CASE x.id \in accepted[s] \cup rejected[s]
          BY <4>3, <4>5
        <4>6. CASE \E d \in Callers : /\ call[d].pc = "sinks"
                                      /\ call[d].id = x.id
                                      /\ call[d].sink <= s
          <5>1. PICK d \in Callers : /\ call[d].pc = "sinks"
                                     /\ call[d].id = x.id
                                     /\ call[d].sink <= s
            BY <4>6
          <5>2. CASE d # c
            BY <4>1, <5>1, <5>2
          <5>3. CASE d = c /\ call[c].sink = s
            BY <4>3, <5>1, <5>3
          <5>4. CASE d = c /\ call[c].sink # s
            <6>1. call[c].sink + 1 <= s
              BY <4>1, <5>1, <5>4 DEF Sinks
            <6>. QED BY <4>1, <5>1, <5>4, <6>1
          <5>. QED BY <5>2, <5>3, <5>4
        <4>. QED BY <4>5, <4>6 DEF SinkIsolation
      <3>5. CASE Finish(c)
        <4>1. SinkPosition'
          BY <3>0, <3>5 DEF Finish, Return, Idle, SinkPosition
        <4>2. \A s \in Sinks : ~ (call[c].sink <= s)
          BY <3>0, <3>5, ConstantsAssumption DEF Finish, SinkPosition, Sinks, CallType
        <4>3. SinkIsolation'
          BY <3>0, <3>5, <4>2 DEF Finish, Return, Idle, SinkIsolation
        <4>. QED BY <4>1, <4>3
      <3>. QED
        BY <2>3, <3>1, <3>2, <3>3, <3>4, <3>5
        DEF Step, Unsupported, Dispatch, Reject, Duplicate, Claim, WallclockError,
            Stale, Fresh
    <2>. QED
      BY <2>1, <2>2, <2>3 DEF Next, Tick, syncClockDrift, PrintSummary, vars
  <1>. QED BY <1>1, <1>2, TypeCorrect, PTL DEF Spec

-----------------------------------------------------------------------------
(***************************************************************************)
(* What the proofs use of the table of event types: the types that take    *)
(* their slot from the block slot cache are exactly those whose cutoff may *)
(* meet an unknown slot and whose cache is short lived, and one type only  *)
(* is keyed by column.                                                     *)
(***************************************************************************)
LEMMA KindFacts ==
    \A t \in DOMAIN Kind :
        /\ Kind[t].resolve = "use" => Kind[t].cutoff = "known" /\ Kind[t].ttl = "partial"
        /\ Kind[t].ttl = "partial" => Kind[t].resolve = "use"
        /\ Kind[t].key = "column" => Kind[t] = DataColumnCompleted
  <1>. DEFINE Facts(k) ==
                  /\ k.resolve = "use" => k.cutoff = "known" /\ k.ttl = "partial"
                  /\ k.ttl = "partial" => k.resolve = "use"
                  /\ k.key = "column" => k = DataColumnCompleted
  <1>1. DOMAIN Kind = {"BEACON_BLOCK", "ATTESTATION",
                       "AGGREGATE_AND_PROOF", "BLOB_SIDECAR",
                       "DATA_COLUMN_SIDECAR", "DATA_COLUMN_SIDECAR_GLOAS",
                       "EXECUTION_PAYLOAD_ENVELOPE", "EXECUTION_PAYLOAD_BID",
                       "PAYLOAD_ATTESTATION_MESSAGE", "PROPOSER_PREFERENCES",
                       "PARTIAL_DATA_COLUMN", "DATA_COLUMN_COMPLETED",
                       "PARTIAL_DATA_COLUMN_OUTCOME"}
    BY DEF Kind
  <1>2. /\ Kind["BEACON_BLOCK"] = BeaconBlock
        /\ Kind["ATTESTATION"] = Attestation
        /\ Kind["AGGREGATE_AND_PROOF"] = AggregateAndProof
        /\ Kind["BLOB_SIDECAR"] = BlobSidecar
        /\ Kind["DATA_COLUMN_SIDECAR"] = DataColumnSidecar
        /\ Kind["DATA_COLUMN_SIDECAR_GLOAS"] = DataColumnSidecarGloas
        /\ Kind["EXECUTION_PAYLOAD_ENVELOPE"] = ExecutionPayloadEnvelope
        /\ Kind["EXECUTION_PAYLOAD_BID"] = ExecutionPayloadBid
        /\ Kind["PAYLOAD_ATTESTATION_MESSAGE"] = PayloadAttestationMessage
        /\ Kind["PROPOSER_PREFERENCES"] = ProposerPreferences
        /\ Kind["PARTIAL_DATA_COLUMN"] = PartialDataColumn
        /\ Kind["DATA_COLUMN_COMPLETED"] = DataColumnCompleted
        /\ Kind["PARTIAL_DATA_COLUMN_OUTCOME"] = PartialDataColumnOutcome
    BY DEF Kind
  <1>3. /\ Facts(BeaconBlock)
        /\ Facts(Attestation)
        /\ Facts(AggregateAndProof)
        /\ Facts(BlobSidecar)
        /\ Facts(DataColumnSidecar)
        /\ Facts(DataColumnSidecarGloas)
        /\ Facts(ExecutionPayloadEnvelope)
        /\ Facts(ExecutionPayloadBid)
        /\ Facts(PayloadAttestationMessage)
        /\ Facts(ProposerPreferences)
        /\ Facts(PartialDataColumn)
        /\ Facts(DataColumnCompleted)
        /\ Facts(PartialDataColumnOutcome)
    BY DEF BeaconBlock, Attestation, AggregateAndProof, BlobSidecar,
           DataColumnSidecar, DataColumnSidecarGloas, ExecutionPayloadEnvelope, ExecutionPayloadBid,
           PayloadAttestationMessage, ProposerPreferences, PartialDataColumn, DataColumnCompleted,
           PartialDataColumnOutcome
  <1>. HIDE DEF Facts
  <1>4. \A t \in DOMAIN Kind : Facts(Kind[t])
    BY <1>1, <1>2, <1>3
  <1>. QED BY <1>4 DEF Facts

\* An event that does not take its slot from the cache names its real slot.
LEMMA OwnSlot ==
    ASSUME NEW e \in Handled, KindOf(e).resolve # "use" \/ e.slot # 0
    PROVE  e.slot = RealSlot(e)
  BY ClientAssumption DEF RealSlot

(* The block slot cache holds true slots only, none for the empty root, and *)
(* no entry that outlives a Set made now.                                   *)
SlotsTrue ==
    /\ blockSlots[NoRoot].expiry = Absent
    /\ \A r \in Roots :
          /\ blockSlots[r].expiry # Absent => blockSlots[r].slot = BlockSlot[r]
          /\ blockSlots[r].expiry <= now + BlockSlotTTL

(* A call past its dispatch knows its real slot, or nothing. *)
CallSlot ==
    \A c \in Callers : call[c].pc \in {"dedup", "age", "export", "sinks"} =>
        \/ call[c].slot = RealSlot(call[c].ev)
        \/ call[c].slot = 0 /\ KindOf(call[c].ev).resolve = "use"

\* What Resolve does to a cache of true slots, for a supported event: the cache
\* stays true, no live entry is lost, and the slot returned is the real one or 0.
LEMMA ResolveTrue ==
    ASSUME TypeOK, SlotsTrue, NEW e \in Handled
    PROVE  LET R == Resolve(blockSlots, e.root, e.slot, now)
           IN  /\ R.cache[NoRoot].expiry = Absent
               /\ \A r \in Roots :
                     /\ R.cache[r].expiry # Absent => R.cache[r].slot = BlockSlot[r]
                     /\ R.cache[r].expiry <= now + BlockSlotTTL
                     /\ blockSlots[r].expiry # Absent => R.cache[r].slot = blockSlots[r].slot
                     /\ R.cache[r].expiry >= blockSlots[r].expiry
               /\ R.slot \in {RealSlot(e), 0}
  <1>1. /\ e.root \in Roots \cup {NoRoot} /\ e.slot \in Nat /\ NoRoot \notin Roots
        /\ BlockSlot \in [Roots -> Nat] /\ BlockSlotTTL \in Nat \ {0}
    BY ConstantsAssumption, TTLAssumption DEF Handled, EventType
  <1>2. now \in Nat /\ blockSlots \in [Roots \cup {NoRoot} -> [slot : Nat, expiry : Int]]
    BY DEF TypeOK
  <1>3. CASE e.root = NoRoot
    BY <1>1, <1>2, <1>3 DEF Resolve, SlotsTrue, RealSlot
  <1>4. CASE e.root # NoRoot /\ e.slot # 0
    <2>1. e.slot = BlockSlot[e.root] BY <1>4, OwnSlot DEF RealSlot
    <2>. QED BY <1>1, <1>2, <1>4, <2>1 DEF Resolve, SetSlot, SlotsTrue, RealSlot, Absent
  <1>5. CASE e.root # NoRoot /\ e.slot = 0
    <2>1. GetSlot(blockSlots, e.root, now) \in {BlockSlot[e.root], 0}
      BY <1>1, <1>2, <1>5 DEF GetSlot, Live, SlotsTrue, Absent
    <2>. QED BY <1>1, <1>2, <1>5, <2>1 DEF Resolve, SlotsTrue, RealSlot
  <1>. QED BY <1>3, <1>4, <1>5

\* The three facts about slots, for the invariants and for the action property.
LEMMA SlotsInductive ==
    ASSUME TypeOK, SlotsTrue, CallSlot, SlotAttribution, [Next]_vars
    PROVE  /\ SlotsTrue' /\ CallSlot' /\ SlotAttribution'
           /\ \A r \in Roots : Live(blockSlots[r].expiry, now) =>
                 /\ blockSlots'[r].slot = blockSlots[r].slot
                 /\ blockSlots'[r].expiry >= blockSlots[r].expiry
  <1>. DEFINE Kept == \A r \in Roots : Live(blockSlots[r].expiry, now) =>
                         /\ blockSlots'[r].slot = blockSlots[r].slot
                         /\ blockSlots'[r].expiry >= blockSlots[r].expiry
  <1>0. /\ blockSlots \in [Roots \cup {NoRoot} -> [slot : Nat, expiry : Int]]
        /\ now \in Nat /\ BlockSlotTTL \in Nat
    BY TTLAssumption DEF TypeOK
  <1>1. CASE UNCHANGED <<call, exported, blockSlots, now>>
    <2>1. Kept BY <1>0, <1>1
    <2>. QED BY <1>1, <2>1 DEF SlotsTrue, CallSlot, SlotAttribution
  <1>2. CASE Tick
    <2>1. Kept BY <1>0, <1>2 DEF Tick
    <2>2. SlotsTrue' BY <1>0, <1>2 DEF Tick, SlotsTrue
    <2>. QED BY <1>2, <2>1, <2>2 DEF Tick, CallSlot, SlotAttribution
  <1>3. ASSUME NEW c \in Callers, NEW e \in Events, HandleRawEvent(c, e)
        PROVE  SlotsTrue' /\ CallSlot' /\ SlotAttribution' /\ Kept
    <2>1. Kept BY <1>0, <1>3 DEF HandleRawEvent
    <2>2. CallSlot' BY <1>3 DEF HandleRawEvent, CallSlot, TypeOK
    <2>. QED BY <1>3, <2>1, <2>2 DEF HandleRawEvent, SlotsTrue, SlotAttribution
  <1>4. ASSUME NEW c \in Callers, Dispatch(c)
        PROVE  SlotsTrue' /\ CallSlot' /\ SlotAttribution' /\ Kept
    <2>1. call[c] \in CallType /\ call \in [Callers -> CallType \cup {Idle}]
      BY <1>4, StepFrame DEF TypeOK, Step
    <2>. DEFINE e == call[c].ev
                R == Resolve(blockSlots, e.root, e.slot, now)
    <2>2. e \in Handled
      BY <1>4, <2>1 DEF Dispatch, Handled, CallType
    <2>3. /\ R.cache[NoRoot].expiry = Absent
          /\ \A r \in Roots :
                /\ R.cache[r].expiry # Absent => R.cache[r].slot = BlockSlot[r]
                /\ R.cache[r].expiry <= now + BlockSlotTTL
                /\ blockSlots[r].expiry # Absent => R.cache[r].slot = blockSlots[r].slot
                /\ R.cache[r].expiry >= blockSlots[r].expiry
          /\ R.slot \in {RealSlot(e), 0}
      BY <2>2, ResolveTrue
    <2>. HIDE DEF R
    <2>4. /\ call' = [call EXCEPT ![c].pc = "dedup",
                         ![c].slot = IF KindOf(e).resolve = "use" THEN R.slot ELSE e.slot]
          /\ blockSlots' = IF KindOf(e).resolve = "no" THEN blockSlots ELSE R.cache
          /\ UNCHANGED <<now, exported>>
      BY <1>4 DEF Dispatch, R
    <2>5. SlotsTrue'
      BY <2>3, <2>4 DEF SlotsTrue
    <2>6. Kept
      BY <1>0, <2>3, <2>4 DEF Live, Absent
    <2>7. CallSlot'
      <3>1. /\ \A d \in Callers \ {c} : call'[d] = call[d]
            /\ call'[c].ev = e
            /\ call'[c].slot = IF KindOf(e).resolve = "use" THEN R.slot ELSE e.slot
        BY <2>1, <2>4 DEF CallType
      <3>2. call'[c].slot = RealSlot(e) \/ (call'[c].slot = 0 /\ KindOf(e).resolve = "use")
        BY <2>2, <2>3, <3>1, OwnSlot
      <3>. QED BY <3>1, <3>2 DEF CallSlot
    <2>. QED BY <2>4, <2>5, <2>6, <2>7 DEF SlotAttribution
  <1>5. ASSUME NEW c \in Callers, Step(c), ~Dispatch(c)
        PROVE  SlotsTrue' /\ CallSlot' /\ SlotAttribution' /\ Kept
    <2>1. /\ call[c] \in CallType /\ call \in [Callers -> CallType \cup {Idle}]
          /\ \A d \in Callers \ {c} : call'[d] = call[d]
          /\ UNCHANGED now
      BY <1>5, StepFrame DEF TypeOK
    <2>2. UNCHANGED blockSlots
      BY <1>5 DEF Step, Unsupported, Reject, Duplicate, Claim, WallclockError,
                  Stale, Fresh, Export, SinkFails, SinkAccepts, Finish
    <2>3. SlotsTrue' /\ Kept
      BY <1>0, <2>1, <2>2 DEF SlotsTrue
    <2>4. \/ call'[c] = Idle
          \/ /\ call[c].pc \in {"dedup", "age", "export", "sinks"}
             /\ call'[c].ev = call[c].ev /\ call'[c].slot = call[c].slot
      BY <1>5, <2>1
      DEF Step, Unsupported, Reject, Duplicate, Claim, WallclockError, Stale, Fresh,
          Export, SinkFails, SinkAccepts, Finish, Goto, Claimed, Return, CallType
    <2>5. CallSlot'
      BY <2>1, <2>4 DEF CallSlot, Idle
    <2>6. CASE UNCHANGED exported
      BY <2>3, <2>5, <2>6 DEF SlotAttribution
    <2>7. CASE Export(c)
      <3>. DEFINE e == call[c].ev
      <3>1. e \in Handled /\ call[c].slot \in Nat
        BY <2>1, <2>7 DEF Export, TypeOK, Handled, CallType
      <3>2. \/ call[c].slot = RealSlot(e)
            \/ call[c].slot = 0 /\ KindOf(e).resolve = "use"
        BY <2>7 DEF Export, CallSlot
      <3>3. KindOf(e).resolve = "use" => KindOf(e).cutoff = "known"
        BY <3>1, KindFacts DEF KindOf, Handled, Supported
      <3>4. AdditionalData(e, call[c].slot).slot \in {RealSlot(e), Unset}
        BY <3>2, <3>3 DEF AdditionalData, ReadsClock
      <3>5. \A timed \in BOOLEAN :
               Decorate(c, timed).data.slot \in {RealSlot(Decorate(c, timed).ev), Unset}
        BY <3>4 DEF Decorate, NoAdditionalData
      <3>. QED BY <2>3, <2>5, <2>7, <3>5 DEF Export, SlotAttribution
    <2>. QED
      BY <1>5, <2>6, <2>7
      DEF Step, Unsupported, Reject, Duplicate, Claim, WallclockError, Stale, Fresh,
          SinkFails, SinkAccepts, Finish
  <1>. QED
    BY <1>1, <1>2, <1>3, <1>4, <1>5 DEF Next, syncClockDrift, PrintSummary, vars

\* The three invariants about slots hold together.
LEMMA SlotsInvariant == Spec => [](SlotsTrue /\ CallSlot /\ SlotAttribution)
  <1>1. Init => SlotsTrue /\ CallSlot /\ SlotAttribution
    BY TTLAssumption DEF Init, SlotsTrue, CallSlot, SlotAttribution, Absent, Idle
  <1>2. TypeOK /\ SlotsTrue /\ CallSlot /\ SlotAttribution /\ [Next]_vars
           => SlotsTrue' /\ CallSlot' /\ SlotAttribution'
    BY SlotsInductive
  <1>. QED BY <1>1, <1>2, TypeCorrect, PTL DEF Spec

(***************************************************************************)
(* An exported event is placed in the slot of its own block or in none     *)
(* (BlockSlotCache.Resolve, newBlockTiming, getAdditionalData).            *)
(***************************************************************************)
THEOREM SlotsAreTrue == Spec => []SlotAttribution
  BY SlotsInvariant, PTL

(***************************************************************************)
(* No step forgets, changes or shortens what the block slot cache knows of *)
(* a live block root (BlockSlotCache.Resolve).                             *)
(***************************************************************************)
THEOREM MappingsAreStable == Spec => MappingStable
  <1>1. TypeOK /\ SlotsTrue /\ CallSlot /\ SlotAttribution /\ [Next]_vars
           => [\A r \in Roots : Live(blockSlots[r].expiry, now) =>
                  /\ blockSlots'[r].slot = blockSlots[r].slot
                  /\ blockSlots'[r].expiry >= blockSlots[r].expiry]_vars
    BY SlotsInductive
  <1>. QED BY <1>1, TypeCorrect, SlotsInvariant, PTL DEF Spec, MappingStable

=============================================================================

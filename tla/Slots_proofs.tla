-------------------------- MODULE Slots_proofs --------------------------
(***************************************************************************)
(* Parts learn their slot: what an exported event told of its block is     *)
(* still in the block slot cache when a part of that block is dispatched.  *)
(***************************************************************************)
EXTENDS Dedup_proofs

\* The types that tell a slot call Resolve, and the age cutoff applies to them.
LEMMA TeachersResolve ==
    ASSUME NEW e \in Handled, Teaches(e)
    PROVE  /\ KindOf(e).resolve # "no" /\ KindOf(e).cutoff # "none"
           /\ e.root \in Roots /\ e.slot = RealSlot(e)
  <1>1. /\ BeaconBlock.resolve # "no" /\ BeaconBlock.cutoff # "none"
        /\ DataColumnSidecar.resolve # "no" /\ DataColumnSidecar.cutoff # "none"
        /\ DataColumnSidecarGloas.resolve # "no" /\ DataColumnSidecarGloas.cutoff # "none"
        /\ DataColumnCompleted.resolve # "no" /\ DataColumnCompleted.cutoff # "none"
        /\ PartialDataColumn.resolve # "no" /\ PartialDataColumn.cutoff # "none"
        /\ PartialDataColumnOutcome.resolve # "no"
        /\ PartialDataColumnOutcome.cutoff # "none"
    BY DEF BeaconBlock, DataColumnSidecar, DataColumnSidecarGloas, DataColumnCompleted,
           PartialDataColumn, PartialDataColumnOutcome
  <1>2. /\ Kind["BEACON_BLOCK"] = BeaconBlock
        /\ Kind["DATA_COLUMN_SIDECAR"] = DataColumnSidecar
        /\ Kind["DATA_COLUMN_SIDECAR_GLOAS"] = DataColumnSidecarGloas
        /\ Kind["DATA_COLUMN_COMPLETED"] = DataColumnCompleted
        /\ Kind["PARTIAL_DATA_COLUMN"] = PartialDataColumn
        /\ Kind["PARTIAL_DATA_COLUMN_OUTCOME"] = PartialDataColumnOutcome
    BY DEF Kind
  <1>3. KindOf(e).resolve # "no" /\ KindOf(e).cutoff # "none"
    BY <1>1, <1>2 DEF KindOf, Teaches
  <1>4. e.root \in Roots
    BY ConstantsAssumption DEF Teaches, Handled, EventType
  <1>. QED BY <1>3, <1>4, OwnSlot DEF Teaches

(* The cache holds the slot of e's block for BlockSlotTTL from the earliest *)
(* moment at which e can have arrived.                                      *)
Remembered(e) ==
    Teaches(e) =>
        blockSlots[e.root].expiry + Lead * TicksPerSlot >= SlotStart(e.slot) + BlockSlotTTL

(* What exports and running calls told is remembered. *)
Learned ==
    /\ \A x \in exported : Remembered(x.ev)
    /\ \A c \in Callers :
          call[c].pc \in {"dedup", "age", "export", "sinks"} => Remembered(call[c].ev)

\* An event that arrived in time gets an entry that lasts as long as it should.
LEMMA TimelyEntry ==
    ASSUME NEW n \in Nat, NEW t \in Nat, n <= SlotAt(t) + Lead
    PROVE  t + BlockSlotTTL + Lead * TicksPerSlot >= SlotStart(n) + BlockSlotTTL
  <1>. DEFINE S == SlotAt(t)
              T == TicksPerSlot
  <1>1. T \in Nat \ {0} /\ Lead \in Nat /\ BlockSlotTTL \in Nat
    BY ChainAssumption, ConstantsAssumption, TTLAssumption
  <1>2. S \in Nat /\ T * S <= t
    BY <1>1, SlotAtType, DivMod DEF SlotAt
  <1>. HIDE DEF S, T
  <1>3. n * T <= (S + Lead) * T
    <2>1. n <= S + Lead BY DEF S
    <2>. QED BY <1>1, <1>2, <2>1
  <1>4. (S + Lead) * T = T * S + Lead * T
    BY <1>1, <1>2
  <1>5. n * T \in Nat /\ T * S \in Nat /\ Lead * T \in Nat
    BY <1>1, <1>2
  <1>6. n * T <= t + Lead * T
    BY <1>2, <1>3, <1>4, <1>5
  <1>7. SlotStart(n) = n * T BY DEF SlotStart, T
  <1>. QED BY <1>1, <1>5, <1>6, <1>7 DEF T

\* Resolve gives an event that tells its slot such an entry.
LEMMA ResolveRemembers ==
    ASSUME TypeOK, NEW e \in Handled, Teaches(e), RealSlot(e) <= SlotAt(now) + Lead
    PROVE  LET R == Resolve(blockSlots, e.root, e.slot, now)
           IN  R.cache[e.root].expiry + Lead * TicksPerSlot
                  >= SlotStart(e.slot) + BlockSlotTTL
  <1>1. e.root \in Roots /\ e.slot = RealSlot(e) BY TeachersResolve
  <1>2. now \in Nat /\ blockSlots \in [Roots \cup {NoRoot} -> [slot : Nat, expiry : Int]]
    BY DEF TypeOK
  <1>3. Resolve(blockSlots, e.root, e.slot, now).cache[e.root].expiry = now + BlockSlotTTL
    BY <1>1, <1>2 DEF Resolve, SetSlot, Teaches
  <1>4. now + BlockSlotTTL + Lead * TicksPerSlot >= SlotStart(e.slot) + BlockSlotTTL
    BY <1>1, <1>2, RealSlotType, TimelyEntry
  <1>. QED BY <1>3, <1>4

\* A step that shortens no entry forgets nothing.
LEMMA StillRemembered ==
    ASSUME TypeOK, TypeOK', NEW e \in Handled, Remembered(e),
           \A r \in Roots : blockSlots'[r].expiry >= blockSlots[r].expiry
    PROVE  Remembered(e)'
  <1>1. CASE Teaches(e)
    <2>1. e.root \in Roots /\ e.slot \in Nat
      BY <1>1, TeachersResolve, RealSlotType
    <2>2. /\ blockSlots[e.root].expiry \in Int /\ blockSlots'[e.root].expiry \in Int
      BY <2>1 DEF TypeOK
    <2>3. TicksPerSlot \in Nat /\ Lead \in Nat /\ BlockSlotTTL \in Nat
      BY ChainAssumption, ConstantsAssumption, TTLAssumption
    <2>4. Lead * TicksPerSlot \in Nat /\ SlotStart(e.slot) \in Nat
      BY <2>1, <2>3 DEF SlotStart
    <2>. QED BY <1>1, <2>1, <2>2, <2>3, <2>4 DEF Remembered
  <1>2. CASE ~Teaches(e)
    BY <1>2 DEF Remembered
  <1>. QED BY <1>1, <1>2

\* Every step keeps Learned.
LEMMA LearnedInductive ==
    ASSUME TypeOK, TypeOK', SlotsTrue, CallSlot, SlotAttribution, Arrived, Learned,
           [Next]_vars
    PROVE  Learned'
  <1>0. /\ \A r \in Roots : blockSlots[r].expiry \in Int
        /\ \A x \in exported : x.ev \in Handled
        /\ \A c \in Callers : call[c].pc \in {"dedup", "age", "export", "sinks"}
              => call[c].ev \in Handled
    BY HandledEvents DEF TypeOK, ExportType
  <1>1. CASE UNCHANGED <<call, exported, blockSlots>>
    BY <1>1 DEF Learned, Remembered
  <1>2. ASSUME NEW c \in Callers, NEW e \in Events, HandleRawEvent(c, e) PROVE Learned'
    <2>1. /\ call'[c].pc = "dispatch" /\ UNCHANGED <<exported, blockSlots>>
          /\ \A d \in Callers \ {c} : call'[d] = call[d]
      BY <1>2 DEF HandleRawEvent, TypeOK
    <2>. QED BY <2>1 DEF Learned, Remembered
  <1>3. ASSUME NEW c \in Callers, Dispatch(c) PROVE Learned'
    <2>1. /\ call[c] \in CallType /\ call \in [Callers -> CallType \cup {Idle}]
          /\ \A d \in Callers \ {c} : call'[d] = call[d]
      BY <1>3, StepFrame DEF TypeOK, Step
    <2>. DEFINE e == call[c].ev
                R == Resolve(blockSlots, e.root, e.slot, now)
    <2>2. e \in Handled
      BY <1>3, <2>1 DEF Dispatch, Handled, CallType
    <2>3. \A r \in Roots : R.cache[r].expiry >= blockSlots[r].expiry
      BY <2>2, ResolveTrue
    <2>4. Teaches(e) => /\ KindOf(e).resolve # "no"
                        /\ R.cache[e.root].expiry + Lead * TicksPerSlot
                              >= SlotStart(e.slot) + BlockSlotTTL
      <3>1. Teaches(e) => RealSlot(e) <= SlotAt(now) + Lead
        BY <1>3, <2>2, TeachersResolve DEF Arrived, Dispatch
      <3>. QED BY <2>2, <3>1, TeachersResolve, ResolveRemembers
    <2>. HIDE DEF R
    <2>5. /\ call'[c].ev = e /\ UNCHANGED exported
          /\ blockSlots' = IF KindOf(e).resolve = "no" THEN blockSlots ELSE R.cache
      BY <1>3, <2>1 DEF Dispatch, R, CallType
    <2>6. \A r \in Roots : blockSlots'[r].expiry >= blockSlots[r].expiry
      BY <1>0, <2>3, <2>5
    <2>7. \A g \in Handled : Remembered(g) => Remembered(g)'
      BY <2>6, StillRemembered
    <2>8. \A x \in exported' : Remembered(x.ev)'
      BY <1>0, <2>5, <2>7 DEF Learned
    <2>9. ASSUME NEW d \in Callers, NEW g \in Handled, g = call[d].ev,
                 call'[d].pc \in {"dedup", "age", "export", "sinks"}
          PROVE  Remembered(g)'
      <3>1. CASE d = c
        BY <2>4, <2>5, <2>9, <3>1 DEF Remembered
      <3>2. CASE d # c
        BY <2>1, <2>7, <2>9, <3>2 DEF Learned
      <3>. QED BY <3>1, <3>2
    <2>10. \A d \in Callers : /\ call'[d].ev = call[d].ev
                              /\ call'[d].pc \in {"dedup", "age", "export", "sinks"}
                                    => call[d].ev \in Handled
      BY <1>0, <2>1, <2>2, <2>5
    <2>11. ASSUME NEW d \in Callers, call'[d].pc \in {"dedup", "age", "export", "sinks"}
           PROVE  Remembered(call[d].ev)'
      <3>1. PICK g \in Handled : g = call[d].ev BY <2>10, <2>11
      <3>2. Remembered(g)' BY <2>9, <2>11, <3>1
      <3>3. g = call'[d].ev BY <2>10, <3>1
      <3>. QED BY <3>2, <3>3 DEF Remembered
    <2>. QED BY <2>8, <2>11 DEF Learned, Remembered
  <1>4. ASSUME NEW c \in Callers, Step(c), ~Dispatch(c) PROVE Learned'
    <2>1. /\ call[c] \in CallType /\ call \in [Callers -> CallType \cup {Idle}]
          /\ \A d \in Callers \ {c} : call'[d] = call[d]
      BY <1>4, StepFrame DEF TypeOK
    <2>2. UNCHANGED blockSlots
      BY <1>4 DEF Step, Unsupported, Reject, Duplicate, Claim, WallclockError,
                  Stale, Fresh, Export, SinkFails, SinkAccepts, Finish
    <2>3. \/ call'[c] = Idle
          \/ /\ call[c].pc \in {"dedup", "age", "export", "sinks"}
             /\ call'[c].ev = call[c].ev
      BY <1>4, <2>1
      DEF Step, Unsupported, Reject, Duplicate, Claim, WallclockError, Stale, Fresh,
          Export, SinkFails, SinkAccepts, Finish, Goto, Claimed, Return, CallType
    <2>4. ASSUME NEW x \in exported'
          PROVE  \/ x \in exported
                 \/ x.ev = call[c].ev /\ call[c].pc = "export"
      BY <1>4
      DEF Step, Unsupported, Reject, Duplicate, Claim, WallclockError, Stale, Fresh,
          Export, SinkFails, SinkAccepts, Finish, Decorate
    <2>5. \A x \in exported' : Remembered(x.ev)
      BY <2>4 DEF Learned
    <2>6. \A d \in Callers : call'[d].pc \in {"dedup", "age", "export", "sinks"}
             => Remembered(call'[d].ev)
      BY <2>1, <2>3 DEF Learned, Idle
    <2>. QED BY <2>2, <2>5, <2>6 DEF Learned, Remembered
  <1>. QED
    BY <1>1, <1>2, <1>3, <1>4 DEF Next, Tick, syncClockDrift, PrintSummary, vars

\* A part that is dispatched while its block's slot is remembered takes it.
LEMMA PartTaught ==
    ASSUME TypeOK, SlotsTrue, Learned, NEW c \in Callers, NEW x \in exported, Dispatch(c),
           KindOf(call[c].ev).resolve = "use", Teaches(x.ev), x.ev.root = call[c].ev.root,
           now + Lead * TicksPerSlot <= SlotStart(x.ev.slot) + BlockSlotTTL
    PROVE  call'[c].slot = RealSlot(call[c].ev)
  <1>. DEFINE e == call[c].ev
              T == Lead * TicksPerSlot
              r == e.root
  <1>1. call[c] \in CallType /\ call \in [Callers -> CallType \cup {Idle}]
    BY StepFrame DEF TypeOK, Step
  <1>2. e \in Handled /\ x.ev \in Handled
    BY <1>1 DEF Dispatch, Handled, CallType, TypeOK, ExportType
  <1>3. r \in Roots /\ r # NoRoot /\ x.ev.slot \in Nat
    BY <1>2, TeachersResolve, RealSlotType DEF Teaches
  <1>4. /\ now \in Nat /\ blockSlots[r].expiry \in Int
        /\ T \in Nat /\ SlotStart(x.ev.slot) \in Nat /\ BlockSlotTTL \in Nat
    <2>1. TicksPerSlot \in Nat /\ Lead \in Nat /\ BlockSlotTTL \in Nat
      BY ChainAssumption, ConstantsAssumption, TTLAssumption
    <2>2. Lead * TicksPerSlot \in Nat /\ x.ev.slot * TicksPerSlot \in Nat
      BY <1>3, <2>1
    <2>. QED BY <1>3, <2>1, <2>2 DEF TypeOK, SlotStart
  <1>5. blockSlots[r].expiry + T >= SlotStart(x.ev.slot) + BlockSlotTTL
    BY DEF Learned, Remembered
  <1>. HIDE DEF T
  <1>6. blockSlots[r].expiry >= now
    <2>1. now + T <= SlotStart(x.ev.slot) + BlockSlotTTL BY DEF T
    <2>. QED BY <1>4, <1>5, <2>1
  <1>7. GetSlot(blockSlots, r, now) = BlockSlot[r]
    BY <1>3, <1>4, <1>6 DEF GetSlot, Live, SlotsTrue, Absent
  <1>8. Resolve(blockSlots, r, e.slot, now).slot = RealSlot(e)
    BY <1>2, <1>3, <1>7, OwnSlot DEF Resolve, RealSlot
  <1>. QED BY <1>1, <1>8 DEF Dispatch, CallType

(***************************************************************************)
(* A part without a slot takes the slot of its block from any event of it  *)
(* that was exported before, for BlockSlotTTL from the earliest arrival of *)
(* that event (HandleRawEvent, BlockSlotCache.Resolve).                    *)
(***************************************************************************)
THEOREM PartsAreTaught == Spec => PartsLearnSlot
  <1>1. Init => Arrived /\ Learned
    BY DEF Init, Arrived, Learned, Idle
  <1>2. TypeOK /\ Arrived /\ [Next]_vars => Arrived'
    BY ArrivedInductive
  <1>3. /\ TypeOK /\ TypeOK' /\ Arrived /\ Learned /\ [Next]_vars
        /\ SlotsTrue /\ CallSlot /\ SlotAttribution
        => Learned'
    BY LearnedInductive
  <1>. DEFINE Taught ==
                 \A c \in Callers, x \in exported :
                    /\ call[c].pc = "dispatch" /\ call'[c].pc = "dedup"
                    /\ KindOf(call[c].ev).resolve = "use"
                    /\ Teaches(x.ev) /\ x.ev.root = call[c].ev.root
                    /\ now + Lead * TicksPerSlot <= SlotStart(x.ev.slot) + BlockSlotTTL
                    => call'[c].slot = RealSlot(call[c].ev)
  <1>4. TypeOK /\ SlotsTrue /\ Learned /\ [Next]_vars => [Taught]_vars
    <2>1. ASSUME TypeOK, Next, NEW c \in Callers,
                 call[c].pc = "dispatch", call'[c].pc = "dedup"
          PROVE  Dispatch(c)
      <3>1. CASE UNCHANGED call
        BY <2>1, <3>1
      <3>2. ASSUME NEW d \in Callers, NEW e \in Events, HandleRawEvent(d, e)
            PROVE  FALSE
        BY <2>1, <3>2 DEF HandleRawEvent, TypeOK
      <3>3. ASSUME NEW d \in Callers, Step(d) PROVE Dispatch(c)
        <4>1. d = c BY <2>1, <3>3, StepFrame
        <4>. QED
          BY <2>1, <3>3, <4>1
          DEF Step, Unsupported, Reject, Duplicate, Claim, WallclockError, Stale, Fresh,
              Export, SinkFails, SinkAccepts, Finish, Return, Idle, TypeOK
      <3>. QED
        BY <2>1, <3>1, <3>2, <3>3 DEF Next, Tick, syncClockDrift, PrintSummary
    <2>2. TypeOK /\ SlotsTrue /\ Learned /\ Next => Taught
      BY <2>1, PartTaught
    <2>. QED BY <2>2
  <1>. QED
    BY <1>1, <1>2, <1>3, <1>4, TypeCorrect, SlotsInvariant, PTL DEF Spec, PartsLearnSlot

=============================================================================

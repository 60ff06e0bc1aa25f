-------------------------- MODULE Dedup_proofs --------------------------
(***************************************************************************)
(* Deduplication, for every set of callers and events, every slot length   *)
(* and every lifetime that satisfies WindowAssumption: nothing that names  *)
(* its slot is exported twice (AtMostOnce), nothing is dropped for being a *)
(* duplicate of something that was never exported (NoFreshLoss), what is   *)
(* exported again is a lifetime apart (SpacedApart), and nothing is        *)
(* exported that was too old when it came in (FreshWhenClaimed).           *)
(***************************************************************************)
EXTENDS Handler_proofs

(* More than MaxSlotAge slots old, said without a subtraction. *)
Old(slot, t) == slot + MaxSlotAge < SlotAt(t)

\* The guarded subtraction of the age cutoff is that comparison.
LEMMA TooOldIsOld ==
    ASSUME NEW n \in Nat, NEW t \in Nat
    PROVE  TooOld(n, t) <=> Old(n, t)
  <1>1. SlotAt(t) \in Nat BY SlotAtType
  <1>. QED BY <1>1, EventTypesAssumption DEF TooOld, Old

\* Once old, always old.
LEMMA OldStays ==
    ASSUME NEW n \in Nat, NEW s \in Nat, NEW t \in Nat, s <= t, Old(n, s)
    PROVE  Old(n, t)
  <1>1. SlotAt(s) \in Nat /\ SlotAt(t) \in Nat BY SlotAtType
  <1>2. SlotAt(s) <= SlotAt(t) BY SlotAtMonotone
  <1>. QED BY <1>1, <1>2, EventTypesAssumption DEF Old

\* When an entry set at tick t for an event of slot n expires, n is old.
LEMMA EntryOutlivesWindow ==
    ASSUME NEW n \in Nat, NEW t \in Nat, n <= SlotAt(t) + Lead
    PROVE  /\ t + ConsensusTTL \in Nat
           /\ Old(n, t + ConsensusTTL)
  <1>. DEFINE S == SlotAt(t)
              W == MaxSlotAge + 1 + Lead
              T == TicksPerSlot
  <1>1. /\ T \in Nat \ {0} /\ MaxSlotAge \in Nat /\ Lead \in Nat
        /\ ConsensusTTL \in Nat /\ ConsensusTTL >= W * T
    BY ChainAssumption, EventTypesAssumption, ConstantsAssumption, TTLAssumption,
       WindowAssumption
  <1>2. S \in Nat /\ T * S <= t
    BY <1>1, SlotAtType, DivMod DEF SlotAt
  <1>3. W \in Nat BY <1>1
  <1>. HIDE DEF S, W, T
  <1>4. T * (S + W) = T * S + W * T
    BY <1>1, <1>2, <1>3
  <1>5. W * T \in Nat /\ T * S \in Nat
    BY <1>1, <1>2, <1>3
  <1>6. T * (S + W) <= t + ConsensusTTL
    BY <1>1, <1>2, <1>4, <1>5
  <1>7. t + ConsensusTTL \in Nat BY <1>1
  <1>8. S + W <= SlotAt(t + ConsensusTTL)
    BY <1>1, <1>2, <1>3, <1>6, <1>7, DivUnique DEF SlotAt, T
  <1>9. SlotAt(t + ConsensusTTL) \in Nat BY <1>7, SlotAtType
  <1>. QED BY <1>1, <1>2, <1>3, <1>7, <1>8, <1>9 DEF Old, W, S

\* Every supported event belongs to a slot.
LEMMA RealSlotType ==
    ASSUME NEW e \in Handled PROVE RealSlot(e) \in Nat
  BY ConstantsAssumption DEF Handled, EventType, RealSlot

(***************************************************************************)
(* Events with the same key are of one kind and one slot: a hash key is    *)
(* the whole event, and a column key names a block, whose slot it fixes.   *)
(***************************************************************************)
LEMMA SameKey ==
    ASSUME NEW e \in Handled, NEW f \in Handled, DupKey(e) = DupKey(f)
    PROVE  /\ KindOf(e) = KindOf(f)
           /\ RealSlot(e) = RealSlot(f)
           /\ Dated(e) <=> Dated(f)
  <1>. DEFINE Col(g) == KindOf(g).key = "column"
  <1>1. CASE Col(e) /\ Col(f)
    <2>1. KindOf(e) = DataColumnCompleted /\ KindOf(f) = DataColumnCompleted
      BY <1>1, KindFacts DEF Handled, Supported, KindOf
    <2>2. e.root = f.root /\ e.root # NoRoot
      BY <1>1, ClientAssumption DEF DupKey
    <2>3. RealSlot(e) = RealSlot(f)
      BY <2>2 DEF RealSlot
    <2>4. e.slot = RealSlot(e) /\ f.slot = RealSlot(f)
      BY <2>1, OwnSlot DEF DataColumnCompleted
    <2>. QED BY <2>1, <2>3, <2>4 DEF Dated
  <1>2. CASE ~Col(e) /\ ~Col(f)
    BY <1>2 DEF DupKey
  <1>3. CASE Col(e) /\ ~Col(f)
    BY <1>3 DEF DupKey
  <1>4. CASE ~Col(e) /\ Col(f)
    BY <1>4 DEF DupKey
  <1>. QED BY <1>1, <1>2, <1>3, <1>4

\* A dated event names its real slot, has the long lifetime and is cut off by age.
LEMMA DatedFacts ==
    ASSUME NEW e \in Handled, Dated(e)
    PROVE  /\ e.slot = RealSlot(e)
           /\ TTL(e) = ConsensusTTL
           /\ KindOf(e).cutoff # "none"
           /\ KindOf(e).resolve # "use"
           /\ ReadsClock(e, e.slot)
  <1>1. /\ KindOf(e).resolve = "use" => KindOf(e).cutoff = "known" /\ KindOf(e).ttl = "partial"
        /\ KindOf(e).ttl = "partial" => KindOf(e).resolve = "use"
    BY KindFacts DEF Handled, Supported, KindOf
  <1>2. KindOf(e).resolve # "use" /\ KindOf(e).ttl # "partial"
    BY <1>1 DEF Dated
  <1>. QED BY <1>2, OwnSlot DEF Dated, TTL, ReadsClock

-----------------------------------------------------------------------------
(* The call of c has claimed the key of a dated event and not exported it. *)
Claimant(c) == call[c].pc \in {"age", "export"} /\ Dated(call[c].ev)

(* No event of a call in progress is further ahead than Lead slots. *)
Arrived ==
    \A c \in Callers :
        call[c].pc # "idle" /\ Supported(call[c].ev) /\ KindOf(call[c].ev).cutoff # "none"
            => RealSlot(call[c].ev) <= SlotAt(now) + Lead

(* When the entry of a dated event expires, the event is old. *)
EntriesOutlive ==
    \A e \in Handled : Dated(e) /\ dup[DupKey(e)] # Absent =>
        dup[DupKey(e)] \in Nat /\ Old(RealSlot(e), dup[DupKey(e)])

(* The key of a claim and of an export was set at some time. *)
KeysSet ==
    /\ \A c \in Callers : Claimant(c) => dup[DupKey(call[c].ev)] # Absent
    /\ \A x \in exported : Dated(x.ev) => dup[DupKey(x.ev)] # Absent

(* A call before the age cutoff holds the only claim, or will be refused; *)
(* a call after it holds the only claim that can still be exported.       *)
OneClaim ==
    /\ \A c \in Callers : call[c].pc = "age" /\ Dated(call[c].ev) =>
          \/ Old(RealSlot(call[c].ev), now)
          \/ /\ \A x \in exported : Dated(x.ev) => DupKey(x.ev) # DupKey(call[c].ev)
             /\ \A d \in Callers \ {c} :
                   Claimant(d) => DupKey(call[d].ev) # DupKey(call[c].ev)
    /\ \A c \in Callers : call[c].pc = "export" /\ Dated(call[c].ev) =>
          /\ \A x \in exported : Dated(x.ev) => DupKey(x.ev) # DupKey(call[c].ev)
          /\ \A d \in Callers \ {c} : call[d].pc = "export" /\ Dated(call[d].ev)
                => DupKey(call[d].ev) # DupKey(call[c].ev)

(* The inductive invariant behind AtMostOnce. *)
Ledger == Arrived /\ EntriesOutlive /\ KeysSet /\ OneClaim /\ AtMostOnce

\* The events of calls past their dispatch, and of exports, are supported ones.
LEMMA HandledEvents ==
    ASSUME TypeOK
    PROVE  /\ \A c \in Callers : call[c].pc \in {"dedup", "age", "export", "sinks"}
                  => call[c].ev \in Handled
           /\ \A x \in exported : x.ev \in Handled
  <1>1. \A x \in exported : x.ev \in Handled
    BY DEF TypeOK, ExportType
  <1>2. ASSUME NEW c \in Callers, call[c].pc \in {"dedup", "age", "export", "sinks"}
        PROVE  call[c].ev \in Handled
    <2>1. call[c] \in CallType BY <1>2, BusyCall DEF TypeOK, CallOK
    <2>. QED BY <1>2, <2>1 DEF TypeOK, CallType, Handled
  <1>. QED BY <1>1, <1>2

\* GetOrSet by a call in progress keeps EntriesOutlive, and forgets no key.
LEMMA GetOrSetOutlives ==
    ASSUME TypeOK, Arrived, EntriesOutlive, NEW c \in Callers,
           call[c].pc = "dedup", UNCHANGED now,
           dup' = GetOrSet(dup, DupKey(call[c].ev), TTL(call[c].ev), now)
    PROVE  /\ EntriesOutlive'
           /\ \A k \in Keys : dup[k] # Absent => dup'[k] # Absent
           /\ dup'[DupKey(call[c].ev)] # Absent
  <1>. DEFINE g == call[c].ev
  <1>1. g \in Handled /\ g \in Events /\ Supported(g)
    BY HandledEvents DEF Handled
  <1>2. DupKey(g) \in Keys /\ TTL(g) \in Nat \ {0} /\ now \in Nat /\ dup \in [Keys -> Int]
    BY <1>1, GetOrSetType DEF TypeOK
  <1>. HIDE DEF g
  <1>3. /\ \A k \in Keys : k # DupKey(g) => dup'[k] = dup[k]
        /\ dup'[DupKey(g)] = now + TTL(g)
    BY <1>2 DEF GetOrSet, g
  <1>4. dup'[DupKey(g)] # Absent
    BY <1>2, <1>3 DEF Absent
  <1>5. ASSUME NEW e \in Handled, Dated(e), dup'[DupKey(e)] # Absent
        PROVE  dup'[DupKey(e)] \in Nat /\ Old(RealSlot(e), dup'[DupKey(e)])
    <2>1. DupKey(e) \in Keys BY DEF Keys
    <2>2. CASE DupKey(e) # DupKey(g)
      BY <1>3, <1>5, <2>1, <2>2 DEF EntriesOutlive
    <2>3. CASE DupKey(e) = DupKey(g)
      <3>1. KindOf(e) = KindOf(g) /\ RealSlot(e) = RealSlot(g) /\ Dated(g)
        BY <1>1, <1>5, <2>3, SameKey
      <3>2. TTL(g) = ConsensusTTL /\ KindOf(g).cutoff # "none"
        BY <1>1, <3>1, DatedFacts
      <3>3. RealSlot(g) <= SlotAt(now) + Lead
        BY <1>1, <3>2 DEF Arrived, g
      <3>4. now + ConsensusTTL \in Nat /\ Old(RealSlot(g), now + ConsensusTTL)
        BY <1>1, <1>2, <3>3, RealSlotType, EntryOutlivesWindow
      <3>. QED BY <1>3, <2>3, <3>1, <3>2, <3>4
    <2>. QED BY <2>2, <2>3
  <1>6. EntriesOutlive'
    BY <1>5 DEF EntriesOutlive, Old
  <1>. QED BY <1>3, <1>4, <1>6 DEF g

\* A dated event whose entry is no longer live is new or old.
LEMMA ExpiredIsOld ==
    ASSUME TypeOK, EntriesOutlive, NEW e \in Handled, Dated(e),
           ~Retrieved(dup, DupKey(e), now)
    PROVE  dup[DupKey(e)] = Absent \/ Old(RealSlot(e), now)
  <1>1. now \in Nat BY DEF TypeOK
  <1>2. CASE dup[DupKey(e)] # Absent
    <2>1. dup[DupKey(e)] \in Nat /\ Old(RealSlot(e), dup[DupKey(e)])
      BY <1>2 DEF EntriesOutlive
    <2>2. dup[DupKey(e)] <= now
      BY <1>1, <2>1 DEF Retrieved, Live
    <2>. QED BY <1>1, <2>1, <2>2, RealSlotType, OldStays
  <1>. QED BY <1>2

\* A dated call that passes the age cutoff is not old.
LEMMA FreshIsNotOld ==
    ASSUME TypeOK, CallSlot, NEW c \in Callers, call[c].pc = "age",
           Dated(call[c].ev), ~IsStale(c)
    PROVE  ~Old(RealSlot(call[c].ev), now)
  <1>. DEFINE e == call[c].ev
  <1>1. e \in Handled BY HandledEvents
  <1>2. e.slot = RealSlot(e) /\ KindOf(e).resolve # "use" /\ ReadsClock(e, e.slot)
    BY <1>1, DatedFacts
  <1>3. call[c].slot = RealSlot(e)
    BY <1>2 DEF CallSlot
  <1>4. ~TooOld(RealSlot(e), now)
    BY <1>2, <1>3 DEF IsStale
  <1>. QED BY <1>1, <1>4, RealSlotType, TooOldIsOld DEF TypeOK

-----------------------------------------------------------------------------
\* Every step keeps Arrived.
LEMMA ArrivedInductive ==
    ASSUME TypeOK, Arrived, [Next]_vars
    PROVE  Arrived'
  <1>1. CASE UNCHANGED <<call, now>>
    BY <1>1 DEF Arrived
  <1>2. CASE Tick
    <2>1. now \in Nat /\ now' \in Nat /\ now <= now' /\ Lead \in Nat
      BY <1>2, ConstantsAssumption DEF Tick, TypeOK
    <2>2. SlotAt(now) \in Nat /\ SlotAt(now') \in Nat /\ SlotAt(now) <= SlotAt(now')
      BY <2>1, SlotAtType, SlotAtMonotone
    <2>3. ASSUME NEW c \in Callers, call[c].pc # "idle", Supported(call[c].ev),
                 KindOf(call[c].ev).cutoff # "none"
          PROVE  RealSlot(call[c].ev) <= SlotAt(now') + Lead
      <3>1. RealSlot(call[c].ev) <= SlotAt(now) + Lead
        BY <2>3 DEF Arrived
      <3>2. call[c].ev \in Handled
        BY <2>3, BusyCall DEF TypeOK, CallOK, CallType, Handled
      <3>. QED BY <2>1, <2>2, <3>1, <3>2, RealSlotType
    <2>. QED BY <1>2, <2>3 DEF Tick, Arrived
  <1>3. ASSUME NEW c \in Callers, NEW e \in Events, HandleRawEvent(c, e) PROVE Arrived'
    <2>1. /\ call'[c].ev = e /\ UNCHANGED now /\ Timely(e)
          /\ \A d \in Callers \ {c} : call'[d] = call[d]
      BY <1>3 DEF HandleRawEvent, TypeOK
    <2>. QED BY <2>1 DEF Arrived, Timely
  <1>4. ASSUME NEW c \in Callers, Step(c) PROVE Arrived'
    <2>1. /\ UNCHANGED now
          /\ \A d \in Callers \ {c} : call'[d] = call[d]
          /\ call'[c] = Idle \/ call'[c].ev = call[c].ev
          /\ call[c].pc # "idle"
      BY <1>4, StepFrame DEF CallType, Busy
    <2>. QED BY <2>1 DEF Arrived, Idle
  <1>. QED
    BY <1>1, <1>2, <1>3, <1>4 DEF Next, syncClockDrift, PrintSummary, vars

\* Every step keeps the rest of Ledger.
LEMMA LedgerInductive ==
    ASSUME TypeOK, CallSlot, Ledger, [Next]_vars
    PROVE  Ledger'
  <1>. USE DEF Ledger
  <1>0. Arrived' BY ArrivedInductive
  <1>1. CASE UNCHANGED <<call, now, dup, exported>>
    BY <1>0, <1>1 DEF EntriesOutlive, KeysSet, OneClaim, AtMostOnce, Claimant, Old
  <1>2. CASE Tick
    <2>1. now \in Nat /\ now' \in Nat /\ now <= now' /\ UNCHANGED <<call, dup, exported>>
      BY <1>2 DEF Tick, TypeOK
    <2>2. ASSUME NEW c \in Callers, call[c].pc = "age", Old(RealSlot(call[c].ev), now)
          PROVE  Old(RealSlot(call[c].ev), now')
      BY <2>1, <2>2, HandledEvents, RealSlotType, OldStays
    <2>3. OneClaim'
      BY <2>1, <2>2 DEF OneClaim, Claimant, Old
    <2>. QED BY <1>0, <2>1, <2>3 DEF EntriesOutlive, KeysSet, AtMostOnce, Claimant, Old
  <1>3. ASSUME NEW c \in Callers, NEW e \in Events, HandleRawEvent(c, e) PROVE Ledger'
    <2>1. /\ call'[c].pc = "dispatch" /\ UNCHANGED <<now, dup, exported>>
          /\ \A d \in Callers \ {c} : call'[d] = call[d]
      BY <1>3 DEF HandleRawEvent, TypeOK
    <2>. QED
      BY <1>0, <2>1 DEF EntriesOutlive, KeysSet, OneClaim, AtMostOnce, Claimant, Old
  <1>4. ASSUME NEW c \in Callers, Step(c) PROVE Ledger'
    <2>. DEFINE e == call[c].ev
    <2>0. /\ call[c] \in CallType /\ UNCHANGED now
          /\ \A d \in Callers \ {c} : call'[d] = call[d]
          /\ call'[c] = Idle \/ call'[c].ev = e
          /\ call \in [Callers -> CallType \cup {Idle}]
      BY <1>4, StepFrame DEF TypeOK
    <2>1. CASE call'[c].pc \notin {"age", "export"} /\ UNCHANGED <<dup, exported>>
      BY <1>0, <2>0, <2>1
      DEF EntriesOutlive, KeysSet, OneClaim, AtMostOnce, Claimant, Old
    <2>2. CASE Duplicate(c)
      <3>1. call'[c].pc = "idle" /\ UNCHANGED exported /\ call[c].pc = "dedup"
        BY <2>0, <2>2 DEF Duplicate, Return, Idle
      <3>2. EntriesOutlive' /\ \A k \in Keys : dup[k] # Absent => dup'[k] # Absent
        BY <2>0, <2>2, <3>1, GetOrSetOutlives DEF Duplicate
      <3>3. KeysSet'
        BY <2>0, <3>1, <3>2, HandledEvents DEF KeysSet, Claimant, Keys
      <3>4. OneClaim'
        BY <2>0, <3>1 DEF OneClaim, Claimant, Old
      <3>. QED BY <1>0, <3>1, <3>2, <3>3, <3>4 DEF AtMostOnce
    <2>3. CASE Claim(c)
      <3>1. /\ UNCHANGED exported /\ call[c].pc = "dedup"
            /\ call'[c].pc = IF KindOf(e).cutoff = "none" THEN "export" ELSE "age"
            /\ call'[c].ev = e
        BY <2>0, <2>3 DEF Claim, Claimed, CallType
      <3>2. /\ EntriesOutlive' /\ \A k \in Keys : dup[k] # Absent => dup'[k] # Absent
            /\ dup'[DupKey(e)] # Absent
        BY <2>0, <2>3, <3>1, GetOrSetOutlives DEF Claim
      <3>3. e \in Handled BY <3>1, HandledEvents
      <3>4. KeysSet'
        BY <2>0, <3>1, <3>2, HandledEvents DEF KeysSet, Claimant, Keys
      <3>5. Dated(e) => call'[c].pc = "age"
        BY <3>1, <3>3, DatedFacts
      <3>6. Dated(e) => dup[DupKey(e)] = Absent \/ Old(RealSlot(e), now)
        BY <2>3, <3>3, ExpiredIsOld DEF Claim
      <3>7. ASSUME NEW d \in Callers \ {c}, Claimant(d), Dated(e),
                   DupKey(call[d].ev) = DupKey(e)
            PROVE  Old(RealSlot(call[d].ev), now) /\ Old(RealSlot(e), now)
        <4>1. call[d].ev \in Handled BY <3>7, HandledEvents DEF Claimant
        <4>2. RealSlot(call[d].ev) = RealSlot(e) BY <3>3, <3>7, <4>1, SameKey
        <4>3. dup[DupKey(e)] # Absent BY <3>7 DEF KeysSet
        <4>. QED BY <3>6, <3>7, <4>2, <4>3
      <3>8. ASSUME NEW x \in exported, Dated(x.ev), DupKey(x.ev) = DupKey(e), Dated(e)
            PROVE  Old(RealSlot(e), now)
        BY <3>6, <3>8 DEF KeysSet
      <3>9. OneClaim'
        BY <2>0, <3>1, <3>5, <3>7, <3>8 DEF OneClaim, Claimant, Old
      <3>. QED BY <1>0, <3>1, <3>2, <3>4, <3>9 DEF AtMostOnce
    <2>4. CASE Fresh(c)
      <3>1. /\ UNCHANGED <<dup, exported>> /\ call[c].pc = "age"
            /\ call'[c].pc = "export" /\ call'[c].ev = e
        BY <2>0, <2>4 DEF Fresh, Goto, CallType
      <3>2. Dated(e) => ~Old(RealSlot(e), now)
        BY <2>4, <3>1, FreshIsNotOld DEF Fresh
      <3>3. KeysSet'
        BY <2>0, <3>1 DEF KeysSet, Claimant
      <3>4. Dated(e) =>
               /\ \A x \in exported : Dated(x.ev) => DupKey(x.ev) # DupKey(e)
               /\ \A d \in Callers \ {c} : Claimant(d) => DupKey(call[d].ev) # DupKey(e)
        BY <3>1, <3>2 DEF OneClaim
      <3>5. OneClaim'
        BY <2>0, <3>1, <3>4 DEF OneClaim, Claimant, Old
      <3>. QED BY <1>0, <2>0, <3>1, <3>3, <3>5 DEF EntriesOutlive, AtMostOnce, Old
    <2>5. CASE Export(c)
      <3>1. /\ UNCHANGED dup /\ call[c].pc = "export" /\ call'[c].pc = "sinks"
        BY <2>0, <2>5 DEF Export, Goto, CallType
      <3>2. PICK y : y.ev = e /\ exported' = exported \cup {y}
        BY <2>5 DEF Export, Decorate
      <3>3. AtMostOnce'
        BY <3>1, <3>2 DEF AtMostOnce, OneClaim
      <3>4. KeysSet'
        BY <2>0, <3>1, <3>2 DEF KeysSet, Claimant
      <3>5. ASSUME NEW d \in Callers \ {c}, call[d].pc = "age", Dated(call[d].ev),
                   Dated(e), DupKey(call[d].ev) = DupKey(e)
            PROVE  Old(RealSlot(call[d].ev), now)
        BY <3>1, <3>5 DEF OneClaim, Claimant
      <3>6. ASSUME NEW d \in Callers \ {c}, call[d].pc = "export", Dated(call[d].ev), Dated(e)
            PROVE  DupKey(call[d].ev) # DupKey(e)
        BY <3>1, <3>6 DEF OneClaim
      <3>7. OneClaim'
        BY <2>0, <3>1, <3>2, <3>5, <3>6 DEF OneClaim, Claimant, Old
      <3>. QED BY <1>0, <2>0, <3>1, <3>3, <3>4, <3>7 DEF EntriesOutlive, Old
    <2>6. CASE Unsupported(c) \/ Reject(c) \/ WallclockError(c) \/ Stale(c) \/ Finish(c)
      BY <2>0, <2>1, <2>6
      DEF Unsupported, Reject, WallclockError, Stale, Finish, Return, Idle
    <2>7. CASE Dispatch(c)
      <3>1. call'[c].pc = "dedup" /\ UNCHANGED <<dup, exported>>
        BY <2>0, <2>7 DEF Dispatch, CallType
      <3>. QED BY <2>1, <3>1
    <2>8. CASE SinkFails(c) \/ SinkAccepts(c)
      <3>1. call'[c].pc = "sinks" /\ UNCHANGED <<dup, exported>>
        BY <2>0, <2>8 DEF SinkFails, SinkAccepts, CallType
      <3>. QED BY <2>1, <3>1
    <2>. QED BY <1>4, <2>2, <2>3, <2>4, <2>5, <2>6, <2>7, <2>8 DEF Step
  <1>. QED
    BY <1>1, <1>2, <1>3, <1>4 DEF Next, syncClockDrift, PrintSummary, vars

(***************************************************************************)
(* Two calls never export dated events with the same key (GetOrSet and the *)
(* age cutoff of ShouldIgnore, with the lifetimes of NewDuplicateCache).   *)
(***************************************************************************)
THEOREM ExportsAtMostOnce == Spec => []AtMostOnce
  <1>1. Init => Ledger
    BY DEF Init, Ledger, Arrived, EntriesOutlive, KeysSet, OneClaim, AtMostOnce,
           Claimant, Idle, Keys
  <1>2. TypeOK /\ CallSlot /\ Ledger /\ [Next]_vars => Ledger'
    BY LedgerInductive
  <1>3. Ledger => AtMostOnce
    BY DEF Ledger
  <1>. QED BY <1>1, <1>2, <1>3, TypeCorrect, SlotsInvariant, PTL DEF Spec

-----------------------------------------------------------------------------
(* The four fates of a key that was set: NoFreshLoss says every one has one. *)
Accounted(k) ==
    \/ \E x \in exported : DupKey(x.ev) = k
    \/ \E c \in Callers : call[c].pc \in {"age", "export"} /\ DupKey(call[c].ev) = k
    \/ k \in refused
    \/ \E e \in Handled : DupKey(e) = k /\ RealSlot(e) + MaxSlotAge < SlotAt(now)

\* A call the age cutoff refuses really is old, by its block's true slot.
LEMMA StaleIsOld ==
    ASSUME TypeOK, CallSlot, NEW c \in Callers, call[c].pc = "age", IsStale(c)
    PROVE  Old(RealSlot(call[c].ev), now)
  <1>. DEFINE e == call[c].ev
  <1>1. e \in Handled BY HandledEvents
  <1>2. KindOf(e).resolve = "use" => KindOf(e).cutoff = "known"
    BY <1>1, KindFacts DEF KindOf, Handled, Supported
  <1>3. call[c].slot = RealSlot(e)
    BY <1>2 DEF CallSlot, IsStale, ReadsClock
  <1>4. TooOld(RealSlot(e), now)
    BY <1>3 DEF IsStale
  <1>. QED BY <1>1, <1>4, RealSlotType, TooOldIsOld DEF TypeOK

(***************************************************************************)
(* Deduplication silences no event that no call exports (the order of enum *)
(* validation, GetOrSet and age cutoff in ShouldIgnore).                   *)
(***************************************************************************)
THEOREM NothingFreshIsLost == Spec => []NoFreshLoss
  <1>1. Init => NoFreshLoss
    BY DEF Init, NoFreshLoss
  <1>2. TypeOK /\ CallSlot /\ NoFreshLoss /\ [Next]_vars => NoFreshLoss'
    <2>. SUFFICES ASSUME TypeOK, CallSlot, NoFreshLoss, [Next]_vars
                  PROVE  NoFreshLoss'
      OBVIOUS
    <2>0. \A k \in Keys : dup[k] # Absent => Accounted(k)
      BY DEF NoFreshLoss, Accounted
    <2>1. SUFFICES ASSUME NEW k \in Keys, dup'[k] # Absent
                   PROVE  Accounted(k)'
      BY DEF NoFreshLoss, Accounted
    <2>2. CASE UNCHANGED <<call, now, dup, exported, refused>>
      <3>1. Accounted(k) BY <2>0, <2>1, <2>2
      <3>. QED BY <2>2, <3>1 DEF Accounted
    <2>3. CASE Tick
      <3>1. /\ now \in Nat /\ now' \in Nat /\ now <= now'
            /\ UNCHANGED <<call, dup, exported, refused>>
        BY <2>3 DEF Tick, TypeOK
      <3>2. Accounted(k) BY <2>0, <2>1, <3>1
      <3>3. ASSUME NEW e \in Handled, RealSlot(e) + MaxSlotAge < SlotAt(now)
            PROVE  RealSlot(e) + MaxSlotAge < SlotAt(now')
        BY <3>1, <3>3, RealSlotType, OldStays DEF Old
      <3>. QED BY <3>1, <3>2, <3>3 DEF Accounted
    <2>4. ASSUME NEW c \in Callers, NEW e \in Events, HandleRawEvent(c, e)
          PROVE  Accounted(k)'
      <3>1. /\ call[c].pc = "idle" /\ UNCHANGED <<now, dup, exported, refused>>
            /\ \A d \in Callers \ {c} : call'[d] = call[d]
        BY <2>4 DEF HandleRawEvent, TypeOK
      <3>2. Accounted(k) BY <2>0, <2>1, <3>1
      <3>. QED BY <3>1, <3>2 DEF Accounted
    <2>5. ASSUME NEW c \in Callers, Step(c) PROVE Accounted(k)'
      <3>0. /\ call[c] \in CallType /\ UNCHANGED now
            /\ \A d \in Callers \ {c} : call'[d] = call[d]
            /\ call \in [Callers -> CallType \cup {Idle}]
        BY <2>5, StepFrame DEF TypeOK
      <3>1. CASE call[c].pc \notin {"age", "export"} /\ UNCHANGED <<dup, exported, refused>>
        <4>1. Accounted(k) BY <2>0, <2>1, <3>1
        <4>. QED BY <3>0, <3>1, <4>1 DEF Accounted
      <3>2. CASE Duplicate(c) \/ Claim(c)
        <4>1. /\ call[c].pc = "dedup" /\ UNCHANGED <<exported, refused>>
              /\ dup' = GetOrSet(dup, DupKey(call[c].ev), TTL(call[c].ev), now)
          BY <3>2 DEF Duplicate, Claim
        <4>2. CASE k # DupKey(call[c].ev)
          <5>1. dup[k] # Absent
            BY <2>1, <4>1, <4>2 DEF GetOrSet, TypeOK
          <5>2. Accounted(k) BY <2>0, <5>1
          <5>. QED BY <3>0, <4>1, <5>2 DEF Accounted
        <4>3. CASE k = DupKey(call[c].ev) /\ Duplicate(c)
          <5>1. dup[k] # Absent
            BY <4>3 DEF Duplicate, Retrieved, Live, Absent, TypeOK
          <5>2. Accounted(k) BY <2>0, <5>1
          <5>. QED BY <3>0, <4>1, <5>2 DEF Accounted
        <4>4. CASE k = DupKey(call[c].ev) /\ Claim(c)
          <5>1. call'[c].pc \in {"age", "export"} /\ call'[c].ev = call[c].ev
            BY <3>0, <4>4 DEF Claim, Claimed, CallType
          <5>. QED BY <4>4, <5>1 DEF Accounted
        <4>. QED BY <3>2, <4>2, <4>3, <4>4
      <3>3. CASE WallclockError(c)
        <4>1. Accounted(k) BY <2>0, <2>1, <3>3 DEF WallclockError
        <4>. QED BY <3>0, <3>3, <4>1 DEF WallclockError, Accounted
      <3>4. CASE Stale(c)
        <4>1. /\ call[c].pc = "age" /\ IsStale(c) /\ UNCHANGED <<dup, exported, refused>>
          BY <3>4 DEF Stale
        <4>2. /\ call[c].ev \in Handled
              /\ RealSlot(call[c].ev) + MaxSlotAge < SlotAt(now)
          BY <4>1, HandledEvents, StaleIsOld DEF Old
        <4>3. Accounted(k) BY <2>0, <2>1, <4>1
        <4>. QED BY <3>0, <4>1, <4>2, <4>3 DEF Accounted
      <3>5. CASE Fresh(c)
        <4>1. /\ call'[c].pc = "export" /\ call'[c].ev = call[c].ev
              /\ UNCHANGED <<dup, exported, refused>>
          BY <3>0, <3>5 DEF Fresh, Goto, CallType
        <4>2. Accounted(k) BY <2>0, <2>1, <4>1
        <4>. QED BY <3>0, <4>1, <4>2 DEF Accounted
      <3>6. CASE Export(c)
        <4>1. UNCHANGED <<dup, refused>> BY <3>6 DEF Export
        <4>2. PICK y : y.ev = call[c].ev /\ exported' = exported \cup {y}
          BY <3>6 DEF Export, Decorate
        <4>3. Accounted(k) BY <2>0, <2>1, <4>1
        <4>. QED BY <3>0, <4>1, <4>2, <4>3 DEF Accounted
      <3>. QED
        BY <2>5, <3>1, <3>2, <3>3, <3>4, <3>5, <3>6
        DEF Step, Unsupported, Dispatch, Reject, SinkFails, SinkAccepts, Finish
    <2>. QED
      BY <2>2, <2>3, <2>4, <2>5 DEF Next, syncClockDrift, PrintSummary, vars
  <1>. QED BY <1>1, <1>2, TypeCorrect, SlotsInvariant, PTL DEF Spec

-----------------------------------------------------------------------------
(* The call of c has claimed its key and not exported its event. *)
Holds(c) == call[c].pc \in {"age", "export"}

(* The claim of r, a call or an export, is past, and the entry of its key *)
(* lives at least as long as that claim made it live.                     *)
Covered(r) ==
    /\ r.claimed <= now
    /\ r.claimed + TTL(r.ev) <= dup[DupKey(r.ev)]

(* The claims of r and q are of different keys, or a lifetime apart. *)
Apart(r, q) ==
    DupKey(r.ev) = DupKey(q.ev) =>
        \/ r.claimed > q.claimed + TTL(q.ev)
        \/ q.claimed > r.claimed + TTL(r.ev)

(***************************************************************************)
(* The inductive invariant behind SpacedApart: the claims that can still   *)
(* be exported are spaced too, among themselves and from the exports.      *)
(***************************************************************************)
Spacing ==
    /\ \A c \in Callers : Holds(c) => Covered(call[c])
    /\ \A x \in exported : Covered(x)
    /\ \A c, d \in Callers : c # d /\ Holds(c) /\ Holds(d) => Apart(call[c], call[d])
    /\ \A c \in Callers, x \in exported : Holds(c) => Apart(call[c], x)
    /\ SpacedApart

\* GetOrSet shortens no entry, so whatever was covered stays covered.
LEMMA GetOrSetCovers ==
    ASSUME TypeOK, NEW c \in Callers, call[c].pc = "dedup", UNCHANGED now,
           dup' = GetOrSet(dup, DupKey(call[c].ev), TTL(call[c].ev), now),
           NEW e \in Handled, NEW t \in Int, t <= now, t + TTL(e) <= dup[DupKey(e)]
    PROVE  t + TTL(e) <= dup'[DupKey(e)]
  <1>. DEFINE g == call[c].ev
  <1>1. g \in Handled /\ g \in Events /\ Supported(g)
    BY HandledEvents DEF Handled
  <1>2. /\ DupKey(g) \in Keys /\ TTL(g) \in Nat \ {0} /\ now \in Nat
        /\ dup \in [Keys -> Int]
    BY <1>1, GetOrSetType DEF TypeOK
  <1>3. DupKey(e) \in Keys BY DEF Keys
  <1>4. CASE DupKey(e) = DupKey(g)
    <2>1. TTL(e) = TTL(g) BY <1>1, <1>4, SameKey DEF TTL
    <2>2. dup'[DupKey(e)] = now + TTL(e)
      BY <1>2, <1>3, <1>4, <2>1 DEF GetOrSet
    <2>. QED BY <1>2, <2>1, <2>2
  <1>5. CASE DupKey(e) # DupKey(g)
    BY <1>2, <1>3, <1>5 DEF GetOrSet
  <1>. QED BY <1>4, <1>5

\* Every step keeps Spacing.
LEMMA SpacingInductive ==
    ASSUME TypeOK, Spacing, [Next]_vars
    PROVE  Spacing'
  <1>. USE DEF Spacing
  <1>0. /\ \A c \in Callers : Holds(c) =>
              call[c] \in CallType /\ call[c].ev \in Handled /\ call[c].claimed \in Int
        /\ \A x \in exported : x.ev \in Handled /\ x.claimed \in Int
    <2>1. \A c \in Callers : Holds(c) => call[c] \in CallType
      BY BusyCall DEF Holds, TypeOK, CallOK
    <2>2. \A x \in exported : x.claimed \in Int
      BY DEF TypeOK, ExportType
    <2>. QED BY <2>1, <2>2, HandledEvents DEF Holds, CallType
  <1>1. CASE UNCHANGED <<call, now, dup, exported>>
    BY <1>1 DEF Holds, Covered, Apart, SpacedApart
  <1>2. CASE Tick
    <2>1. now \in Nat /\ now' = now + 1 /\ UNCHANGED <<call, dup, exported>>
      BY <1>2 DEF Tick, TypeOK
    <2>2. \A c \in Callers : Holds(c) => call[c].claimed <= now'
      BY <1>0, <2>1 DEF Covered
    <2>3. \A x \in exported : x.claimed <= now'
      BY <1>0, <2>1 DEF Covered
    <2>. QED BY <2>1, <2>2, <2>3 DEF Holds, Covered, Apart, SpacedApart
  <1>3. ASSUME NEW c \in Callers, NEW e \in Events, HandleRawEvent(c, e) PROVE Spacing'
    <2>1. /\ call'[c].pc = "dispatch" /\ UNCHANGED <<now, dup, exported>>
          /\ \A d \in Callers \ {c} : call'[d] = call[d]
      BY <1>3 DEF HandleRawEvent, TypeOK
    <2>. QED BY <2>1 DEF Holds, Covered, Apart, SpacedApart
  <1>4. ASSUME NEW c \in Callers, Step(c) PROVE Spacing'
    <2>. DEFINE e == call[c].ev
    <2>0. /\ call[c] \in CallType /\ UNCHANGED now
          /\ \A d \in Callers \ {c} : call'[d] = call[d]
          /\ now \in Nat
      BY <1>4, StepFrame DEF TypeOK
    <2>1. CASE call'[c].pc \notin {"age", "export"} /\ UNCHANGED <<dup, exported>>
      BY <2>0, <2>1 DEF Holds, Covered, Apart, SpacedApart
    <2>2. ASSUME call[c].pc = "dedup", UNCHANGED exported,
                 dup' = GetOrSet(dup, DupKey(e), TTL(e), now)
          PROVE  /\ \A d \in Callers \ {c} : Holds(d) => Covered(call[d])'
                 /\ \A x \in exported : Covered(x)'
      <3>1. ASSUME NEW d \in Callers \ {c}, Holds(d) PROVE Covered(call[d])'
        BY <1>0, <2>0, <2>2, <3>1, GetOrSetCovers DEF Covered
      <3>2. ASSUME NEW x \in exported PROVE Covered(x)'
        BY <1>0, <2>0, <2>2, <3>2, GetOrSetCovers DEF Covered
      <3>. QED BY <3>1, <3>2
    <2>3. CASE Duplicate(c)
      <3>1. /\ call'[c].pc = "idle" /\ UNCHANGED exported /\ call[c].pc = "dedup"
            /\ dup' = GetOrSet(dup, DupKey(e), TTL(e), now)
        BY <2>0, <2>3 DEF Duplicate, Return, Idle, TypeOK
      <3>. QED BY <2>0, <2>2, <3>1 DEF Holds, Covered, Apart, SpacedApart
    <2>4. CASE Claim(c)
      <3>1. /\ UNCHANGED exported /\ call[c].pc = "dedup" /\ Claimed(c)
            /\ dup' = GetOrSet(dup, DupKey(e), TTL(e), now)
            /\ ~Retrieved(dup, DupKey(e), now)
        BY <2>4 DEF Claim
      <3>2. call'[c].claimed = now /\ call'[c].ev = e
        BY <2>0, <3>1, ClaimedCall DEF TypeOK, CallOK
      <3>3. e \in Handled /\ e \in Events /\ Supported(e)
        BY <3>1, HandledEvents DEF Handled
      <3>4. /\ DupKey(e) \in Keys /\ TTL(e) \in Nat \ {0} /\ dup \in [Keys -> Int]
            /\ dup[DupKey(e)] < now
        BY <2>0, <3>1, <3>3, GetOrSetType DEF TypeOK, Retrieved, Live
      <3>5. Covered(call[c])'
        <4>1. dup'[DupKey(e)] = now + TTL(e) BY <3>1, <3>4 DEF GetOrSet
        <4>. QED BY <2>0, <3>2, <3>4, <4>1 DEF Covered
      <3>6. ASSUME NEW d \in Callers \ {c}, Holds(d) PROVE Apart(call[c], call[d])'
        <4>1. call[d].claimed + TTL(call[d].ev) <= dup[DupKey(call[d].ev)]
          BY <3>6 DEF Covered
        <4>2. TTL(call[d].ev) \in Nat BY TTLAssumption DEF TTL
        <4>. QED BY <1>0, <2>0, <3>2, <3>4, <3>6, <4>1, <4>2 DEF Apart
      <3>7. ASSUME NEW x \in exported PROVE Apart(call[c], x)'
        <4>1. x.claimed + TTL(x.ev) <= dup[DupKey(x.ev)]
          BY <3>7 DEF Covered
        <4>2. TTL(x.ev) \in Nat BY TTLAssumption DEF TTL
        <4>. QED BY <1>0, <2>0, <3>2, <3>4, <3>7, <4>1, <4>2 DEF Apart
      <3>8. \A d \in Callers : Holds(d)' => d = c \/ Holds(d) BY <2>0 DEF Holds
      <3>9. \A d \in Callers : Holds(d)' => Covered(call[d])'
        BY <2>2, <3>1, <3>5, <3>8
      <3>10. (\A d, f \in Callers : d # f /\ Holds(d) /\ Holds(f)
                  => Apart(call[d], call[f]))'
        BY <2>0, <3>6, <3>8 DEF Apart
      <3>11. (\A d \in Callers, x \in exported : Holds(d) => Apart(call[d], x))'
        BY <2>0, <3>1, <3>7, <3>8 DEF Apart
      <3>12. (\A x \in exported : Covered(x))' /\ SpacedApart'
        BY <2>2, <3>1 DEF SpacedApart
      <3>. QED BY <3>9, <3>10, <3>11, <3>12
    <2>5. CASE Fresh(c)
      <3>1. /\ UNCHANGED <<dup, exported>> /\ call[c].pc = "age"
            /\ call'[c].ev = e /\ call'[c].claimed = call[c].claimed
        BY <2>0, <2>5 DEF Fresh, Goto, CallType, TypeOK
      <3>. QED BY <2>0, <3>1 DEF Holds, Covered, Apart, SpacedApart
    <2>6. CASE Export(c)
      <3>1. UNCHANGED dup /\ call[c].pc = "export" /\ call'[c].pc = "sinks"
        BY <2>0, <2>6 DEF Export, Goto, CallType, TypeOK
      <3>2. PICK y : y.ev = e /\ y.claimed = call[c].claimed /\ exported' = exported \cup {y}
        BY <2>6 DEF Export, Decorate
      <3>3. Holds(c) BY <3>1 DEF Holds
      <3>4. /\ Covered(y)'
            /\ \A x \in exported : Apart(y, x)
            /\ \A d \in Callers \ {c} : Holds(d) => Apart(call[d], y)
        BY <2>0, <3>1, <3>2, <3>3 DEF Covered, Apart
      <3>5. SpacedApart'
        BY <3>2, <3>4 DEF SpacedApart, Apart
      <3>. QED BY <2>0, <3>1, <3>2, <3>4, <3>5 DEF Holds, Covered, Apart
    <2>7. CASE Unsupported(c) \/ Reject(c) \/ WallclockError(c) \/ Stale(c) \/ Finish(c)
      BY <2>0, <2>1, <2>7
      DEF Unsupported, Reject, WallclockError, Stale, Finish, Return, Idle, TypeOK
    <2>8. CASE Dispatch(c)
      <3>1. call'[c].pc = "dedup" /\ UNCHANGED <<dup, exported>>
        BY <2>0, <2>8 DEF Dispatch, CallType, TypeOK
      <3>. QED BY <2>1, <3>1
    <2>9. CASE SinkFails(c) \/ SinkAccepts(c)
      <3>1. call'[c].pc = "sinks" /\ UNCHANGED <<dup, exported>>
        BY <2>0, <2>9 DEF SinkFails, SinkAccepts, CallType, TypeOK
      <3>. QED BY <2>1, <3>1
    <2>. QED BY <1>4, <2>3, <2>4, <2>5, <2>6, <2>7, <2>8, <2>9 DEF Step
  <1>. QED
    BY <1>1, <1>2, <1>3, <1>4 DEF Next, syncClockDrift, PrintSummary, vars

(***************************************************************************)
(* Two calls that export the same key claimed it more than its lifetime    *)
(* apart, for every kind of event and whatever the lifetimes are: this     *)
(* rests on GetOrSet alone and not on WindowAssumption.                    *)
(***************************************************************************)
THEOREM RepetitionsAreSpaced == Spec => []SpacedApart
  <1>1. Init => Spacing
    BY DEF Init, Spacing, Holds, SpacedApart, Idle
  <1>2. TypeOK /\ Spacing /\ [Next]_vars => Spacing'
    BY SpacingInductive
  <1>3. Spacing => SpacedApart
    BY DEF Spacing
  <1>. QED BY <1>1, <1>2, <1>3, TypeCorrect, PTL DEF Spec

-----------------------------------------------------------------------------
(* The event e, claimed at tick t, was at most MaxSlotAge slots old then. *)
YoungAt(e, t) == SlotAt(t) <= RealSlot(e) + MaxSlotAge

(* The cutoff of e has a slot to go by: its own, or one that it was given. *)
Aged(e, slot) == KindOf(e).cutoff # "none" /\ ReadsClock(e, slot)

(***************************************************************************)
(* The inductive invariant behind FreshWhenClaimed: a call keeps the slot  *)
(* its event names, its claim is past, and once it passed the cutoff its   *)
(* event was young at the claim.                                           *)
(***************************************************************************)
Youth ==
    /\ \A c \in Callers :
          call[c].pc \in {"dedup", "age", "export"} /\ call[c].ev.slot # 0 =>
              call[c].slot = call[c].ev.slot
    /\ \A c \in Callers : Holds(c) => call[c].claimed \in 0..now
    /\ \A c \in Callers : call[c].pc = "export" /\ Aged(call[c].ev, call[c].slot) =>
          YoungAt(call[c].ev, call[c].claimed)
    /\ FreshWhenClaimed

\* The slot an aged call goes by is the one its block has.
LEMMA AgedSlot ==
    ASSUME TypeOK, CallSlot, NEW c \in Callers, call[c].pc \in {"age", "export"},
           Aged(call[c].ev, call[c].slot)
    PROVE  call[c].ev \in Handled /\ call[c].slot = RealSlot(call[c].ev)
  <1>1. call[c].ev \in Handled BY HandledEvents
  <1>2. KindOf(call[c].ev).resolve = "use" => KindOf(call[c].ev).cutoff = "known"
    BY <1>1, KindFacts DEF KindOf, Handled, Supported
  <1>. QED BY <1>1, <1>2 DEF CallSlot, Aged, ReadsClock

\* Resolve keeps a slot that the event names.
LEMMA ResolveKeepsSlot ==
    ASSUME NEW e, e.slot # 0
    PROVE  Resolve(blockSlots, e.root, e.slot, now).slot = e.slot
  BY DEF Resolve

\* Every step keeps Youth.
LEMMA YouthInductive ==
    ASSUME TypeOK, CallSlot, Youth, [Next]_vars
    PROVE  Youth'
  <1>. USE DEF Youth
  <1>0. now \in Nat BY DEF TypeOK
  <1>1. CASE UNCHANGED <<call, now, exported>>
    BY <1>1 DEF Holds, Aged, YoungAt, FreshWhenClaimed
  <1>2. CASE Tick
    <2>1. now' = now + 1 /\ UNCHANGED <<call, exported>>
      BY <1>2 DEF Tick
    <2>2. \A t \in 0..now : t \in 0..now' BY <1>0, <2>1
    <2>. QED BY <2>1, <2>2 DEF Holds, Aged, YoungAt, FreshWhenClaimed
  <1>3. ASSUME NEW c \in Callers, NEW e \in Events, HandleRawEvent(c, e) PROVE Youth'
    <2>1. /\ call'[c].pc = "dispatch" /\ UNCHANGED <<now, exported>>
          /\ \A d \in Callers \ {c} : call'[d] = call[d]
      BY <1>3 DEF HandleRawEvent, TypeOK
    <2>. QED BY <2>1 DEF Holds, Aged, YoungAt, FreshWhenClaimed
  <1>4. ASSUME NEW c \in Callers, Step(c) PROVE Youth'
    <2>. DEFINE e == call[c].ev
    <2>0. /\ call[c] \in CallType /\ UNCHANGED now
          /\ \A d \in Callers \ {c} : call'[d] = call[d]
      BY <1>4, StepFrame
    <2>1. CASE call'[c].pc \notin {"dedup", "age", "export"} /\ UNCHANGED exported
      BY <2>0, <2>1 DEF Holds, Aged, YoungAt, FreshWhenClaimed
    <2>2. CASE Dispatch(c)
      <3>1. /\ call'[c].pc = "dedup" /\ call'[c].ev = e /\ UNCHANGED exported
            /\ e.slot # 0 => call'[c].slot = e.slot
        BY <2>0, <2>2, ResolveKeepsSlot DEF Dispatch, CallType, TypeOK
      <3>. QED BY <2>0, <3>1 DEF Holds, Aged, YoungAt, FreshWhenClaimed
    <2>3. CASE Claim(c)
      <3>1. call[c].pc = "dedup" /\ Claimed(c) /\ UNCHANGED exported
        BY <2>3 DEF Claim
      <3>2. /\ call'[c].pc = IF KindOf(e).cutoff = "none" THEN "export" ELSE "age"
            /\ call'[c].claimed = now /\ call'[c].ev = e /\ call'[c].slot = call[c].slot
        BY <1>0, <2>0, <3>1, ClaimedCall DEF TypeOK, CallOK
      <3>3. ~(call'[c].pc = "export" /\ Aged(call'[c].ev, call'[c].slot))
        BY <3>2 DEF Aged
      <3>4. now \in 0..now BY <1>0
      <3>. QED BY <2>0, <3>1, <3>2, <3>3, <3>4 DEF Holds, Aged, YoungAt, FreshWhenClaimed
    <2>4. CASE Fresh(c)
      <3>1. /\ call[c].pc = "age" /\ ~IsStale(c) /\ UNCHANGED exported
            /\ call'[c].ev = e /\ call'[c].slot = call[c].slot
            /\ call'[c].claimed = call[c].claimed
        BY <2>0, <2>4 DEF Fresh, Goto, CallType, TypeOK
      <3>2. call[c].claimed \in 0..now BY <3>1 DEF Holds
      <3>3. ASSUME Aged(e, call[c].slot) PROVE YoungAt(e, call[c].claimed)
        <4>1. e \in Handled /\ call[c].slot = RealSlot(e)
          BY <3>1, <3>3, AgedSlot
        <4>2. ~Old(RealSlot(e), now)
          BY <1>0, <3>1, <3>3, <4>1, RealSlotType, TooOldIsOld DEF IsStale, Aged
        <4>3. ~Old(RealSlot(e), call[c].claimed)
          BY <1>0, <3>2, <4>1, <4>2, RealSlotType, OldStays
        <4>4. SlotAt(call[c].claimed) \in Nat /\ RealSlot(e) \in Nat
          BY <3>2, <4>1, SlotAtType, RealSlotType
        <4>. QED BY <4>3, <4>4, EventTypesAssumption DEF Old, YoungAt
      <3>. QED BY <2>0, <3>1, <3>2, <3>3 DEF Holds, Aged, YoungAt, FreshWhenClaimed
    <2>5. CASE Export(c)
      <3>1. call[c].pc = "export" /\ call'[c].pc = "sinks"
        BY <2>0, <2>5 DEF Export, Goto, CallType, TypeOK
      <3>2. PICK timed \in BOOLEAN : exported' = exported \cup {Decorate(c, timed)}
        BY <2>5 DEF Export
      <3>3. PICK y : y = Decorate(c, timed)
        OBVIOUS
      <3>4. y.ev = e /\ y.claimed = call[c].claimed
        BY <3>3 DEF Decorate
      <3>5. KindOf(e).cutoff # "none" /\ y.data.slot # Unset => ReadsClock(e, call[c].slot)
        <4>1. \/ y.data = AdditionalData(e, call[c].slot)
              \/ y.data = NoAdditionalData
          BY <3>2, <3>3 DEF Decorate
        <4>. QED BY <4>1 DEF AdditionalData, NoAdditionalData
      <3>6. /\ KindOf(e).cutoff # "none"
            /\ KindOf(e).cutoff = "age" \/ e.slot # 0 \/ y.data.slot # Unset
            => Aged(e, call[c].slot)
        BY <3>1, <3>5 DEF Aged, ReadsClock
      <3>7. FreshWhenClaimed'
        BY <3>1, <3>2, <3>3, <3>4, <3>6 DEF FreshWhenClaimed, YoungAt
      <3>. QED BY <2>0, <3>1, <3>7 DEF Holds, Aged, YoungAt
    <2>6. CASE Unsupported(c) \/ Reject(c) \/ Duplicate(c) \/ WallclockError(c) \/ Stale(c)
               \/ Finish(c)
      BY <2>0, <2>1, <2>6
      DEF Unsupported, Reject, Duplicate, WallclockError, Stale, Finish, Return, Idle, TypeOK
    <2>7. CASE SinkFails(c) \/ SinkAccepts(c)
      <3>1. call'[c].pc = "sinks" /\ UNCHANGED exported
        BY <2>0, <2>7 DEF SinkFails, SinkAccepts, CallType, TypeOK
      <3>. QED BY <2>1, <3>1
    <2>. QED BY <1>4, <2>2, <2>3, <2>4, <2>5, <2>6, <2>7 DEF Step
  <1>. QED
    BY <1>1, <1>2, <1>3, <1>4 DEF Next, syncClockDrift, PrintSummary, vars

(***************************************************************************)
(* No event whose slot is known is exported if it was too old when it came *)
(* in, by the slot of its block (the age cutoff of ShouldIgnore).          *)
(***************************************************************************)
THEOREM NothingOldIsExported == Spec => []FreshWhenClaimed
  <1>1. Init => Youth
    BY DEF Init, Youth, Holds, FreshWhenClaimed, Idle
  <1>2. TypeOK /\ CallSlot /\ Youth /\ [Next]_vars => Youth'
    BY YouthInductive
  <1>3. Youth => FreshWhenClaimed
    BY DEF Youth
  <1>. QED BY <1>1, <1>2, <1>3, TypeCorrect, SlotsInvariant, PTL DEF Spec

=============================================================================

------------------------ MODULE Exporter_proofs ------------------------
(***************************************************************************)
(* Handler implements Exporter, for every value of the constants.  Beside  *)
(* Ledger of Dedup_proofs the proof needs to know where each call stands:  *)
(* its id is its own, and it has been to exactly the sinks before its      *)
(* position.                                                               *)
(***************************************************************************)
EXTENDS Dedup_proofs, Refinement

(* The id of every call is one that was handed out, and a call's own. *)
OwnIds ==
    /\ \A c \in Callers : call[c].pc # "idle" =>
          call[c].id \in 1..MaxCalls /\ call[c].id < nextId
    /\ \A c, d \in Callers :
          call[c].pc # "idle" /\ call[d].pc # "idle" /\ call[c].id = call[d].id => c = d

(* Only ids that were handed out are exported or offered. *)
UsedIds ==
    /\ nextId >= 1
    /\ \A x \in exported : x.id < nextId
    /\ \A s \in Sinks : \A i \in accepted[s] \cup rejected[s] : i < nextId

(* A call has exported its event iff it is at the sinks, and has offered it *)
(* to exactly the sinks before its position.                                *)
Progress ==
    \A c \in Callers : call[c].pc # "idle" =>
        /\ call[c].pc # "sinks" => call[c].sink = 1
        /\ call[c].pc = "sinks" <=> \E x \in exported : x.id = call[c].id
        /\ \A s \in Sinks :
              call[c].id \in accepted[s] \cup rejected[s] <=> s < call[c].sink

Standing == OwnIds /\ UsedIds /\ Progress

-----------------------------------------------------------------------------
(* The call of c returns, or goes on in front of the sinks; nothing comes out. *)
Inside(c) ==
    /\ UNCHANGED <<exported, accepted, rejected>>
    /\ \/ call'[c] = Idle
       \/ /\ call[c].pc # "sinks" /\ call'[c].pc # "sinks"
          /\ call'[c].sink = call[c].sink

(* The call of c exports its event. *)
ComesOut(c) ==
    /\ call[c].pc = "export" /\ call'[c].pc = "sinks"
    /\ call'[c].sink = call[c].sink
    /\ UNCHANGED <<accepted, rejected>>
    /\ \E x : /\ x.id = call[c].id /\ x.ev = call[c].ev
              /\ exported' = exported \cup {x}

(* The call of c offers its event to the sink at its position. *)
Offers(c) ==
    /\ call[c].pc = "sinks" /\ call'[c].pc = "sinks"
    /\ call[c].sink \in Sinks
    /\ call'[c].sink = call[c].sink + 1
    /\ \/ /\ accepted' = [accepted EXCEPT ![call[c].sink] = @ \cup {call[c].id}]
          /\ UNCHANGED rejected
       \/ /\ rejected' = [rejected EXCEPT ![call[c].sink] = @ \cup {call[c].id}]
          /\ UNCHANGED accepted
    /\ UNCHANGED exported

\* These are the kinds of step a call takes, seen from the sinks.
LEMMA StepKinds ==
    ASSUME TypeOK, NEW c \in Callers, Step(c)
    PROVE  Inside(c) \/ ComesOut(c) \/ Offers(c)
  <1>0. call[c] \in CallType /\ call \in [Callers -> CallType \cup {Idle}]
    BY StepFrame DEF TypeOK
  <1>1. CASE Return(c) /\ UNCHANGED <<exported, accepted, rejected>>
    BY <1>0, <1>1 DEF Return, Inside
  <1>2. CASE /\ call[c].pc # "sinks" /\ UNCHANGED <<exported, accepted, rejected>>
             /\ Dispatch(c) \/ Claimed(c) \/ Goto(c, "export")
    <2>1. call'[c].sink = call[c].sink /\ call'[c].pc # "sinks"
      BY <1>0, <1>2 DEF Dispatch, Claimed, Goto, CallType
    <2>. QED BY <1>2, <2>1 DEF Inside
  <1>3. CASE Export(c)
    <2>1. /\ call[c].pc = "export"
          /\ call'[c].sink = call[c].sink /\ call'[c].pc = "sinks"
          /\ UNCHANGED <<accepted, rejected>>
      BY <1>0, <1>3 DEF Export, Goto, CallType
    <2>2. PICK x : /\ x.id = call[c].id /\ x.ev = call[c].ev
                   /\ exported' = exported \cup {x}
      BY <1>3 DEF Export, Decorate
    <2>. QED BY <2>1, <2>2 DEF ComesOut
  <1>4. CASE SinkFails(c) \/ SinkAccepts(c)
    <2>1. call'[c].sink = call[c].sink + 1 /\ call'[c].pc = call[c].pc
      BY <1>0, <1>4 DEF SinkFails, SinkAccepts, CallType
    <2>. QED BY <1>4, <2>1 DEF SinkFails, SinkAccepts, Offers
  <1>. QED
    BY <1>1, <1>2, <1>3, <1>4
    DEF Step, Unsupported, Dispatch, Reject, Duplicate, Claim, WallclockError,
        Stale, Fresh, Finish

\* Where calls stand is an inductive invariant.
LEMMA StandingInductive ==
    ASSUME TypeOK, Standing, [Next]_vars
    PROVE  Standing'
  <1>. USE DEF Standing
  <1>1. CASE UNCHANGED <<call, nextId, exported, accepted, rejected>>
    BY <1>1 DEF OwnIds, UsedIds, Progress
  <1>2. ASSUME NEW c \in Callers, NEW e \in Events, HandleRawEvent(c, e)
        PROVE  Standing'
    <2>1. /\ nextId \in Nat /\ nextId <= MaxCalls /\ MaxCalls \in Nat
          /\ nextId' = nextId + 1
          /\ call'[c].pc = "dispatch" /\ call'[c].id = nextId /\ call'[c].sink = 1
          /\ \A d \in Callers \ {c} : call'[d] = call[d]
          /\ UNCHANGED <<exported, accepted, rejected>>
      BY <1>2, ConstantsAssumption DEF HandleRawEvent, TypeOK
    <2>2. /\ \A d \in Callers : call[d].pc # "idle" => call[d].id \in Nat /\ call[d].id < nextId
          /\ \A x \in exported : x.id \in Nat /\ x.id < nextId
          /\ \A s \in Sinks : nextId \notin accepted[s] \cup rejected[s]
          /\ nextId >= 1
      BY <2>1 DEF OwnIds, UsedIds, TypeOK, ExportType
    <2>3. OwnIds'
      BY <2>1, <2>2 DEF OwnIds
    <2>4. UsedIds'
      <3>1. \A s \in Sinks : accepted[s] \subseteq Nat /\ rejected[s] \subseteq Nat
        BY DEF TypeOK
      <3>. QED BY <2>1, <2>2, <3>1 DEF UsedIds
    <2>5. \A s \in Sinks : ~(s < 1)
      BY DEF Sinks
    <2>6. Progress'
      BY <2>1, <2>2, <2>5 DEF Progress
    <2>. QED BY <2>3, <2>4, <2>6
  <1>3. ASSUME NEW c \in Callers, Step(c)
        PROVE  Standing'
    <2>1. /\ call[c].pc # "idle" /\ call[c].id \in Nat /\ call[c].sink \in Nat
          /\ UNCHANGED nextId
          /\ \A d \in Callers \ {c} : call'[d] = call[d]
          /\ call'[c].pc # "idle" => call'[c].id = call[c].id
      BY <1>3, StepFrame DEF Idle, CallType, Busy
    <2>2. \A d \in Callers \ {c} : call[d].pc # "idle" => call[d].id # call[c].id
      BY <2>1 DEF OwnIds
    <2>3. OwnIds'
      BY <2>1 DEF OwnIds
    <2>4. CASE Inside(c)
      <3>1. UsedIds' BY <2>1, <2>4 DEF Inside, UsedIds
      <3>2. Progress' BY <2>1, <2>4 DEF Inside, Progress, Idle
      <3>. QED BY <2>3, <3>1, <3>2
    <2>5. CASE ComesOut(c)
      <3>1. PICK x : x.id = call[c].id /\ exported' = exported \cup {x}
        BY <2>5 DEF ComesOut
      <3>2. UsedIds' BY <2>1, <2>5, <3>1 DEF ComesOut, UsedIds, OwnIds
      <3>3. Progress' BY <2>1, <2>2, <2>5, <3>1 DEF ComesOut, Progress
      <3>. QED BY <2>3, <3>2, <3>3
    <2>6. CASE Offers(c)
      <3>. DEFINE n == call[c].sink
                  i == call[c].id
      <3>1. /\ n \in Sinks /\ n \in Nat /\ call'[c].sink = n + 1
            /\ call'[c].pc = "sinks" /\ call[c].pc = "sinks" /\ UNCHANGED exported
        BY <2>1, <2>6 DEF Offers
      <3>2. \A s \in Sinks : \A j :
               j \in accepted'[s] \cup rejected'[s]
                   <=> j \in accepted[s] \cup rejected[s] \/ (s = n /\ j = i)
        BY <2>6 DEF Offers, TypeOK
      <3>3. UsedIds' BY <2>1, <3>1, <3>2 DEF UsedIds, OwnIds
      <3>4. \A s \in Sinks : s < n + 1 <=> s < n \/ s = n
        BY <3>1 DEF Sinks
      <3>5. Progress' BY <2>1, <2>2, <3>1, <3>2, <3>4 DEF Progress
      <3>. QED BY <2>3, <3>3, <3>5
    <2>. QED BY <1>3, <2>4, <2>5, <2>6, StepKinds
  <1>. QED
    BY <1>1, <1>2, <1>3 DEF Next, Tick, syncClockDrift, PrintSummary, vars

-----------------------------------------------------------------------------
\* Every step of the pipeline is a step of Exporter or invisible to it.
LEMMA StepRefines ==
    ASSUME TypeOK, Ledger, Standing, [Next]_vars
    PROVE  [Exp!Next]_(Exp!vars)
  <1>1. CASE UNCHANGED <<exported, accepted, rejected>>
    BY <1>1 DEF Exp!vars, Out
  <1>2. ASSUME NEW c \in Callers, ComesOut(c)
        PROVE  Exp!Next
    <2>. DEFINE i == call[c].id
                e == call[c].ev
                r == [id |-> i, key |-> DupKey(e), once |-> Dated(e)]
    <2>1. PICK x : x.id = i /\ x.ev = e /\ exported' = exported \cup {x}
      BY <1>2 DEF ComesOut
    <2>2. call[c].pc = "export" /\ UNCHANGED <<accepted, rejected>>
      BY <1>2 DEF ComesOut
    <2>3. i \in 1..MaxCalls /\ \A y \in exported : y.id # i
      BY <2>2 DEF Standing, OwnIds, Progress
    <2>4. DupKey(e) \in Keys /\ Dated(e) \in BOOLEAN
      BY <2>2, HandledEvents DEF Keys, Dated
    <2>5. Dated(e) => \A y \in exported : Dated(y.ev) => DupKey(y.ev) # DupKey(e)
      BY <2>2 DEF Ledger, OneClaim
    <2>6. Out' = Out \cup {r}
      BY <2>1 DEF Out
    <2>7. \A o \in Out : o.id # i
      BY <2>3 DEF Out
    <2>8. Dated(e) => \A o \in Out : o.once => o.key # DupKey(e)
      BY <2>5 DEF Out
    <2>9. Exp!Export(i, DupKey(e), Dated(e))
      BY <2>2, <2>6, <2>7, <2>8 DEF Exp!Export
    <2>. QED BY <2>3, <2>4, <2>9 DEF Exp!Next
  <1>3. ASSUME NEW c \in Callers, Offers(c)
        PROVE  Exp!Next
    <2>. DEFINE i == call[c].id
                s == call[c].sink
    <2>1. call[c].pc = "sinks" /\ s \in Sinks /\ UNCHANGED exported
      BY <1>3 DEF Offers
    <2>2. /\ i \in 1..MaxCalls
          /\ \E x \in exported : x.id = i
          /\ \A t \in Sinks : i \in accepted[t] \cup rejected[t] <=> t < s
      BY <2>1 DEF Standing, OwnIds, Progress
    <2>3. \E o \in Out : o.id = i
      <3>1. PICK x \in exported : x.id = i
        BY <2>2
      <3>2. [id |-> x.id, key |-> DupKey(x.ev), once |-> Dated(x.ev)] \in Out
        BY DEF Out
      <3>. QED BY <3>1, <3>2
    <2>4. Out' = Out
      BY <2>1 DEF Out
    <2>5. Exp!Offer(i, s)
      BY <1>3, <2>2, <2>3, <2>4 DEF Offers, Exp!Offer, Exp!Offered, Exp!Sinks, Sinks
    <2>. QED BY <2>1, <2>2, <2>5 DEF Exp!Next, Exp!Sinks, Sinks
  <1>. QED
    BY <1>1, <1>2, <1>3, StepKinds
    DEF Next, HandleRawEvent, Tick, syncClockDrift, PrintSummary, vars, Inside

\* Every reachable state has the ledger of claims and knows where calls stand.
LEMMA StandingInvariant == Spec => [](TypeOK /\ Ledger /\ Standing)
  <1>1. Init => Ledger
    BY DEF Init, Ledger, Arrived, EntriesOutlive, KeysSet, OneClaim, AtMostOnce,
           Claimant, Idle, Keys
  <1>2. Init => Standing
    BY DEF Init, Standing, OwnIds, UsedIds, Progress, Idle
  <1>3. TypeOK /\ CallSlot /\ Ledger /\ [Next]_vars => Ledger'
    BY LedgerInductive
  <1>4. TypeOK /\ Standing /\ [Next]_vars => Standing'
    BY StandingInductive
  <1>. QED BY <1>1, <1>2, <1>3, <1>4, TypeCorrect, SlotsInvariant, PTL DEF Spec

(***************************************************************************)
(* The pipeline implements Exporter: for any callers, events, lifetimes    *)
(* and sinks, what HandleRawEvent lets out and offers to the sinks is what *)
(* the abstract exporter could have done.                                  *)
(***************************************************************************)
THEOREM HandlerImplementsExporter == Spec => ImplementsExporter
  <1>1. Init => Exp!Init
    BY DEF Init, Exp!Init, Exp!Sinks, Sinks, Out
  <1>2. TypeOK /\ Ledger /\ Standing /\ [Next]_vars => [Exp!Next]_(Exp!vars)
    BY StepRefines
  <1>. QED
    BY <1>1, <1>2, StandingInvariant, PTL DEF Spec, ImplementsExporter, Exp!Spec

=============================================================================

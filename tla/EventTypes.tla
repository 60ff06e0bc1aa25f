--------------------------- MODULE EventTypes ---------------------------
(***************************************************************************)
(* The thirteen event types of pkg/event/gossipsub.  The types run the     *)
(* same three steps (New..., ShouldIgnore, Decorate) and differ only in    *)
(* what the descriptor of a type records:                                  *)
(*                                                                         *)
(*   name        the Event.Name of the decorated event                     *)
(*   cache       the duplicate cache NewHandler's DuplicateCache gives it  *)
(*   ttl         the lifetime of that cache's entries                      *)
(*   key         "hash": the key is the hash of the whole raw event, its   *)
(*               timestamp included; "column": block root and column index *)
(*   enums       ShouldIgnore validates enum fields before the cache       *)
(*   cutoff      "age": always compared with the wallclock; "known": only  *)
(*               when the slot is known (isStaleSlot); "none": never       *)
(*   resolve     "no": the block slot cache is not used; "record": the     *)
(*               event's slot is recorded there and the result discarded;  *)
(*               "use": the event takes the slot Resolve returns           *)
(*   propagation whether the decorated event carries Propagation           *)
(*   votes       whether it carries a source and a target epoch            *)
(*                                                                         *)
(* An event is a record with its type, block root, column, slot, client    *)
(* timestamp ts (ticks), source and target epoch, and shape: "ok",         *)
(* "badJSON" (json.Unmarshal fails) or "badEnum" (an unknown enum value).  *)
(* Fields a type does not have hold NoRoot or 0.  Peers, topics, message   *)
(* ids and the other payload fields are copied through and left out.       *)
(***************************************************************************)
EXTENDS Wallclock, Caches

CONSTANTS
    MaxSlotAge,       \* 16: maxPartialSlotAge and the literal of the others
    NanosPerMilli     \* 10^6

ASSUME EventTypesAssumption ==
    /\ MaxSlotAge \in Nat
    /\ NanosPerMilli \in Nat \ {0}

\* Mutant: the block's case of HandleRawEvent does not call blockSlots.Resolve.
UnrecordedBlock ==
    [name |-> "LIBP2P_TRACE_GOSSIPSUB_BEACON_BLOCK",
     cache |-> "GossipsubBeaconBlock", ttl |-> "consensus", key |-> "hash",
     enums |-> FALSE, cutoff |-> "age", resolve |-> "no",
     propagation |-> TRUE, votes |-> FALSE]

BeaconBlock ==
    [name |-> "LIBP2P_TRACE_GOSSIPSUB_BEACON_BLOCK",
     cache |-> "GossipsubBeaconBlock", ttl |-> "consensus", key |-> "hash",
     enums |-> FALSE, cutoff |-> "age", resolve |-> "record",
     propagation |-> TRUE, votes |-> FALSE]

Attestation ==
    [name |-> "LIBP2P_TRACE_GOSSIPSUB_BEACON_ATTESTATION",
     cache |-> "GossipsubAttestation", ttl |-> "consensus", key |-> "hash",
     enums |-> FALSE, cutoff |-> "age", resolve |-> "no",
     propagation |-> TRUE, votes |-> TRUE]

AggregateAndProof ==
    [name |-> "LIBP2P_TRACE_GOSSIPSUB_AGGREGATE_AND_PROOF",
     cache |-> "GossipsubAggregateAndProof", ttl |-> "consensus", key |-> "hash",
     enums |-> FALSE, cutoff |-> "age", resolve |-> "no",
     propagation |-> TRUE, votes |-> FALSE]

BlobSidecar ==
    [name |-> "LIBP2P_TRACE_GOSSIPSUB_BLOB_SIDECAR",
     cache |-> "GossipsubBlobSidecar", ttl |-> "consensus", key |-> "hash",
     enums |-> FALSE, cutoff |-> "age", resolve |-> "no",
     propagation |-> TRUE, votes |-> FALSE]

DataColumnSidecar ==
    [name |-> "LIBP2P_TRACE_GOSSIPSUB_DATA_COLUMN_SIDECAR",
     cache |-> "GossipsubDataColumnSidecar", ttl |-> "consensus", key |-> "hash",
     enums |-> FALSE, cutoff |-> "age", resolve |-> "record",
     propagation |-> TRUE, votes |-> FALSE]

\* Shares its cache and its event name with DataColumnSidecar.  The hash covers
\* the Go type of the raw event, so keys of the two types never meet.
DataColumnSidecarGloas ==
    [name |-> "LIBP2P_TRACE_GOSSIPSUB_DATA_COLUMN_SIDECAR",
     cache |-> "GossipsubDataColumnSidecar", ttl |-> "consensus", key |-> "hash",
     enums |-> FALSE, cutoff |-> "age", resolve |-> "record",
     propagation |-> TRUE, votes |-> FALSE]

ExecutionPayloadEnvelope ==
    [name |-> "LIBP2P_TRACE_GOSSIPSUB_EXECUTION_PAYLOAD_ENVELOPE",
     cache |-> "GossipsubExecutionPayloadEnvelope", ttl |-> "consensus", key |-> "hash",
     enums |-> FALSE, cutoff |-> "age", resolve |-> "no",
     propagation |-> TRUE, votes |-> FALSE]

\* Mutant: the bids' cache is built with the lifetime of the partial caches.
ShortLivedBid ==
    [name |-> "LIBP2P_TRACE_GOSSIPSUB_EXECUTION_PAYLOAD_BID",
     cache |-> "GossipsubExecutionPayloadBid", ttl |-> "partial", key |-> "hash",
     enums |-> FALSE, cutoff |-> "age", resolve |-> "no",
     propagation |-> TRUE, votes |-> FALSE]

ExecutionPayloadBid ==
    [name |-> "LIBP2P_TRACE_GOSSIPSUB_EXECUTION_PAYLOAD_BID",
     cache |-> "GossipsubExecutionPayloadBid", ttl |-> "consensus", key |-> "hash",
     enums |-> FALSE, cutoff |-> "age", resolve |-> "no",
     propagation |-> TRUE, votes |-> FALSE]

PayloadAttestationMessage ==
    [name |-> "LIBP2P_TRACE_GOSSIPSUB_PAYLOAD_ATTESTATION_MESSAGE",
     cache |-> "GossipsubPayloadAttestationMessage", ttl |-> "consensus", key |-> "hash",
     enums |-> FALSE, cutoff |-> "age", resolve |-> "no",
     propagation |-> TRUE, votes |-> FALSE]

ProposerPreferences ==
    [name |-> "LIBP2P_TRACE_GOSSIPSUB_PROPOSER_PREFERENCES",
     cache |-> "GossipsubProposerPreferences", ttl |-> "consensus", key |-> "hash",
     enums |-> FALSE, cutoff |-> "none", resolve |-> "no",
     propagation |-> TRUE, votes |-> FALSE]

PartialDataColumn ==
    [name |-> "LIBP2P_TRACE_GOSSIPSUB_PARTIAL_DATA_COLUMN",
     cache |-> "GossipsubPartialDataColumn", ttl |-> "partial", key |-> "hash",
     enums |-> TRUE, cutoff |-> "known", resolve |-> "use",
     propagation |-> TRUE, votes |-> FALSE]

DataColumnCompleted ==
    [name |-> "LIBP2P_TRACE_DATA_COLUMN_COMPLETED",
     cache |-> "DataColumnCompleted", ttl |-> "consensus", key |-> "column",
     enums |-> TRUE, cutoff |-> "known", resolve |-> "record",
     propagation |-> TRUE, votes |-> FALSE]

PartialDataColumnOutcome ==
    [name |-> "LIBP2P_TRACE_GOSSIPSUB_PARTIAL_DATA_COLUMN_OUTCOME",
     cache |-> "GossipsubPartialDataColumnOutcome", ttl |-> "partial", key |-> "hash",
     enums |-> TRUE, cutoff |-> "known", resolve |-> "use",
     propagation |-> FALSE, votes |-> FALSE]

\* The switch of HandleRawEvent: the event types it knows and what serves each.
Kind ==
    [BEACON_BLOCK |-> BeaconBlock,
     ATTESTATION |-> Attestation,
     AGGREGATE_AND_PROOF |-> AggregateAndProof,
     BLOB_SIDECAR |-> BlobSidecar,
     DATA_COLUMN_SIDECAR |-> DataColumnSidecar,
     DATA_COLUMN_SIDECAR_GLOAS |-> DataColumnSidecarGloas,
     EXECUTION_PAYLOAD_ENVELOPE |-> ExecutionPayloadEnvelope,
     EXECUTION_PAYLOAD_BID |-> ExecutionPayloadBid,
     PAYLOAD_ATTESTATION_MESSAGE |-> PayloadAttestationMessage,
     PROPOSER_PREFERENCES |-> ProposerPreferences,
     PARTIAL_DATA_COLUMN |-> PartialDataColumn,
     DATA_COLUMN_COMPLETED |-> DataColumnCompleted,
     PARTIAL_DATA_COLUMN_OUTCOME |-> PartialDataColumnOutcome]

KindOf(e) == Kind[e.type]

Supported(e) == e.type \in DOMAIN Kind

\* Mutant: every cache gets the lifetime of the partial ones.
TTLTooShort(e) == PartialTTL

\* The lifetime NewDuplicateCache gives the entries of e's cache.
TTL(e) == IF KindOf(e).ttl = "partial" THEN PartialTTL ELSE ConsensusTTL

\* What ShouldIgnore looks up, and in which cache.
DupKey(e) ==
    IF KindOf(e).key = "column"
    THEN <<KindOf(e).cache, e.root, e.column>>
    ELSE <<KindOf(e).cache, e>>

\* validateEnum fails on one of the enum fields of e.
Malformed(e) == KindOf(e).enums /\ e.shape = "badEnum"

-----------------------------------------------------------------------------
\* Mutant: the cutoff without its guard against unsigned underflow, on a
\* machine word of 2^16.
TooOldUnguarded(slot, t) == slot < (SlotAt(t) - MaxSlotAge) % 2^16

\* The age cutoff: more than MaxSlotAge slots behind the slot of tick t.
TooOld(slot, t) ==
    /\ SlotAt(t) >= MaxSlotAge
    /\ slot < SlotAt(t) - MaxSlotAge

\* Whether ShouldIgnore asks the wallclock at all (isStaleSlot returns early
\* on slot 0, which stands for "unknown").
ReadsClock(e, slot) == KindOf(e).cutoff = "age" \/ slot # 0

-----------------------------------------------------------------------------
\* Mutant: the sign of the drift is kept.
clockDriftMillisSigned(d) ==
    IF d >= 0 THEN d \div NanosPerMilli ELSE -((-d) \div NanosPerMilli)

\* clockDriftMillis: Duration.Milliseconds truncates towards zero, and the
\* sign is dropped because ClientMeta.clock_drift is unsigned.
clockDriftMillis(d) ==
    LET ms == IF d >= 0 THEN d \div NanosPerMilli
                        ELSE -((-d) \div NanosPerMilli)
    IN  IF ms < 0 THEN -ms ELSE ms

Unset == -1    \* an optional field of the decorated event that is left nil

\* Propagation: how long after the start of its slot the client saw the
\* event, on the client's own clock, and zero when it was early.
SlotStartDiff(slot, ts) ==
    IF ts < SlotStart(slot) THEN 0 ELSE ts - SlotStart(slot)

\* What getAdditionalData of an attestation exports as the start of its source
\* or target epoch n: n is passed to Epochs().FromSlot, which takes a slot.
VoteEpochStart(n) == EpochStart(EpochOf(n))

(***************************************************************************)
(* The additional data of a decorated event (getAdditionalData, or         *)
(* newBlockTiming for the three partial types) once FromTime succeeded:    *)
(* the slot and epoch of the client timestamp, and, unless the slot of a   *)
(* partial type is unknown, the event's own slot, epoch and propagation.   *)
(***************************************************************************)
AdditionalData(e, slot) ==
    LET k == KindOf(e)
        placed == ReadsClock(e, slot) \/ k.cutoff = "none"
    IN  [wallclockSlot  |-> SlotAt(e.ts),
         wallclockEpoch |-> EpochOf(SlotAt(e.ts)),
         slot           |-> IF placed THEN slot ELSE Unset,
         epoch          |-> IF placed THEN EpochOf(slot) ELSE Unset,
         propagation    |-> IF placed /\ k.propagation
                            THEN SlotStartDiff(slot, e.ts) ELSE Unset,
         sourceStart    |-> IF k.votes THEN VoteEpochStart(e.source) ELSE Unset,
         targetStart    |-> IF k.votes THEN VoteEpochStart(e.target) ELSE Unset]

\* FromTime failed: the event is exported without additional data.
NoAdditionalData ==
    [wallclockSlot |-> Unset, wallclockEpoch |-> Unset, slot |-> Unset,
     epoch |-> Unset, propagation |-> Unset,
     sourceStart |-> Unset, targetStart |-> Unset]

=============================================================================

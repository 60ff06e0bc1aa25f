---------------------------- MODULE Wallclock ----------------------------
(***************************************************************************)
(* The beacon chain clock of github.com/ethpandaops/ethwallclock, which    *)
(* the sidecar builds in NewHandler and only ever reads: Now(), FromTime(),*)
(* Slots().FromNumber() and Epochs().FromSlot().  Time is counted in       *)
(* milliseconds ("ticks") since genesis, so genesis is tick 0 and slot 0   *)
(* starts there.  That Now and FromTime may also return an error is a      *)
(* choice of the actions that call them, not of these operators.           *)
(***************************************************************************)
EXTENDS Integers

CONSTANTS
    TicksPerSlot,    \* Ethereum.SecondsPerSlot, in ticks
    SlotsPerEpoch    \* Ethereum.SlotsPerEpoch

ASSUME ChainAssumption ==
    /\ TicksPerSlot \in Nat \ {0}
    /\ SlotsPerEpoch \in Nat \ {0}

\* The slot that contains tick t: the Number() of Now() or FromTime(t).
SlotAt(t) == t \div TicksPerSlot

\* Slots().FromNumber(s).TimeWindow().Start()
SlotStart(s) == s * TicksPerSlot

\* Epochs().FromSlot(s).Number()
EpochOf(s) == s \div SlotsPerEpoch

\* The TimeWindow().Start() of epoch number n.
EpochStart(n) == SlotStart(n * SlotsPerEpoch)

=============================================================================

-------------------------- MODULE MCLifecycle --------------------------
(***************************************************************************)
(* Configurations and batches for model checking Lifecycle.                *)
(***************************************************************************)
EXTENDS Lifecycle, TLC

CONSTANTS c1, c2

OneCaller == {c1}

TwoCallers == {c1, c2}

Symmetry == Permutations(TwoCallers)

Mainnet == [genesis_time |-> 1, seconds_per_slot |-> 12, slots_per_epoch |-> 32,
            network |-> [name |-> "mainnet", id |-> 1]]

Cfg(shape, outputs, ethereum) ==
    [shape |-> shape, outputs |-> outputs, ethereum |-> ethereum]

Good == Cfg("ok", <<"valid", "valid">>, Mainnet)

\* Every way in which Init can take its argument.
AllConfigs ==
    {Good, Cfg("ok", <<"valid", "invalid">>, Mainnet), Cfg("ok", <<"noSink">>, Mainnet)}
        \cup {Cfg(s, <<>>, Mainnet) : s \in Shape}

\* A configuration without the length of a slot.
NoSlotLength == {Cfg("ok", <<"valid">>, [Mainnet EXCEPT !.seconds_per_slot = 0])}

Batch(events) == [shape |-> "ok", events |-> events]

MixedBatches ==
    {Batch(<<"typed", "untyped", "typed">>), [shape |-> "bad", events |-> <<>>]}

OneEvent == {Batch(<<"typed">>)}

GoodOnly == {Good}

=============================================================================

--------------------------- MODULE MCHandler ---------------------------
(***************************************************************************)
(* Small instances of Handler.  One slot is one tick, MaxSlotAge is one or *)
(* two slots and ConsensusTTL the shortest that WindowAssumption allows.   *)
(***************************************************************************)
EXTENDS Handler, TLC

CONSTANTS c1, c2, r1, r2

MCCallers == {c1, c2}
MCRoots == {r1, r2}
MCBlockSlot == r1 :> 1 @@ r2 :> 2
Symmetry == Permutations(MCCallers)

\* An event of the given type for block r (or none), with the given slot.
Ev(type, r, slot, ts) ==
    [type |-> type, root |-> r, column |-> 0, slot |-> slot, ts |-> ts,
     source |-> 0, target |-> 0, shape |-> "ok"]

Block1 == Ev("BEACON_BLOCK", r1, 1, 1)
Block2 == Ev("BEACON_BLOCK", r2, 2, 2)
Completion == Ev("DATA_COLUMN_COMPLETED", r1, 1, 1)
OtherPath == [Completion EXCEPT !.ts = 2]
BadCompletion == [Completion EXCEPT !.shape = "badEnum"]
Part == Ev("PARTIAL_DATA_COLUMN", r1, 0, 1)
RootlessPart == Ev("PARTIAL_DATA_COLUMN", NoRoot, 0, 1)
RootlessOutcome == Ev("PARTIAL_DATA_COLUMN_OUTCOME", NoRoot, 1, 1)
Preferences == Ev("PROPOSER_PREFERENCES", NoRoot, 9, 1)
Vote == [Ev("ATTESTATION", NoRoot, 1, 1) EXCEPT !.target = 1]

\* One event of every type the switch of HandleRawEvent knows.
AllTypes == {Ev(t, IF Kind[t].resolve = "no" THEN NoRoot ELSE r1, 1, 1) : t \in DOMAIN Kind}
OneCaller == {c1}

\* These, with a part that does not know its slot, events without a root,
\* malformed ones and one of a type nobody knows.
EveryEvent ==
    AllTypes \cup {Block1, Part, RootlessPart, RootlessOutcome, BadCompletion,
                  [Block2 EXCEPT !.shape = "badJSON"], Ev("NO_SUCH_TYPE", NoRoot, 0, 0)}

DedupEvents == {Part, Completion, OtherPath, BadCompletion}
Votes == {Vote}
NoDrift == {0}
SlowClock == {-3}
=============================================================================

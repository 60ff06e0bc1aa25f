--------------------------- MODULE Refinement ---------------------------
(***************************************************************************)
(* The pipeline of Handler implements Exporter: what came out is what was  *)
(* exported, marked once where the age cutoff backs the duplicate cache.   *)
(***************************************************************************)
EXTENDS Handler

\* The exported events as Exporter sees them.
Out == {[id |-> x.id, key |-> DupKey(x.ev), once |-> Dated(x.ev)] : x \in exported}

Exp == INSTANCE Exporter WITH
    Ids      <- 1..MaxCalls,
    Keys     <- Keys,
    NumSinks <- NumSinks,
    out      <- Out,
    took     <- accepted,
    refused  <- rejected

(***************************************************************************)
(* Every step of every thread is a step of Exporter or leaves what it sees *)
(* alone, however calls, ticks, drift updates and failing sinks interleave *)
(* (HandleRawEvent, ShouldIgnore, handleNewDecoratedEvent).                *)
(***************************************************************************)
ImplementsExporter == Exp!Spec

=============================================================================

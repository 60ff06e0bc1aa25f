---------------------------- MODULE Exporter ----------------------------
(***************************************************************************)
(* What the event pipeline promises to the sinks, without caches, clocks   *)
(* or threads: events come out one by one; of the ones marked once, only   *)
(* one per key ever does; each that came out is offered to the sinks one   *)
(* after the other in their order, once to each, and a sink's answer is    *)
(* final and costs no other sink the event.                                *)
(***************************************************************************)
EXTENDS Naturals

CONSTANTS
    Ids,       \* the identifiers of exported events
    Keys,      \* the keys by which events are duplicates of each other
    NumSinks   \* how many sinks there are

VARIABLES
    out,       \* the events that came out: id, key, and whether once per key
    took,      \* per sink: the ids of the events it accepted
    refused    \* per sink: the ids of the events it returned an error for

vars == <<out, took, refused>>

Sinks == 1..NumSinks

Offered(i, s) == i \in took[s] \cup refused[s]

Init ==
    /\ out = {}
    /\ took = [s \in Sinks |-> {}]
    /\ refused = [s \in Sinks |-> {}]

\* A new event comes out, under an id of its own.
Export(i, k, once) ==
    /\ \A x \in out : x.id # i
    /\ once => \A x \in out : x.once => x.key # k
    /\ out' = out \cup {[id |-> i, key |-> k, once |-> once]}
    /\ UNCHANGED <<took, refused>>

\* The next sink that has not seen event i is offered it.
Offer(i, s) ==
    /\ \E x \in out : x.id = i
    /\ \A t \in Sinks : Offered(i, t) <=> t < s
    /\ \/ took' = [took EXCEPT ![s] = @ \cup {i}] /\ UNCHANGED refused
       \/ refused' = [refused EXCEPT ![s] = @ \cup {i}] /\ UNCHANGED took
    /\ UNCHANGED out

Next ==
    \/ \E i \in Ids, k \in Keys, once \in BOOLEAN : Export(i, k, once)
    \/ \E i \in Ids, s \in Sinks : Offer(i, s)

Spec == Init /\ [][Next]_vars

=============================================================================

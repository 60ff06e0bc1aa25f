----------------------------- MODULE Config -----------------------------
(***************************************************************************)
(* The configuration: main.go (Config), pkg/processor/config.go.           *)
(*                                                                         *)
(* A configuration is what Init's argument amounts to: no string at all    *)
(* ("nil"), text that yaml.Unmarshal rejects ("bad"), text that leaves the *)
(* pointer nil ("empty"), a document without a processor section           *)
(* ("noProcessor"), or one with it ("ok").  An output is a mark of what    *)
(* output.Config.Validate and output.NewSink say of it; both belong to the *)
(* xatu library.  Log level, NTP server and shipping method get a default  *)
(* when they are left out and tell no two behaviours apart here.           *)
(***************************************************************************)
EXTENDS Integers, Sequences

Shape == {"nil", "bad", "empty", "noProcessor", "ok"}

Output == {"valid", "invalid", "noSink"}

\* All that matters of a name is whether there is one.
Network == [name : {"", "mainnet"}, id : Nat]

Ethereum == [genesis_time : Nat, seconds_per_slot : Nat, slots_per_epoch : Nat,
             network : Network]

ConfigType == [shape : Shape, outputs : Seq(Output), ethereum : Ethereum]

\* No configuration has been read.
NoConfig ==
    [shape |-> "nil", outputs |-> <<>>,
     ethereum |-> [genesis_time |-> 0, seconds_per_slot |-> 0, slots_per_epoch |-> 0,
                   network |-> [name |-> "", id |-> 0]]]

\* Config.Validate: every output is validated, and nothing else.
Validate(c) == \A i \in 1..Len(c.outputs) : c.outputs[i] # "invalid"

\* Network.Validate
NetworkValidate(n) == n.name # "" /\ n.id # 0

\* Ethereum.Validate
EthereumValidate(e) ==
    /\ e.genesis_time # 0
    /\ e.seconds_per_slot # 0
    /\ e.slots_per_epoch # 0
    /\ NetworkValidate(e.network)

\* CreateSinks succeeds: output.NewSink builds a sink for every output.
SinksCreatable(c) == \A i \in 1..Len(c.outputs) : c.outputs[i] # "noSink"

\* CreateSinks: one sink per output, in their order, none of them started.
CreateSinks(c) == [i \in 1..Len(c.outputs) |-> "new"]

\* NewHandler gets past Validate and CreateSinks.
Accepted(c) == Validate(c) /\ SinksCreatable(c)

=============================================================================

------------------------ MODULE Lifecycle_proofs ------------------------
(***************************************************************************)
(* The promises of the C interface, for any number of callers, handlers,   *)
(* configurations and batches.                                             *)
(***************************************************************************)
EXTENDS Lifecycle, SequenceTheorems, TLAPS

\* A batch touches no global, no handler and no other caller's batch.
LEMMA BatchFrame ==
    ASSUME log \in {"nil", "set"}, NEW c \in Callers, BatchCall(c)
    PROVE  /\ ended = "no"
           /\ UNCHANGED <<log, handler, instances, control, history>>
           /\ \/ UNCHANGED ended /\ \E r : call' = [call EXCEPT ![c] = r]
              \/ log = "nil" /\ ended' = "SendEventBatch" /\ UNCHANGED call
  BY DEF BatchCall, SendEventBatch, Refuse, RefusePanics, Skip, HandleRawEvent,
         HandlerPanics, Finish, Recover, Crash, Done, Panics, Continue, At, In

\* The initial configuration is one.
LEMMA NoConfigType == NoConfig \in ConfigType
  <1>1. [name |-> "", id |-> 0] \in Network
    BY DEF Network
  <1>2. NoConfig.ethereum \in Ethereum
    BY <1>1 DEF NoConfig, Ethereum
  <1>3. <<>> \in Seq(Output)
    OBVIOUS
  <1>. QED BY <1>2, <1>3 DEF NoConfig, ConfigType, Shape

\* The lifecycle thread touches no batch.
LEMMA LifecycleFrame ==
    ASSUME InitCall \/ ShutdownCall
    PROVE  /\ ended = "no"
           /\ UNCHANGED call
           /\ ended' \in {"no", "Init", "Start", "Shutdown"}
           /\ log' \in {log, "set"}
  BY DEF InitCall, ShutdownCall, InitRejects, InitPanics, InitParses, NewHandlerFails,
         NewSchedulerFails, NewHandler, Build, StartCrons, CronsFatal, StartSink,
         StartSinkFails, StartSummary, ShutdownPanics, ShutdownNothing, Shutdown,
         StopSink, StopSinkFails, StopScheduler, StopSchedulerFails, StopRest, Doing

-----------------------------------------------------------------------------
(* TypeOK, of the batches and of the rest. *)
CallOK == call \in [Callers -> CallType]

ControlOK ==
    /\ log \in {"nil", "set"}
    /\ handler \in 0..created
    /\ created \in 0..MaxHandlers
    /\ pc \in {"idle", "new", "crons", "start", "stop", "rest"}
    /\ pc = "new" => created < MaxHandlers
    /\ pc \in {"crons", "start", "stop", "rest"} => handler # Nil
    /\ cfg \in ConfigType
    /\ pos \in Nat \ {0}
    /\ ended \in {"no", "Init", "Start", "Shutdown", "SendEventBatch"}
    /\ last \in {"none", "failed", "ready", "down"}
    /\ closed \in {Nil, handler}
    /\ abandoned \subseteq Ids

PartsOK ==
    /\ sinks \in [Ids -> Seq(State)]
    /\ parts \in [Ids -> [Part -> State]]

\* Setting one sink of the current handler leaves the others as they are.
LEMMA SetSink ==
    ASSUME ControlOK, PartsOK, handler # Nil, pos <= Len(sinks[handler]), NEW v \in State,
           sinks' = [sinks EXCEPT ![handler] = [@ EXCEPT ![pos] = v]]
    PROVE  /\ sinks' \in [Ids -> Seq(State)]
           /\ Len(sinks'[handler]) = Len(sinks[handler])
           /\ \A k \in 1..Len(sinks[handler]) :
                 sinks'[handler][k] = IF k = pos THEN v ELSE sinks[handler][k]
           /\ \A i \in Ids \ {handler} : sinks'[i] = sinks[i]
  <1>. DEFINE s == sinks[handler]
              t == [s EXCEPT ![pos] = v]
  <1>1. handler \in Ids
    BY LifecycleAssumption DEF ControlOK, Ids, Nil
  <1>2. s \in Seq(State) /\ pos \in 1..Len(s)
    BY <1>1 DEF ControlOK, PartsOK
  <1>3. /\ t \in Seq(State) /\ Len(t) = Len(s)
        /\ \A k \in 1..Len(s) : t[k] = IF k = pos THEN v ELSE s[k]
    BY <1>2, ExceptSeq
  <1>4. sinks' = [sinks EXCEPT ![handler] = t]
    OBVIOUS
  <1>. HIDE DEF t
  <1>. QED BY <1>1, <1>3, <1>4 DEF PartsOK

\* Nor does setting parts of it.
LEMMA SetPart ==
    ASSUME ControlOK, PartsOK, handler # Nil, NEW f \in [Part -> State],
           parts' = [parts EXCEPT ![handler] = f]
    PROVE  /\ parts' \in [Ids -> [Part -> State]]
           /\ parts'[handler] = f
           /\ \A i \in Ids \ {handler} : parts'[i] = parts[i]
  <1>1. handler \in Ids
    BY LifecycleAssumption DEF ControlOK, Ids, Nil
  <1>. QED BY <1>1 DEF PartsOK

\* What NewHandler builds is well typed, and stands beside the other handlers.
LEMMA BuildFacts ==
    ASSUME ControlOK, PartsOK, Build, NEW f \in [Part -> State],
           parts' = [parts EXCEPT ![created + 1] = f]
    PROVE  /\ sinks' \in [Ids -> Seq(State)]
           /\ parts' \in [Ids -> [Part -> State]]
           /\ created + 1 \in Ids
           /\ \A k \in 1..Len(sinks'[created + 1]) : sinks'[created + 1][k] = "new"
           /\ parts'[created + 1] = f
           /\ \A i \in Ids \ {created + 1} : sinks'[i] = sinks[i] /\ parts'[i] = parts[i]
           /\ abandoned' \subseteq Ids
           /\ abandoned \subseteq abandoned'
  <1>1. created + 1 \in Ids
    BY LifecycleAssumption DEF ControlOK, Ids, Build, Doing
  <1>. DEFINE n == Len(cfg.outputs)
              t == [i \in 1..n |-> "new"]
  <1>2. n \in Nat
    BY LenProperties DEF ControlOK, ConfigType
  <1>3. t \in Seq(State) /\ Len(t) = n /\ \A k \in 1..n : t[k] = "new"
    BY <1>2 DEF State
  <1>4. sinks' = [sinks EXCEPT ![created + 1] = t]
    BY DEF Build, CreateSinks
  <1>5. abandoned' \subseteq Ids /\ abandoned \subseteq abandoned'
    BY LifecycleAssumption DEF Build, Abandoned, ControlOK, Ids, Nil
  <1>. HIDE DEF t
  <1>. QED BY <1>1, <1>3, <1>4, <1>5 DEF PartsOK

\* The batches keep their type.
LEMMA CallTypeInductive ==
    ASSUME CallOK, NEW c \in Callers, BatchCall(c)
    PROVE  CallOK'
  <1>1. call[c] \in CallType
    BY DEF CallOK
  <1>2. CASE UNCHANGED call
    BY <1>2 DEF CallOK
  <1>3. ASSUME NEW r \in CallType, call' = [call EXCEPT ![c] = r]
        PROVE  CallOK'
    BY <1>3 DEF CallOK
  <1>4. ASSUME NEW b \in Batches, SendEventBatch(c, b)
        PROVE  \E r \in CallType : call' = [call EXCEPT ![c] = r]
    <2>1. b \in BatchType
      BY LifecycleAssumption
    <2>2. \A p \in {"idle", "refuse", "loop"}, k \in {-2, NoCode} :
             [Idle EXCEPT !.batch = b, !.pc = p, !.code = k] \in CallType
      BY <2>1 DEF Idle, CallType, NoCode
    <2>. QED BY <1>4, <2>2, Zenon DEF SendEventBatch, Continue
  <1>5. ASSUME NEW k \in {-1, 0}, Done(c, k)
        PROVE  \E r \in CallType : call' = [call EXCEPT ![c] = r]
    <2>1. [call[c] EXCEPT !.pc = "idle", !.code = k] \in CallType
      BY <1>1 DEF CallType
    <2>. QED BY <1>5, <2>1 DEF Done, Continue
  <1>6. ASSUME Panics(c)
        PROVE  \E r \in CallType : call' = [call EXCEPT ![c] = r]
    <2>1. [call[c] EXCEPT !.pc = "recover", !.panicked = TRUE] \in CallType
      BY <1>1 DEF CallType
    <2>. QED BY <1>6, <2>1 DEF Panics, Continue
  <1>7. ASSUME Skip(c)
        PROVE  \E r \in CallType : call' = [call EXCEPT ![c] = r]
    <2>1. [call[c] EXCEPT !.pos = @ + 1] \in CallType
      BY <1>1 DEF CallType
    <2>. QED BY <1>7, <2>1 DEF Skip, Continue
  <1>8. ASSUME HandleRawEvent(c)
        PROVE  \E r \in CallType : call' = [call EXCEPT ![c] = r]
    <2>. DEFINE p == call[c].passed \cup {call[c].pos}
    <2>1. p \in SUBSET Nat
      BY <1>1 DEF CallType
    <2>2. call[c].pos + 1 \in Nat
      BY <1>1 DEF CallType
    <2>3. \A n \in Nat, q \in SUBSET Nat :
             [call[c] EXCEPT !.pos = n, !.passed = q] \in CallType
      BY <1>1, Zenon DEF CallType
    <2>. QED BY <1>8, <2>1, <2>2, <2>3, Zenon DEF HandleRawEvent, Continue
  <1>. QED
    BY <1>2, <1>3, <1>4, <1>5, <1>6, <1>7, <1>8
    DEF BatchCall, Refuse, RefusePanics, HandlerPanics, Finish, Recover, Crash

\* Every lifecycle step keeps the type of what it changes.
LEMMA ControlTypeInductive ==
    ASSUME ControlOK, PartsOK, InitCall \/ ShutdownCall
    PROVE  ControlOK' /\ PartsOK'
  <1>0. /\ NoConfig \in ConfigType /\ Built \in [Part -> State]
        /\ [p \in Part |-> IF Built[p] = "running" THEN "running" ELSE "none"]
              \in [Part -> State]
    BY NoConfigType DEF Built, State
  <1>1. ASSUME NEW c \in Configs, InitRejects(c) \/ InitPanics(c) \/ InitParses(c)
        PROVE  ControlOK' /\ PartsOK'
    BY <1>0, <1>1, LifecycleAssumption
    DEF InitRejects, InitPanics, InitParses, Returns, ControlOK, PartsOK, instances,
        control, history, Doing
  <1>2. CASE NewHandlerFails
    BY <1>0, <1>2, LifecycleAssumption
    DEF NewHandlerFails, Returns, ControlOK, PartsOK, instances, Abandoned, Ids, Nil
  <1>3. CASE NewSchedulerFails
    <2>1. PartsOK' /\ created + 1 \in Ids /\ abandoned' \subseteq Ids
      BY <1>0, <1>3, BuildFacts DEF NewSchedulerFails, PartsOK
    <2>. QED
      BY <1>0, <1>3, <2>1 DEF NewSchedulerFails, Build, Returns, ControlOK, Ids, Nil
  <1>4. CASE NewHandler
    <2>1. PartsOK' /\ created + 1 \in Ids /\ abandoned' \subseteq Ids
      BY <1>0, <1>4, BuildFacts DEF NewHandler, PartsOK
    <2>. QED
      BY <1>0, <1>4, <2>1 DEF NewHandler, Build, Goto, ControlOK, Ids, Nil
  <1>5. CASE StartSink \/ StartSinkFails \/ StopSink \/ StopSinkFails
    <2>1. handler # Nil /\ pos <= Len(sinks[handler])
      BY <1>5 DEF StartSink, StartSinkFails, StopSink, StopSinkFails, Doing, ControlOK
    <2>2. PICK v \in State : sinks' = [sinks EXCEPT ![handler] = [@ EXCEPT ![pos] = v]]
      BY <1>5 DEF StartSink, StartSinkFails, StopSink, StopSinkFails, State
    <2>3. UNCHANGED parts
      BY <1>5 DEF StartSink, StartSinkFails, StopSink, StopSinkFails
    <2>4. PartsOK'
      BY <2>1, <2>2, <2>3, SetSink DEF PartsOK
    <2>5. ControlOK'
      BY <1>0, <1>5
      DEF StartSink, StartSinkFails, StopSink, StopSinkFails, Returns, ControlOK, history,
          Doing
    <2>. QED BY <2>4, <2>5
  <1>6. CASE StartCrons \/ StartSummary \/ StopScheduler \/ StopSchedulerFails \/ StopRest
    <2>1. handler # Nil
      BY <1>6
      DEF StartCrons, StartSummary, StopScheduler, StopSchedulerFails, StopRest, Doing,
          ControlOK
    <2>2. parts[handler] \in [Part -> State]
      BY <2>1, LifecycleAssumption DEF ControlOK, PartsOK, Ids, Nil
    <2>3. PICK f \in [Part -> State] : parts' = [parts EXCEPT ![handler] = f]
      BY <1>6, <2>2
      DEF StartCrons, StartSummary, StopScheduler, StopSchedulerFails, StopRest, State, Part
    <2>4. UNCHANGED sinks
      BY <1>6 DEF StartCrons, StartSummary, StopScheduler, StopSchedulerFails, StopRest
    <2>5. PartsOK'
      BY <2>1, <2>3, <2>4, SetPart DEF PartsOK
    <2>6. ControlOK'
      BY <1>0, <1>6, <2>1
      DEF StartCrons, StartSummary, StopScheduler, StopSchedulerFails, StopRest, Returns,
          Goto, ControlOK, history, Doing
    <2>. QED BY <2>5, <2>6
  <1>7. CASE CronsFatal \/ ShutdownPanics \/ ShutdownNothing \/ Shutdown
    BY <1>0, <1>7
    DEF CronsFatal, ShutdownPanics, ShutdownNothing, Shutdown, Returns, Goto, ControlOK,
        PartsOK, instances, control, history, Doing
  <1>. QED
    BY <1>1, <1>2, <1>3, <1>4, <1>5, <1>6, <1>7 DEF InitCall, ShutdownCall

\* Every variable keeps its type (Init, Shutdown and SendEventBatch).
THEOREM TypeCorrect == Spec => []TypeOK
  <1>1. Init => CallOK /\ ControlOK /\ PartsOK
    <2>1. NoConfig \in ConfigType
      BY NoConfigType
    <2>2. Idle \in CallType
      BY DEF Idle, CallType, BatchType, NoCode
    <2>. QED
      BY <2>1, <2>2, LifecycleAssumption
      DEF Init, CallOK, ControlOK, PartsOK, State, Ids, Nil
  <1>2. CallOK /\ ControlOK /\ PartsOK /\ [Next]_vars => CallOK' /\ ControlOK' /\ PartsOK'
    <2>. SUFFICES ASSUME CallOK, ControlOK, PartsOK, [Next]_vars
                  PROVE  CallOK' /\ ControlOK' /\ PartsOK'
      OBVIOUS
    <2>1. CASE InitCall \/ ShutdownCall
      BY <2>1, ControlTypeInductive, LifecycleFrame DEF CallOK
    <2>2. ASSUME NEW c \in Callers, BatchCall(c)
          PROVE  CallOK' /\ ControlOK' /\ PartsOK'
      <3>1. CallOK' BY <2>2, CallTypeInductive
      <3>2. ControlOK' /\ PartsOK'
        BY <2>2, BatchFrame DEF ControlOK, PartsOK, instances, control, history
      <3>. QED BY <3>1, <3>2
    <2>3. CASE UNCHANGED vars
      BY <2>3 DEF vars, CallOK, ControlOK, PartsOK
    <2>. QED BY <2>1, <2>2, <2>3 DEF Next
  <1>3. CallOK /\ ControlOK /\ PartsOK => TypeOK
    BY DEF TypeOK, CallOK, ControlOK, PartsOK
  <1>. QED BY <1>1, <1>2, <1>3, PTL DEF Spec

-----------------------------------------------------------------------------
(* How far Start and Stop have come with the current handler. *)
Sink(k) == sinks[handler][k]

Steady ==
    /\ pc = "crons" =>
          /\ \A k \in 1..Len(sinks[handler]) : Sink(k) = "new"
          /\ parts[handler] = Built
    /\ pc = "start" =>
          /\ \A k \in 1..Len(sinks[handler]) :
                Sink(k) = IF k < pos THEN "running" ELSE "new"
          /\ \A p \in Part :
                parts[handler][p] = IF p = "summary" THEN "new" ELSE "running"
    /\ pc = "stop" => \A k \in 1..Len(sinks[handler]) : k < pos => Sink(k) = "stopped"
    /\ pc = "rest" =>
          /\ \A k \in 1..Len(sinks[handler]) : Sink(k) = "stopped"
          /\ parts[handler]["scheduler"] = "stopped"
    /\ closed # Nil => pc \in {"idle", "new"}

(* What the proofs need of the types. *)
Typed == ControlOK /\ PartsOK

Outcome == Steady /\ ReadyMeansRunning /\ CleanShutdown

\* The first steps of Init keep the outcome of the call before, or forget it.
LEMMA BeginInit ==
    ASSUME Typed, Outcome,
           NEW c \in Configs, InitRejects(c) \/ InitPanics(c) \/ InitParses(c)
    PROVE  Outcome'
  BY DEF Outcome, Steady, Sink, ReadyMeansRunning, CleanShutdown, Running, InitRejects,
         InitPanics, InitParses, Returns, instances, control, history, Doing

\* NewHandler and the start of the NTP job.
LEMMA Creation ==
    ASSUME Typed, Outcome,
           NewHandlerFails \/ NewSchedulerFails \/ NewHandler \/ StartCrons \/ CronsFatal
    PROVE  Outcome'
  <1>1. CASE NewHandlerFails \/ NewSchedulerFails
    BY <1>1 DEF Outcome, Steady, ReadyMeansRunning, CleanShutdown, NewHandlerFails,
                NewSchedulerFails, Build, Returns
  <1>2. CASE NewHandler
    <2>1. Built \in [Part -> State]
      BY DEF Built, State
    <2>2. /\ parts'[handler'] = Built /\ pc' = "crons" /\ closed' = Nil
          /\ \A k \in 1..Len(sinks'[handler']) : sinks'[handler'][k] = "new"
      BY <1>2, <2>1, BuildFacts DEF NewHandler, Build, Goto, Typed
    <2>. QED BY <2>2 DEF Outcome, Steady, Sink, ReadyMeansRunning, CleanShutdown
  <1>3. CASE StartCrons
    <2>. DEFINE f == [parts[handler] EXCEPT !["scheduler"] = "running"]
    <2>1. /\ handler # Nil /\ parts[handler] = Built
          /\ \A k \in 1..Len(sinks[handler]) : sinks[handler][k] = "new"
      BY <1>3 DEF StartCrons, Doing, Typed, ControlOK, Outcome, Steady, Sink
    <2>2. /\ f \in [Part -> State]
          /\ \A p \in Part : f[p] = IF p = "summary" THEN "new" ELSE "running"
      BY <2>1 DEF Built, State, Part
    <2>3. parts'[handler] = f
      BY <1>3, <2>1, <2>2, SetPart DEF StartCrons, Typed
    <2>4. /\ pc' = "start" /\ pos' = 1 /\ UNCHANGED <<handler, closed, sinks>> /\ closed = Nil
      BY <1>3 DEF StartCrons, Doing, Goto, history, Outcome, Steady
    <2>. HIDE DEF f
    <2>5. Steady'
      BY <2>1, <2>2, <2>3, <2>4 DEF Steady, Sink
    <2>. QED BY <2>4, <2>5 DEF Outcome, ReadyMeansRunning, CleanShutdown
  <1>4. CASE CronsFatal
    BY <1>4 DEF CronsFatal, Outcome, Steady, Sink, ReadyMeansRunning, CleanShutdown,
                Running, instances, control, history
  <1>. QED BY <1>1, <1>2, <1>3, <1>4

\* The loop of Start, and what follows it.
LEMMA Starting ==
    ASSUME Typed, Outcome, StartSink \/ StartSinkFails \/ StartSummary
    PROVE  Outcome'
  <1>0. handler # Nil /\ pc = "start" /\ closed = Nil /\ UNCHANGED <<handler, closed>>
    BY DEF StartSink, StartSinkFails, StartSummary, Doing, Typed, ControlOK, Outcome, Steady,
           history
  <1>1. CASE StartSink
    <2>1. /\ Len(sinks'[handler]) = Len(sinks[handler])
          /\ \A k \in 1..Len(sinks[handler]) :
                sinks'[handler][k] = IF k = pos THEN "running" ELSE sinks[handler][k]
      BY <1>0, <1>1, SetSink DEF StartSink, Typed, State
    <2>2. pc' = "start" /\ pos' = pos + 1 /\ UNCHANGED parts /\ pos \in Nat
      BY <1>0, <1>1 DEF StartSink, Typed, ControlOK
    <2>3. Steady'
      BY <1>0, <2>1, <2>2 DEF Outcome, Steady, Sink
    <2>. QED BY <1>0, <2>2, <2>3 DEF Outcome, ReadyMeansRunning, CleanShutdown
  <1>2. CASE StartSinkFails
    BY <1>0, <1>2 DEF StartSinkFails, Returns, Outcome, Steady, ReadyMeansRunning,
                      CleanShutdown
  <1>3. CASE StartSummary
    <2>. DEFINE f == [parts[handler] EXCEPT !["summary"] = "running"]
    <2>1. parts[handler] \in [Part -> State]
      BY <1>0, LifecycleAssumption DEF Typed, ControlOK, PartsOK, Ids, Nil
    <2>2. f \in [Part -> State] /\ \A p \in Part : f[p] = "running"
      BY <1>0, <2>1 DEF Outcome, Steady, State, Part
    <2>3. parts'[handler] = f
      BY <1>0, <1>3, <2>2, SetPart DEF StartSummary, Typed
    <2>. HIDE DEF f
    <2>4. sinks[handler] \in Seq(State)
      BY <1>0, LifecycleAssumption DEF Typed, ControlOK, PartsOK, Ids, Nil
    <2>5. \A k \in 1..Len(sinks[handler]) : sinks[handler][k] = "running"
      BY <1>0, <1>3, <2>4 DEF StartSummary, Outcome, Steady, Sink, Typed, ControlOK
    <2>6. pc' = "idle" /\ UNCHANGED sinks
      BY <1>3 DEF StartSummary, Returns
    <2>. QED
      BY <1>0, <2>2, <2>3, <2>5, <2>6
      DEF Outcome, Steady, ReadyMeansRunning, CleanShutdown, Running
  <1>. QED BY <1>1, <1>2, <1>3

\* Shutdown: the loop of Stop, and what follows it.
LEMMA Stopping ==
    ASSUME Typed, Outcome, ShutdownCall
    PROVE  Outcome'
  <1>1. CASE ShutdownPanics
    BY <1>1 DEF ShutdownPanics, Outcome, Steady, Sink, ReadyMeansRunning, CleanShutdown,
                Running, instances, control, history
  <1>2. CASE ShutdownNothing
    BY <1>2 DEF ShutdownNothing, Returns, Doing, Outcome, Steady, Sink, ReadyMeansRunning,
                CleanShutdown, instances, history
  <1>3. CASE Shutdown
    <2>1. pc' = "stop" /\ pos' = 1 /\ closed' = Nil
      BY <1>3 DEF Shutdown, Goto
    <2>. QED BY <2>1 DEF Outcome, Steady, Sink, ReadyMeansRunning, CleanShutdown
  <1>4. CASE StopSink
    <2>0. handler # Nil /\ pc = "stop" /\ closed = Nil /\ UNCHANGED <<handler, closed>>
      BY <1>4 DEF StopSink, Doing, Typed, ControlOK, Outcome, Steady, history
    <2>1. /\ Len(sinks'[handler]) = Len(sinks[handler])
          /\ \A k \in 1..Len(sinks[handler]) :
                sinks'[handler][k] = IF k = pos THEN "stopped" ELSE sinks[handler][k]
      BY <1>4, <2>0, SetSink DEF StopSink, Typed, State
    <2>2. pc' = "stop" /\ pos' = pos + 1 /\ pos \in Nat
      BY <1>4, <2>0 DEF StopSink, Typed, ControlOK
    <2>3. Steady'
      BY <2>0, <2>1, <2>2 DEF Outcome, Steady, Sink
    <2>. QED BY <2>0, <2>2, <2>3 DEF Outcome, ReadyMeansRunning, CleanShutdown
  <1>5. CASE StopSinkFails \/ StopSchedulerFails
    <2>1. pc' = "idle" /\ last' = "down" /\ closed' = Nil
      BY <1>5 DEF StopSinkFails, StopSchedulerFails, Doing, Returns, Outcome, Steady, history
    <2>. QED BY <2>1 DEF Outcome, Steady, ReadyMeansRunning, CleanShutdown
  <1>6. CASE StopScheduler
    <2>. DEFINE f == [parts[handler] EXCEPT !["scheduler"] = "stopped"]
    <2>0. /\ handler # Nil /\ pc = "stop" /\ closed = Nil
          /\ UNCHANGED <<handler, closed, sinks>> /\ pc' = "rest"
      BY <1>6 DEF StopScheduler, Goto, Doing, Typed, ControlOK, Outcome, Steady, history
    <2>1. parts[handler] \in [Part -> State] /\ sinks[handler] \in Seq(State)
      BY <2>0, LifecycleAssumption DEF Typed, ControlOK, PartsOK, Ids, Nil
    <2>2. f \in [Part -> State] /\ f["scheduler"] = "stopped"
      BY <2>1 DEF State, Part
    <2>3. parts'[handler] = f
      BY <1>6, <2>0, <2>2, SetPart DEF StopScheduler, Typed
    <2>. HIDE DEF f
    <2>4. \A k \in 1..Len(sinks[handler]) : sinks[handler][k] = "stopped"
      BY <1>6, <2>0, <2>1 DEF StopScheduler, Outcome, Steady, Sink, Typed, ControlOK
    <2>. QED
      BY <2>0, <2>2, <2>3, <2>4 DEF Outcome, Steady, Sink, ReadyMeansRunning, CleanShutdown
  <1>7. CASE StopRest
    <2>. DEFINE f == [parts[handler] EXCEPT !["wallclock"] = "stopped",
                                            !["blockSlots"] = "stopped"]
    <2>0. /\ handler # Nil /\ pc = "rest" /\ pc' = "idle" /\ last' = "down"
          /\ closed' = handler /\ UNCHANGED <<handler, sinks>>
      BY <1>7 DEF StopRest, Returns, Doing, Typed, ControlOK
    <2>1. parts[handler] \in [Part -> State]
      BY <2>0, LifecycleAssumption DEF Typed, ControlOK, PartsOK, Ids, Nil
    <2>2. /\ f \in [Part -> State]
          /\ f["scheduler"] = "stopped" /\ f["wallclock"] = "stopped"
          /\ f["blockSlots"] = "stopped"
      BY <2>0, <2>1 DEF State, Part, Outcome, Steady
    <2>3. parts'[handler] = f
      BY <1>7, <2>0, <2>2, SetPart DEF StopRest, Typed
    <2>. HIDE DEF f
    <2>. QED
      BY <2>0, <2>2, <2>3 DEF Outcome, Steady, Sink, ReadyMeansRunning, CleanShutdown
  <1>. QED
    BY <1>1, <1>2, <1>3, <1>4, <1>5, <1>6, <1>7 DEF ShutdownCall

\* Type correctness in the form the proofs below use.
LEMMA TypedInvariant == Spec => []Typed
  <1>1. TypeOK => Typed
    BY DEF TypeOK, Typed, ControlOK, PartsOK
  <1>. QED BY <1>1, TypeCorrect, PTL

\* A step that is not one of the lifecycle thread leaves its state alone.
LEMMA OtherSteps ==
    ASSUME Typed, [Next]_vars, ~(InitCall \/ ShutdownCall)
    PROVE  UNCHANGED <<log, handler, instances, control, history>>
  <1>1. ASSUME NEW c \in Callers, BatchCall(c)
        PROVE  UNCHANGED <<log, handler, instances, control, history>>
    BY <1>1, BatchFrame DEF Typed, ControlOK
  <1>. QED
    BY <1>1 DEF Next, vars, instances, control, history

\* The outcome of the last lifecycle call is an inductive invariant.
LEMMA OutcomeInvariant == Spec => []Outcome
  <1>1. Init => Outcome
    BY DEF Init, Outcome, Steady, ReadyMeansRunning, CleanShutdown
  <1>2. Typed /\ Outcome /\ [Next]_vars => Outcome'
    <2>. SUFFICES ASSUME Typed, Outcome, [Next]_vars PROVE Outcome'
      OBVIOUS
    <2>1. CASE InitCall
      BY <2>1, BeginInit, Creation, Starting DEF InitCall
    <2>2. CASE ShutdownCall
      BY <2>2, Stopping
    <2>3. CASE UNCHANGED <<log, handler, instances, control, history>>
      BY <2>3 DEF Outcome, Steady, Sink, ReadyMeansRunning, CleanShutdown, Running,
                  instances, control, history
    <2>. QED BY <2>1, <2>2, <2>3, OtherSteps
  <1>. QED BY <1>1, <1>2, TypedInvariant, PTL DEF Spec

(***************************************************************************)
(* When Init has returned 0, everything of the current handler runs, for   *)
(* any number of sinks and whatever calls came before (Init, Start).       *)
(***************************************************************************)
THEOREM ReadyIsRunning == Spec => []ReadyMeansRunning
  <1>1. Outcome => ReadyMeansRunning BY DEF Outcome
  <1>. QED BY <1>1, OutcomeInvariant, PTL

(***************************************************************************)
(* A Shutdown that logged no error has stopped every sink, the scheduler,  *)
(* the wallclock and the block slot cache of its handler (Stop).           *)
(***************************************************************************)
THEOREM ShutdownIsClean == Spec => []CleanShutdown
  <1>1. Outcome => CleanShutdown BY DEF Outcome
  <1>. QED BY <1>1, OutcomeInvariant, PTL

-----------------------------------------------------------------------------
\* A lifecycle step that builds no handler touches the current one only.
LEMMA OnlyCurrent ==
    ASSUME Typed, InitCall \/ ShutdownCall, pc # "new"
    PROVE  /\ UNCHANGED <<handler, created, abandoned>>
           /\ \A i \in 1..created : i # handler => sinks'[i] = sinks[i] /\ parts'[i] = parts[i]
  <1>0. \A i \in 1..created : i \in Ids
    BY LifecycleAssumption DEF Typed, ControlOK, Ids
  <1>1. UNCHANGED <<handler, created, abandoned>>
    BY DEF InitCall, ShutdownCall, InitRejects, InitPanics, InitParses, NewHandlerFails,
           NewSchedulerFails, NewHandler, Build, StartCrons, CronsFatal, StartSink,
           StartSinkFails, StartSummary, ShutdownPanics, ShutdownNothing, Shutdown,
           StopSink, StopSinkFails, StopScheduler, StopSchedulerFails, StopRest, Doing,
           instances, history
  <1>2. \/ UNCHANGED sinks
        \/ \E s : sinks' = [sinks EXCEPT ![handler] = s]
    BY DEF InitCall, ShutdownCall, InitRejects, InitPanics, InitParses, NewHandlerFails,
           NewSchedulerFails, NewHandler, Build, StartCrons, CronsFatal, StartSink,
           StartSinkFails, StartSummary, ShutdownPanics, ShutdownNothing, Shutdown,
           StopSink, StopSinkFails, StopScheduler, StopSchedulerFails, StopRest, Doing,
           instances
  <1>3. \/ UNCHANGED parts
        \/ \E f : parts' = [parts EXCEPT ![handler] = f]
    BY DEF InitCall, ShutdownCall, InitRejects, InitPanics, InitParses, NewHandlerFails,
           NewSchedulerFails, NewHandler, Build, StartCrons, CronsFatal, StartSink,
           StartSinkFails, StartSummary, ShutdownPanics, ShutdownNothing, Shutdown,
           StopSink, StopSinkFails, StopScheduler, StopSchedulerFails, StopRest, Doing,
           instances
  <1>. QED BY <1>0, <1>1, <1>2, <1>3 DEF Typed, PartsOK

\* The other lifecycle steps are the ones of NewHandler.
LEMMA BuildingSteps ==
    ASSUME InitCall \/ ShutdownCall, pc = "new"
    PROVE  NewHandlerFails \/ NewSchedulerFails \/ NewHandler
  BY DEF InitCall, ShutdownCall, InitRejects, InitPanics, InitParses, StartCrons,
         CronsFatal, StartSink, StartSinkFails, StartSummary, ShutdownPanics,
         ShutdownNothing, Shutdown, StopSink, StopSinkFails, StopScheduler,
         StopSchedulerFails, StopRest, Doing

\* A handler that is replaced is inert or abandoned.
LEMMA Replaced ==
    ASSUME Typed, CleanShutdown, handler # Nil, abandoned' = Abandoned
    PROVE  handler \in abandoned' \/ Inert(handler)
  <1>1. CASE closed = handler
    <2>1. "scheduler" \in Part /\ closed # Nil BY <1>1 DEF Part
    <2>. QED BY <2>1 DEF CleanShutdown, Inert
  <1>2. CASE closed # handler
    BY <1>2 DEF Abandoned
  <1>. QED BY <1>1, <1>2

(***************************************************************************)
(* No call loses a handler that still sends: it can be reached through the *)
(* global, or the host replaced it before it was closed (Init, Shutdown).  *)
(***************************************************************************)
THEOREM NothingElseLeaks == Spec => []LeaksOnlyByReinit
  <1>1. Init => LeaksOnlyByReinit
    BY DEF Init, LeaksOnlyByReinit
  <1>2. Typed /\ CleanShutdown /\ LeaksOnlyByReinit /\ [Next]_vars => LeaksOnlyByReinit'
    <2>. SUFFICES ASSUME Typed, CleanShutdown, LeaksOnlyByReinit, [Next]_vars
                  PROVE  LeaksOnlyByReinit'
      OBVIOUS
    <2>1. CASE UNCHANGED <<log, handler, instances, control, history>>
      BY <2>1 DEF LeaksOnlyByReinit, Inert, instances, history
    <2>2. CASE (InitCall \/ ShutdownCall) /\ pc # "new"
      BY <2>2, OnlyCurrent DEF LeaksOnlyByReinit, Inert
    <2>3. CASE NewHandlerFails
      <3>1. /\ UNCHANGED <<created, sinks, parts>> /\ abandoned' = Abandoned
            /\ abandoned \subseteq abandoned'
        BY <2>3 DEF NewHandlerFails, instances, Abandoned
      <3>2. handler # Nil => handler \in abandoned' \/ Inert(handler)
        BY <3>1, Replaced
      <3>3. \A i \in 1..created : i # Nil
        BY DEF Nil
      <3>. QED BY <3>1, <3>2, <3>3 DEF LeaksOnlyByReinit, Inert
    <2>4. CASE NewSchedulerFails \/ NewHandler
      <3>1. PICK f \in [Part -> State] :
              /\ parts' = [parts EXCEPT ![created + 1] = f]
              /\ f["scheduler"] \in {"none", "new"}
        <4>1. Built \in [Part -> State] /\ Built["scheduler"] = "new"
          BY DEF Built, State, Part
        <4>2. [p \in Part |-> IF Built[p] = "running" THEN "running" ELSE "none"]
                 \in [Part -> State]
          BY DEF State
        <4>3. [p \in Part |-> IF Built[p] = "running" THEN "running"
                              ELSE "none"]["scheduler"] = "none"
          BY <4>1 DEF Part
        <4>. QED BY <2>4, <4>1, <4>2, <4>3 DEF NewSchedulerFails, NewHandler
      <3>2. /\ Build /\ created' = created + 1 /\ abandoned' = Abandoned
        BY <2>4 DEF NewSchedulerFails, NewHandler, Build
      <3>0. PICK n : n = created + 1
        OBVIOUS
      <3>3. /\ n \in Ids
            /\ \A k \in 1..Len(sinks'[n]) : sinks'[n][k] = "new"
            /\ parts'[n] = f
            /\ \A i \in Ids \ {n} : sinks'[i] = sinks[i] /\ parts'[i] = parts[i]
            /\ abandoned \subseteq abandoned'
        BY <3>0, <3>1, <3>2, BuildFacts DEF Typed
      <3>4. handler # Nil => handler \in abandoned' \/ Inert(handler)
        BY <3>2, Replaced
      <3>5. Inert(n)'
        BY <3>1, <3>2, <3>3 DEF Inert
      <3>6. \A i \in 1..created : i \in Ids \ {n} /\ i # Nil
        BY <3>0, <3>3, LifecycleAssumption DEF Typed, ControlOK, Ids, Nil
      <3>7. \A i \in 1..created : i \in abandoned' \/ Inert(i)'
        BY <3>3, <3>4, <3>6 DEF LeaksOnlyByReinit, Inert
      <3>8. \A i \in 1..created' : i = n \/ i \in 1..created
        BY <3>0, <3>2, LifecycleAssumption DEF Typed, ControlOK
      <3>9. \A i \in 1..created' : i \in abandoned' \/ Inert(i)'
        BY <3>5, <3>7, <3>8
      <3>. QED BY <3>9 DEF LeaksOnlyByReinit
    <2>. QED BY <2>1, <2>2, <2>3, <2>4, OtherSteps, BuildingSteps
  <1>. QED BY <1>1, <1>2, TypedInvariant, ShutdownIsClean, PTL DEF Spec

(***************************************************************************)
(* However often the library is restarted, a handler that was shut down    *)
(* keeps no more than its duplicate caches' loops and its summary (Stop).  *)
(***************************************************************************)
THEOREM RestartsLeaveLittle == Spec => []LeftBehind
  <1>. DEFINE Little(i) ==
                \/ parts[i]["scheduler"] = "none"
                \/ \A p \in Part : parts[i][p] = "running" => p \in {"duplicateCache", "summary"}
  <1>1. Init => LeftBehind
    BY DEF Init, LeftBehind
  <1>2. Typed /\ CleanShutdown /\ LeftBehind /\ [Next]_vars => LeftBehind'
    <2>. SUFFICES ASSUME Typed, CleanShutdown, LeftBehind, [Next]_vars
                  PROVE  LeftBehind'
      OBVIOUS
    <2>0. \A i \in 1..created : i = handler \/ i \in abandoned \/ Little(i)
      BY DEF LeftBehind
    <2>1. CASE UNCHANGED <<log, handler, instances, control, history>>
      BY <2>1 DEF LeftBehind, instances, history
    <2>2. CASE (InitCall \/ ShutdownCall) /\ pc # "new"
      BY <2>2, OnlyCurrent DEF LeftBehind
    <2>3. ASSUME abandoned' = Abandoned, handler # Nil
          PROVE  handler \in abandoned' \/ Little(handler)
      <3>1. CASE closed = handler
        <4>1. \A p \in {"scheduler", "wallclock", "blockSlots"} :
                 parts[handler][p] = "stopped"
          BY <2>3, <3>1 DEF CleanShutdown
        <4>. QED BY <4>1 DEF Part
      <3>2. CASE closed # handler
        BY <2>3, <3>2 DEF Abandoned
      <3>. QED BY <3>1, <3>2
    <2>4. CASE NewHandlerFails
      <3>1. /\ UNCHANGED <<created, sinks, parts>> /\ abandoned' = Abandoned
            /\ abandoned \subseteq abandoned'
        BY <2>4 DEF NewHandlerFails, instances, Abandoned
      <3>2. \A i \in 1..created : i # Nil
        BY DEF Nil
      <3>3. \A i \in 1..created : i \in abandoned' \/ Little(i)
        BY <2>0, <2>3, <3>1, <3>2
      <3>. QED BY <3>1, <3>3 DEF LeftBehind
    <2>5. CASE NewSchedulerFails \/ NewHandler
      <3>0. PICK n : n = created + 1
        OBVIOUS
      <3>1. PICK f \in [Part -> State] :
              /\ parts' = [parts EXCEPT ![n] = f]
              /\ f["scheduler"] = "none" \/ handler' = n
        <4>1. Built \in [Part -> State] /\ Built["scheduler"] = "new"
          BY DEF Built, State, Part
        <4>2. [p \in Part |-> IF Built[p] = "running" THEN "running" ELSE "none"]
                 \in [Part -> State]
          BY DEF State
        <4>3. [p \in Part |-> IF Built[p] = "running" THEN "running"
                              ELSE "none"]["scheduler"] = "none"
          BY <4>1 DEF Part
        <4>. QED BY <2>5, <3>0, <4>1, <4>2, <4>3 DEF NewSchedulerFails, NewHandler
      <3>2. /\ Build /\ created' = created + 1 /\ abandoned' = Abandoned
        BY <2>5 DEF NewSchedulerFails, NewHandler, Build
      <3>3. /\ n \in Ids /\ parts'[n] = f
            /\ \A i \in Ids \ {n} : parts'[i] = parts[i]
            /\ abandoned \subseteq abandoned'
        BY <3>0, <3>1, <3>2, BuildFacts DEF Typed
      <3>4. \A i \in 1..created : i \in Ids \ {n} /\ i # Nil
        BY <3>0, <3>3, LifecycleAssumption DEF Typed, ControlOK, Ids, Nil
      <3>5. \A i \in 1..created : i \in abandoned' \/ Little(i)'
        BY <2>0, <2>3, <3>2, <3>3, <3>4
      <3>6. n = handler' \/ Little(n)'
        BY <3>1, <3>3
      <3>7. \A i \in 1..created' : i = n \/ i \in 1..created
        BY <3>0, <3>2, LifecycleAssumption DEF Typed, ControlOK
      <3>8. \A i \in 1..created' : i = handler' \/ i \in abandoned' \/ Little(i)'
        BY <3>5, <3>6, <3>7
      <3>. QED BY <3>8 DEF LeftBehind
    <2>. QED BY <2>1, <2>2, <2>4, <2>5, OtherSteps, BuildingSteps
  <1>. QED BY <1>1, <1>2, TypedInvariant, ShutdownIsClean, PTL DEF Spec

-----------------------------------------------------------------------------
(* No step that starts something finds it stopped or failed. *)
Begins ==
    \A i \in 1..created :
        /\ \A k \in 1..Len(sinks[i]) :
              sinks'[i][k] = "running" => sinks[i][k] \in {"new", "running"}
        /\ \A p \in {"scheduler", "summary"} :
              parts'[i][p] = "running" => parts[i][p] \in {"new", "running"}

\* A step that changes nothing, or only the current handler, from Init or Shutdown.
LEMMA CurrentBegins ==
    ASSUME Typed, Outcome, InitCall \/ ShutdownCall, pc # "new"
    PROVE  Begins
  <1>0. \A i \in 1..created : i # handler => sinks'[i] = sinks[i] /\ parts'[i] = parts[i]
    BY OnlyCurrent
  <1>. DEFINE i == handler
              SinksBegin == \A k \in 1..Len(sinks[i]) :
                    sinks'[i][k] = "running" => sinks[i][k] \in {"new", "running"}
              PartsBegin == \A p \in {"scheduler", "summary"} :
                    parts'[i][p] = "running" => parts[i][p] \in {"new", "running"}
  <1>1. SUFFICES SinksBegin /\ PartsBegin
    BY <1>0 DEF Begins
  <1>2. UNCHANGED sinks => SinksBegin OBVIOUS
  <1>3. UNCHANGED parts => PartsBegin OBVIOUS
  <1>4. CASE StartSink
    <2>1. handler # Nil /\ UNCHANGED parts /\ pos \in Nat
      BY <1>4 DEF StartSink, Doing, Typed, ControlOK
    <2>2. \A k \in 1..Len(sinks[i]) :
             sinks'[i][k] = IF k = pos THEN "running" ELSE sinks[i][k]
      BY <1>4, <2>1, SetSink DEF StartSink, Typed, State
    <2>3. \A k \in 1..Len(sinks[i]) : sinks[i][k] = IF k < pos THEN "running" ELSE "new"
      BY <1>4 DEF StartSink, Doing, Outcome, Steady, Sink
    <2>4. SinksBegin BY <2>1, <2>2, <2>3
    <2>. QED BY <1>3, <2>1, <2>4
  <1>5. CASE StartSinkFails \/ StopSink \/ StopSinkFails
    <2>1. handler # Nil /\ UNCHANGED parts /\ pos <= Len(sinks[handler])
      BY <1>5 DEF StartSinkFails, StopSink, StopSinkFails, Doing, Typed, ControlOK
    <2>2. PICK v \in {"unknown", "stopped"} :
             sinks' = [sinks EXCEPT ![handler] = [@ EXCEPT ![pos] = v]]
      BY <1>5 DEF StartSinkFails, StopSink, StopSinkFails
    <2>3. \A k \in 1..Len(sinks[i]) : sinks'[i][k] = IF k = pos THEN v ELSE sinks[i][k]
      BY <2>1, <2>2, SetSink DEF Typed, State
    <2>4. SinksBegin BY <2>3
    <2>. QED BY <1>3, <2>1, <2>4
  <1>6. CASE StartCrons \/ StartSummary \/ StopScheduler \/ StopSchedulerFails \/ StopRest
    <2>1. handler # Nil /\ UNCHANGED sinks
      BY <1>6 DEF StartCrons, StartSummary, StopScheduler, StopSchedulerFails, StopRest,
                  Doing, Typed, ControlOK
    <2>2. handler \in Ids /\ parts \in [Ids -> [Part -> State]]
      BY <2>1, LifecycleAssumption DEF Typed, ControlOK, PartsOK, Ids, Nil
    <2>3. CASE StartCrons
      <3>1. parts[handler] = Built
        BY <2>3 DEF StartCrons, Doing, Outcome, Steady
      <3>2. parts'[i]["summary"] = parts[i]["summary"] /\ parts[i]["scheduler"] = "new"
        BY <2>2, <2>3, <3>1 DEF StartCrons, Built, Part
      <3>. QED BY <1>2, <2>1, <3>2
    <2>4. CASE StartSummary
      <3>1. parts[handler]["summary"] = "new"
        BY <2>4 DEF StartSummary, Doing, Outcome, Steady, Part
      <3>2. parts'[i]["scheduler"] = parts[i]["scheduler"]
        BY <2>2, <2>4 DEF StartSummary, Part
      <3>. QED BY <1>2, <2>1, <3>1, <3>2
    <2>5. CASE StopScheduler \/ StopSchedulerFails \/ StopRest
      <3>1. parts'[i]["summary"] = parts[i]["summary"]
        BY <2>2, <2>5 DEF StopScheduler, StopSchedulerFails, StopRest, Part
      <3>2. parts'[i]["scheduler"] \in {"stopped", "unknown", parts[i]["scheduler"]}
        BY <2>2, <2>5 DEF StopScheduler, StopSchedulerFails, StopRest, Part
      <3>. QED BY <1>2, <2>1, <3>1, <3>2
    <2>. QED BY <1>6, <2>3, <2>4, <2>5
  <1>7. UNCHANGED <<sinks, parts>> => SinksBegin /\ PartsBegin
    BY <1>2, <1>3
  <1>. HIDE DEF SinksBegin, PartsBegin
  <1>. QED
    BY <1>4, <1>5, <1>6, <1>7
    DEF InitCall, ShutdownCall, InitRejects, InitPanics, InitParses, NewHandlerFails,
        NewSchedulerFails, NewHandler, Build, CronsFatal, ShutdownPanics, ShutdownNothing,
        Shutdown, Doing, instances

(***************************************************************************)
(* Nothing that was stopped, or that failed, is started again by any later *)
(* call (Init builds a new handler, Start runs once on each).              *)
(***************************************************************************)
THEOREM NothingRestarts == Spec => NoRestart
  <1>1. Typed /\ Outcome /\ [Next]_vars => [Begins]_vars
    <2>. SUFFICES ASSUME Typed, Outcome, [Next]_vars PROVE Begins
      OBVIOUS
    <2>1. CASE UNCHANGED <<log, handler, instances, control, history>>
      BY <2>1 DEF Begins, instances
    <2>2. CASE (InitCall \/ ShutdownCall) /\ pc # "new"
      BY <2>2, CurrentBegins
    <2>3. CASE NewHandlerFails
      BY <2>3 DEF NewHandlerFails, Begins, instances
    <2>4. CASE NewSchedulerFails \/ NewHandler
      <3>0. PICK n : n = created + 1
        OBVIOUS
      <3>1. PICK f \in [Part -> State] : parts' = [parts EXCEPT ![n] = f]
        <4>1. Built \in [Part -> State]
          BY DEF Built, State
        <4>2. [p \in Part |-> IF Built[p] = "running" THEN "running" ELSE "none"]
                 \in [Part -> State]
          BY DEF State
        <4>. QED BY <2>4, <3>0, <4>1, <4>2 DEF NewSchedulerFails, NewHandler
      <3>2. Build BY <2>4 DEF NewSchedulerFails, NewHandler
      <3>3. \A i \in Ids \ {n} : sinks'[i] = sinks[i] /\ parts'[i] = parts[i]
        BY <3>0, <3>1, <3>2, BuildFacts DEF Typed
      <3>4. \A i \in 1..created : i \in Ids \ {n}
        BY <3>0, LifecycleAssumption DEF Typed, ControlOK, Ids
      <3>. QED BY <3>3, <3>4 DEF Begins
    <2>. QED BY <2>1, <2>2, <2>3, <2>4, OtherSteps, BuildingSteps
  <1>2. [][Begins]_vars => NoRestart
    BY DEF NoRestart, Begins
  <1>. QED BY <1>1, <1>2, TypedInvariant, OutcomeInvariant, PTL DEF Spec

-----------------------------------------------------------------------------
(***************************************************************************)
(* Once Init has been called no batch ends the process (the deferred       *)
(* recover of SendEventBatch, which needs the log).                        *)
(***************************************************************************)
THEOREM BatchesDoNotKill == Spec => []ProcessSurvives
  <1>1. Init => ProcessSurvives
    BY DEF Init, ProcessSurvives
  <1>2. Typed /\ ProcessSurvives /\ [Next]_vars => ProcessSurvives'
    <2>. SUFFICES ASSUME Typed, ProcessSurvives, [Next]_vars PROVE ProcessSurvives'
      OBVIOUS
    <2>1. CASE InitCall \/ ShutdownCall
      BY <2>1, LifecycleFrame DEF ProcessSurvives
    <2>2. ASSUME NEW c \in Callers, BatchCall(c) PROVE ProcessSurvives'
      BY <2>2, BatchFrame DEF ProcessSurvives, Typed, ControlOK
    <2>3. CASE UNCHANGED vars
      BY <2>3 DEF vars, ProcessSurvives
    <2>. QED BY <2>1, <2>2, <2>3 DEF Next
  <1>. QED BY <1>1, <1>2, TypedInvariant, PTL DEF Spec

-----------------------------------------------------------------------------
(* What has been passed on is what has a readable type among the first n. *)
PassedUpTo(r, n) ==
    r.passed = {j \in 1..n : r.batch.events[j] = "typed"}

(* The share of a batch that was passed on: all that lies behind its loop; *)
(* some first part of it at any time; everything once it has returned 0    *)
(* without a panic, and nothing when it was refused.                       *)
Progress(r) ==
    /\ r.pc = "loop" => r.pos \in 1..Len(r.batch.events) + 1 /\ PassedUpTo(r, r.pos - 1)
    /\ r.pc = "refuse" => PassedUpTo(r, 0)
    /\ r.pc = "recover" => /\ r.panicked = TRUE
                           /\ \E n \in 0..Len(r.batch.events) : PassedUpTo(r, n)
    /\ r.pc = "idle" =>
          \E n \in 0..Len(r.batch.events) :
              /\ PassedUpTo(r, n)
              /\ r.code = 0 /\ r.panicked = FALSE => n = Len(r.batch.events)
              /\ r.code < 0 => n = 0

\* Every step of a batch keeps that.
LEMMA ProgressStep ==
    ASSUME CallOK, NEW c \in Callers, Progress(call[c]), BatchCall(c)
    PROVE  Progress(call'[c])
  <1>. DEFINE o == call[c]
              N == Len(o.batch.events)
  <1>0. /\ o \in CallType /\ o.pos \in Nat /\ o.batch.events \in Seq({"typed", "untyped"})
        /\ N \in Nat
    BY DEF CallOK, CallType, BatchType
  <1>00. \A r : call' = [call EXCEPT ![c] = r] => call'[c] = r
    BY DEF CallOK
  <1>1. ASSUME NEW b \in Batches, SendEventBatch(c, b)
        PROVE  Progress(call'[c])
    <2>1. Len(b.events) \in Nat
      BY LifecycleAssumption DEF BatchType
    <2>2. PICK p, k : call'[c] = [Idle EXCEPT !.batch = b, !.pc = p, !.code = k]
                      /\ p \in {"idle", "refuse", "loop"} /\ k \in {-2, NoCode}
      BY <1>00, <1>1, Zenon DEF SendEventBatch, Continue
    <2>3. /\ call'[c].pc # "recover" /\ call'[c].code # 0 /\ call'[c].pos = 1
          /\ call'[c].batch = b /\ call'[c].passed = {}
      BY <2>2 DEF Idle, NoCode
    <2>4. PassedUpTo(call'[c], 0)
      BY <2>3 DEF PassedUpTo
    <2>5. 0 \in 0..Len(b.events) /\ 1 \in 1..Len(b.events) + 1 /\ 1 - 1 = 0
      BY <2>1
    <2>. QED BY <2>3, <2>4, <2>5 DEF Progress
  <1>2. ASSUME Refuse(c) PROVE Progress(call'[c])
    <2>1. call'[c] = [o EXCEPT !.pc = "idle", !.code = -1]
      BY <1>00, <1>2 DEF Refuse, Done, Continue
    <2>2. /\ call'[c].pc = "idle" /\ call'[c].code = -1
          /\ call'[c].batch = o.batch /\ call'[c].passed = o.passed
      BY <1>0, <2>1 DEF CallType
    <2>3. PassedUpTo(o, 0)
      BY <1>2 DEF Refuse, In, Progress
    <2>4. PassedUpTo(call'[c], 0) /\ 0 \in 0..Len(call'[c].batch.events)
      BY <1>0, <2>2, <2>3 DEF PassedUpTo
    <2>. QED BY <2>2, <2>4 DEF Progress
  <1>3. ASSUME Panics(c), o.pc \in {"refuse", "loop"} PROVE Progress(call'[c])
    <2>1. call'[c] = [o EXCEPT !.pc = "recover", !.panicked = TRUE]
      BY <1>00, <1>3 DEF Panics, Continue
    <2>2. /\ call'[c].pc = "recover" /\ call'[c].panicked = TRUE
          /\ call'[c].batch = o.batch /\ call'[c].passed = o.passed
      BY <1>0, <2>1, Zenon DEF CallType
    <2>3. \E n \in 0..N : PassedUpTo(o, n)
      <3>1. CASE o.pc = "refuse"
        BY <1>0, <3>1 DEF Progress
      <3>2. CASE o.pc = "loop"
        <4>1. o.pos - 1 \in 0..N /\ PassedUpTo(o, o.pos - 1)
          BY <1>0, <3>2 DEF Progress
        <4>. QED BY <4>1
      <3>. QED BY <1>3, <3>1, <3>2
    <2>. QED BY <2>2, <2>3 DEF Progress, PassedUpTo
  <1>4. ASSUME Skip(c) PROVE Progress(call'[c])
    <2>1. call'[c] = [o EXCEPT !.pos = @ + 1]
      BY <1>00, <1>4 DEF Skip, Continue
    <2>2. /\ call'[c].pc = "loop" /\ call'[c].pos = o.pos + 1
          /\ call'[c].batch = o.batch /\ call'[c].passed = o.passed
      BY <1>0, <1>4, <2>1 DEF CallType, Skip, At, In
    <2>3. o.pc = "loop" /\ o.batch.events[o.pos] = "untyped" /\ o.pos \in 1..N
      BY <1>0, <1>4 DEF Skip, At, In, Progress
    <2>4. PassedUpTo(o, o.pos - 1)
      BY <2>3 DEF Progress
    <2>5. PassedUpTo(o, o.pos)
      BY <1>0, <2>3, <2>4 DEF PassedUpTo
    <2>6. PassedUpTo(call'[c], call'[c].pos - 1) /\ call'[c].pos \in 1..N + 1
      BY <1>0, <2>2, <2>3, <2>5 DEF PassedUpTo
    <2>. QED BY <2>2, <2>6 DEF Progress
  <1>5. ASSUME HandleRawEvent(c) PROVE Progress(call'[c])
    <2>1. call'[c] = [o EXCEPT !.pos = @ + 1, !.passed = @ \cup {o.pos}]
      BY <1>00, <1>5 DEF HandleRawEvent, Continue
    <2>2. o.pc = "loop" /\ o.batch.events[o.pos] = "typed" /\ o.pos \in 1..N
      BY <1>0, <1>5 DEF HandleRawEvent, At, In, Progress
    <2>3. /\ call'[c].pc = "loop" /\ call'[c].pos = o.pos + 1
          /\ call'[c].batch = o.batch /\ call'[c].passed = o.passed \cup {o.pos}
      BY <1>0, <2>1, <2>2, Zenon DEF CallType
    <2>4. PassedUpTo(o, o.pos - 1)
      BY <2>2 DEF Progress
    <2>5. o.passed \cup {o.pos} = {j \in 1..o.pos : o.batch.events[j] = "typed"}
      BY <1>0, <2>2, <2>4 DEF PassedUpTo
    <2>6. PassedUpTo(call'[c], call'[c].pos - 1) /\ call'[c].pos \in 1..N + 1
      BY <1>0, <2>2, <2>3, <2>5 DEF PassedUpTo
    <2>. QED BY <2>3, <2>6 DEF Progress
  <1>6. ASSUME Finish(c) PROVE Progress(call'[c])
    <2>1. call'[c] = [o EXCEPT !.pc = "idle", !.code = 0]
      BY <1>00, <1>6 DEF Finish, Done, Continue
    <2>2. /\ call'[c].pc = "idle" /\ call'[c].code = 0
          /\ call'[c].batch = o.batch /\ call'[c].passed = o.passed
      BY <1>0, <2>1 DEF CallType
    <2>3. o.pc = "loop" /\ o.pos > N
      BY <1>6 DEF Finish, In
    <2>4. PassedUpTo(o, N)
      <3>1. o.pos \in 1..N + 1 /\ PassedUpTo(o, o.pos - 1)
        BY <2>3 DEF Progress
      <3>2. o.pos - 1 = N
        BY <1>0, <2>3, <3>1
      <3>. QED BY <3>1, <3>2, Zenon
    <2>5. PassedUpTo(call'[c], N) /\ N \in 0..Len(call'[c].batch.events)
      BY <1>0, <2>2, <2>4 DEF PassedUpTo
    <2>. QED BY <2>2, <2>5 DEF Progress
  <1>7. ASSUME Recover(c) PROVE Progress(call'[c])
    <2>1. o.pc = "recover" /\ o.panicked = TRUE /\ \E n \in 0..N : PassedUpTo(o, n)
      BY <1>7 DEF Recover, In, Progress
    <2>2. CASE UNCHANGED call
      BY <2>2
    <2>3. CASE Done(c, 0)
      <3>1. call'[c] = [o EXCEPT !.pc = "idle", !.code = 0]
        BY <1>00, <2>3 DEF Done, Continue
      <3>2. call'[c].pc = "idle" /\ call'[c].panicked = TRUE
        BY <1>0, <2>1, <3>1, Zenon DEF CallType
      <3>3. /\ call'[c].code = 0 /\ call'[c].batch = o.batch
            /\ call'[c].passed = o.passed
        BY <1>0, <3>1 DEF CallType
      <3>. QED BY <2>1, <3>2, <3>3 DEF Progress, PassedUpTo
    <2>. QED BY <1>7, <2>2, <2>3 DEF Recover, Crash
  <1>. QED
    BY <1>1, <1>2, <1>3, <1>4, <1>5, <1>6, <1>7
    DEF BatchCall, RefusePanics, HandlerPanics, At, In

(***************************************************************************)
(* A batch that has returned passed on a first part of its events: all of  *)
(* it if it returned 0 without a panic, none of it if it returned an       *)
(* error; for batches of any length (the loop of SendEventBatch).          *)
(***************************************************************************)
THEOREM EventsAreIsolated == Spec => []BatchIsolation
  <1>. DEFINE Inv == \A c \in Callers : Progress(call[c])
  <1>1. Init => Inv
    <2>1. PassedUpTo(Idle, 0) /\ 0 \in 0..Len(Idle.batch.events) /\ Idle.code = 1
          /\ Idle.pc = "idle"
      BY DEF Idle, NoCode, PassedUpTo
    <2>2. Progress(Idle)
      BY <2>1 DEF Progress
    <2>. QED BY <2>2 DEF Init
  <1>2. CallOK /\ Typed /\ Inv /\ [Next]_vars => Inv'
    <2>. SUFFICES ASSUME CallOK, Typed, Inv, [Next]_vars, NEW d \in Callers
                  PROVE  Progress(call'[d])
      OBVIOUS
    <2>1. CASE UNCHANGED call
      BY <2>1
    <2>2. ASSUME NEW c \in Callers, BatchCall(c)
          PROVE  Progress(call'[d])
      <3>1. c # d => call'[d] = call[d]
        BY <2>2, BatchFrame DEF CallOK, Typed, ControlOK
      <3>2. Progress(call'[c])
        BY <2>2, ProgressStep
      <3>. QED BY <3>1, <3>2
    <2>. QED BY <2>1, <2>2, LifecycleFrame DEF Next, vars
  <1>3. CallOK /\ Inv => BatchIsolation
    <2>. SUFFICES ASSUME CallOK, Inv, NEW c \in Callers, call[c].pc = "idle"
                  PROVE  \E n \in 0..Len(call[c].batch.events) :
                            /\ PassedUpTo(call[c], n)
                            /\ call[c].code = 0 /\ ~call[c].panicked
                                  => n = Len(call[c].batch.events)
                            /\ call[c].code < 0 => n = 0
      BY DEF BatchIsolation, PassedUpTo
    <2>1. ~call[c].panicked => call[c].panicked = FALSE
      BY Zenon DEF CallOK, CallType
    <2>2. Progress(call[c]) OBVIOUS
    <2>. QED BY <2>1, <2>2 DEF Progress
  <1>4. TypeOK => CallOK
    BY DEF TypeOK, CallOK
  <1>. QED BY <1>1, <1>2, <1>3, <1>4, TypeCorrect, TypedInvariant, PTL DEF Spec

=============================================================================

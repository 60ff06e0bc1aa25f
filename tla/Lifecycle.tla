--------------------------- MODULE Lifecycle ---------------------------
(***************************************************************************)
(* The C interface of the sidecar, main.go, with NewHandler, Start and     *)
(* Stop of pkg/processor/handler.go.                                       *)
(*                                                                         *)
(* One thread of the host makes the lifecycle calls Init and Shutdown, in  *)
(* any order and as often as it likes; other threads, the callers, run     *)
(* SendEventBatch at any moment, before, during and after them.  Both      *)
(* sides share the globals log and handler without a lock.  A step is one  *)
(* access to a global or one call into a component that may fail.  What    *)
(* HandleRawEvent does with an event is module Handler; here it is the     *)
(* step that passes the event to the instance handler points to.           *)
(***************************************************************************)
EXTENDS Config

CONSTANTS
    Callers,      \* the host's threads that call SendEventBatch
    Configs,      \* the configurations the host may pass to Init
    Batches,      \* the batches the callers may send
    MaxHandlers   \* bound: how many handlers NewHandler builds

Ids == 1..MaxHandlers

\* The handler global is nil.
Nil == 0

\* An event of a batch whose event_type can be read, or one without.
BatchType == [shape : {"nil", "empty", "bad", "ok"}, events : Seq({"typed", "untyped"})]

ASSUME LifecycleAssumption ==
    /\ MaxHandlers \in Nat
    /\ Configs \subseteq ConfigType
    /\ Batches \subseteq BatchType

VARIABLES
    log,          \* the global log: "nil" until Init sets it
    handler,      \* the global handler: Nil or the id of a handler
    created,      \* how many handlers NewHandler has built
    sinks,        \* per handler: the state of each of its sinks
    parts,        \* per handler: the state of what else it starts and stops
    pc, cfg, pos, \* the lifecycle call in progress, its configuration, its loop
    call,         \* the batch each caller is at
    ended,        \* "no", or the function whose failure ended the process
    last,         \* what the last lifecycle call came to
    closed,       \* the current handler once it was shut down without an error
    abandoned     \* the handlers an Init replaced before they were closed

instances == <<created, sinks, parts>>
control == <<pc, cfg, pos, last>>
history == <<closed, abandoned>>
vars == <<log, handler, created, sinks, parts, pc, cfg, pos,
          call, ended, last, closed, abandoned>>

\* "unknown": what starts or stops it returned an error.
State == {"none", "new", "running", "stopped", "unknown"}

Part == {"scheduler", "wallclock", "blockSlots", "duplicateCache", "summary"}

\* What NewHandler starts: the wallclock and the expiry loops of the caches.
Built ==
    [p \in Part |->
        IF p \in {"wallclock", "blockSlots", "duplicateCache"} THEN "running" ELSE "new"]

NoCode == 1

Idle == [pc |-> "idle", batch |-> [shape |-> "nil", events |-> <<>>], pos |-> 1,
         passed |-> {}, code |-> NoCode, panicked |-> FALSE]

Init ==
    /\ log = "nil"
    /\ handler = Nil
    /\ created = 0
    /\ sinks = [i \in Ids |-> <<>>]
    /\ parts = [i \in Ids |-> [p \in Part |-> "none"]]
    /\ pc = "idle"
    /\ cfg = NoConfig
    /\ pos = 1
    /\ call = [c \in Callers |-> Idle]
    /\ ended = "no"
    /\ last = "none"
    /\ closed = Nil
    /\ abandoned = {}

\* The process lives and its lifecycle thread is at p ("idle": in no call).
Doing(p) == ended = "no" /\ pc = p

\* The process lives and caller c is at p.
In(c, p) == ended = "no" /\ call[c].pc = p

-----------------------------------------------------------------------------
(***************************************************************************)
(* Init.                                                                   *)
(***************************************************************************)

\* The lifecycle call returns and drops its local variables.
Returns(outcome) ==
    /\ pc' = "idle"
    /\ cfg' = NoConfig
    /\ pos' = 1
    /\ last' = outcome

\* The lifecycle call goes on at p, its loop at the first sink.
Goto(p) ==
    /\ pc' = p
    /\ pos' = 1
    /\ UNCHANGED <<cfg, last>>

\* No configuration, or one that does not parse: Init returns -1.
InitRejects(c) ==
    /\ Doing("idle")
    /\ c.shape \in {"nil", "bad"}
    /\ log' = "set"
    /\ Returns("failed")
    /\ UNCHANGED <<handler, instances, call, ended, history>>

\* The document is empty (config.LogLevel) or has no processor section
\* (config.Processor.NTPServer): a nil pointer is dereferenced, and Init has no
\* recover.
InitPanics(c) ==
    /\ Doing("idle")
    /\ c.shape \in {"empty", "noProcessor"}
    /\ log' = "set"
    /\ ended' = "Init"
    /\ UNCHANGED <<handler, instances, control, call, history>>

\* The configuration is parsed and its defaults are filled in.
InitParses(c) ==
    /\ Doing("idle")
    /\ created < MaxHandlers
    /\ c.shape = "ok"
    /\ log' = "set"
    /\ pc' = "new"
    /\ cfg' = c
    /\ UNCHANGED <<handler, instances, pos, last, call, ended, history>>

\* The handlers abandoned once handler is overwritten.
Abandoned == IF handler = closed THEN abandoned ELSE abandoned \cup {handler}

\* NewHandler returned an error of Validate or CreateSinks.
NewHandlerFails ==
    /\ Doing("new")
    /\ ~Accepted(cfg)
    /\ handler' = Nil
    /\ abandoned' = Abandoned
    /\ closed' = Nil
    /\ Returns("failed")
    /\ UNCHANGED <<log, instances, call, ended>>

\* NewHandler builds a handler, whether or not it can return it.
Build ==
    /\ Doing("new")
    /\ Accepted(cfg)
    /\ created' = created + 1
    /\ sinks' = [sinks EXCEPT ![created + 1] = CreateSinks(cfg)]
    /\ abandoned' = Abandoned
    /\ closed' = Nil

\* gocron.NewScheduler failed: the wallclock and the caches it had started run
\* on, and nothing points to them.
NewSchedulerFails ==
    /\ Build
    /\ parts' = [parts EXCEPT ![created + 1] =
                    [p \in Part |-> IF Built[p] = "running" THEN "running" ELSE "none"]]
    /\ handler' = Nil
    /\ Returns("failed")
    /\ UNCHANGED <<log, call, ended>>

\* Mutant: Init builds a handler only if it has none, and starts the one it has.
NewHandlerOnce ==
    /\ \/ /\ handler = Nil
          /\ Build
          /\ parts' = [parts EXCEPT ![created + 1] = Built]
          /\ handler' = created + 1
       \/ /\ handler # Nil
          /\ Doing("new") /\ Accepted(cfg)
          /\ UNCHANGED <<handler, instances, history>>
    /\ Goto("crons")
    /\ UNCHANGED <<log, call, ended>>

\* NewHandler returned a handler, and Init assigns it.
NewHandler ==
    /\ Build
    /\ parts' = [parts EXCEPT ![created + 1] = Built]
    /\ handler' = created + 1
    /\ Goto("crons")
    /\ UNCHANGED <<log, call, ended>>

\* Start: the NTP job is scheduled.
StartCrons ==
    /\ Doing("crons")
    /\ parts' = [parts EXCEPT ![handler] = [@ EXCEPT !["scheduler"] = "running"]]
    /\ Goto("start")
    /\ UNCHANGED <<log, handler, created, sinks, call, ended, history>>

\* Mutant: Start returns the error, and Init sets handler back to nil.
CronsFailAndForget ==
    /\ Doing("crons")
    /\ handler' = Nil
    /\ Returns("failed")
    /\ UNCHANGED <<log, instances, call, ended, history>>

\* Start: scheduling the NTP job failed, and log.Fatal exits.
CronsFatal ==
    /\ Doing("crons")
    /\ ended' = "Start"
    /\ UNCHANGED <<log, handler, instances, control, call, history>>

\* Start: the next sink started.
StartSink ==
    /\ Doing("start")
    /\ pos <= Len(sinks[handler])
    /\ sinks' = [sinks EXCEPT ![handler] = [@ EXCEPT ![pos] = "running"]]
    /\ pos' = pos + 1
    /\ UNCHANGED <<log, handler, created, parts, pc, cfg, last, call, ended, history>>

\* Mutant: Start logs a sink's error and goes on.
StartSinkFailsAndGoesOn ==
    /\ Doing("start")
    /\ pos <= Len(sinks[handler])
    /\ sinks' = [sinks EXCEPT ![handler] = [@ EXCEPT ![pos] = "unknown"]]
    /\ pos' = pos + 1
    /\ UNCHANGED <<log, handler, created, parts, pc, cfg, last, call, ended, history>>

\* Mutant: Init sets handler back to nil when Start fails.
StartSinkFailsAndForgets ==
    /\ Doing("start")
    /\ pos <= Len(sinks[handler])
    /\ sinks' = [sinks EXCEPT ![handler] = [@ EXCEPT ![pos] = "unknown"]]
    /\ handler' = Nil
    /\ Returns("failed")
    /\ UNCHANGED <<log, created, parts, call, ended, history>>

\* Start: the next sink did not start.  Init returns -1 and leaves handler set.
StartSinkFails ==
    /\ Doing("start")
    /\ pos <= Len(sinks[handler])
    /\ sinks' = [sinks EXCEPT ![handler] = [@ EXCEPT ![pos] = "unknown"]]
    /\ Returns("failed")
    /\ UNCHANGED <<log, handler, created, parts, call, ended, history>>

\* Start: every sink runs, the summary's goroutine begins, and Init returns 0.
StartSummary ==
    /\ Doing("start")
    /\ pos > Len(sinks[handler])
    /\ parts' = [parts EXCEPT ![handler] = [@ EXCEPT !["summary"] = "running"]]
    /\ Returns("ready")
    /\ UNCHANGED <<log, handler, created, sinks, call, ended, history>>

-----------------------------------------------------------------------------
(***************************************************************************)
(* Shutdown.                                                               *)
(***************************************************************************)

\* log is nil: log.Info panics, and Shutdown has no recover.
ShutdownPanics ==
    /\ Doing("idle")
    /\ log = "nil"
    /\ ended' = "Shutdown"
    /\ UNCHANGED <<log, handler, instances, control, call, history>>

\* There is no handler to stop.
ShutdownNothing ==
    /\ Doing("idle")
    /\ log = "set"
    /\ handler = Nil
    /\ Returns("down")
    /\ UNCHANGED <<log, handler, instances, call, ended, history>>

\* Mutant: Shutdown does not ask whether there is a handler.
ShutdownUnchecked ==
    /\ Doing("idle")
    /\ log = "set"
    /\ closed' = Nil
    /\ Goto("stop")
    /\ UNCHANGED <<log, handler, instances, call, ended, abandoned>>

\* Stop begins; the global handler keeps pointing to what it stops.
Shutdown ==
    /\ Doing("idle")
    /\ log = "set"
    /\ handler # Nil
    /\ closed' = Nil
    /\ Goto("stop")
    /\ UNCHANGED <<log, handler, instances, call, ended, abandoned>>

\* Stop: the next sink stopped.
StopSink ==
    /\ Doing("stop")
    /\ pos <= Len(sinks[handler])
    /\ sinks' = [sinks EXCEPT ![handler] = [@ EXCEPT ![pos] = "stopped"]]
    /\ pos' = pos + 1
    /\ UNCHANGED <<log, handler, created, parts, pc, cfg, last, call, ended, history>>

\* Mutant: Stop logs a sink's error and goes on, and Shutdown reports success.
StopSinkFailsAndGoesOn ==
    /\ Doing("stop")
    /\ pos <= Len(sinks[handler])
    /\ sinks' = [sinks EXCEPT ![handler] = [@ EXCEPT ![pos] = "unknown"]]
    /\ pos' = pos + 1
    /\ UNCHANGED <<log, handler, created, parts, pc, cfg, last, call, ended, history>>

\* Stop: the next sink did not stop, and Stop returns its error.
StopSinkFails ==
    /\ Doing("stop")
    /\ pos <= Len(sinks[handler])
    /\ sinks' = [sinks EXCEPT ![handler] = [@ EXCEPT ![pos] = "unknown"]]
    /\ Returns("down")
    /\ UNCHANGED <<log, handler, created, parts, call, ended, history>>

\* Stop: the scheduler shut down.
StopScheduler ==
    /\ Doing("stop")
    /\ pos > Len(sinks[handler])
    /\ parts' = [parts EXCEPT ![handler] = [@ EXCEPT !["scheduler"] = "stopped"]]
    /\ Goto("rest")
    /\ UNCHANGED <<log, handler, created, sinks, call, ended, history>>

\* Stop: the scheduler did not shut down, and Stop returns its error.
StopSchedulerFails ==
    /\ Doing("stop")
    /\ pos > Len(sinks[handler])
    /\ parts' = [parts EXCEPT ![handler] = [@ EXCEPT !["scheduler"] = "unknown"]]
    /\ Returns("down")
    /\ UNCHANGED <<log, handler, created, sinks, call, ended, history>>

\* Stop: the wallclock and the block slot cache stop; neither can fail.
StopRest ==
    /\ Doing("rest")
    /\ parts' = [parts EXCEPT ![handler] =
                    [@ EXCEPT !["wallclock"] = "stopped", !["blockSlots"] = "stopped"]]
    /\ closed' = handler
    /\ Returns("down")
    /\ UNCHANGED <<log, handler, created, sinks, call, ended, abandoned>>

-----------------------------------------------------------------------------
(***************************************************************************)
(* SendEventBatch.                                                         *)
(***************************************************************************)

\* Caller c goes on with r; nothing else changes.
Continue(c, r) ==
    /\ call' = [call EXCEPT ![c] = r]
    /\ UNCHANGED <<log, handler, instances, control, ended, history>>

\* The batch of c is over: SendEventBatch returns code.
Done(c, code) == Continue(c, [call[c] EXCEPT !.pc = "idle", !.code = code])

\* The first read of handler, and what is wrong with the argument.
SendEventBatch(c, b) ==
    /\ In(c, "idle")
    /\ Continue(c, [Idle EXCEPT
          !.batch = b,
          !.pc    = IF handler = Nil THEN "refuse" ELSE IF b.shape = "ok" THEN "loop" ELSE "idle",
          !.code  = IF handler # Nil /\ b.shape # "ok" THEN -2 ELSE NoCode])

\* handler was nil: the error is logged, and the batch is refused with -1.
Refuse(c) ==
    /\ In(c, "refuse")
    /\ log = "set"
    /\ Done(c, -1)

\* c panics, and the deferred function will run.
Panics(c) == Continue(c, [call[c] EXCEPT !.pc = "recover", !.panicked = TRUE])

\* handler was nil, and so is log.
RefusePanics(c) ==
    /\ In(c, "refuse")
    /\ log = "nil"
    /\ Panics(c)

\* The batch of c has an event at its position, of this sort.
At(c, sort) ==
    /\ In(c, "loop")
    /\ call[c].pos <= Len(call[c].batch.events)
    /\ call[c].batch.events[call[c].pos] = sort

\* Mutant: an event without a readable type ends the batch.
SkipEnds(c) ==
    /\ At(c, "untyped")
    /\ Done(c, 0)

\* The event's type cannot be read: it is logged and skipped.
Skip(c) ==
    /\ At(c, "untyped")
    /\ Continue(c, [call[c] EXCEPT !.pos = @ + 1])

\* The event goes to the handler the global names now, which may be another one
\* than before; an error it returns is logged, and the loop goes on.
HandleRawEvent(c) ==
    /\ At(c, "typed")
    /\ handler # Nil
    /\ Continue(c, [call[c] EXCEPT !.pos = @ + 1, !.passed = @ \cup {call[c].pos}])

\* HandleRawEvent panics: handler has become nil, or something it calls did.
HandlerPanics(c) ==
    /\ At(c, "typed")
    /\ Panics(c)

\* Every event has been tried: SendEventBatch returns 0.
Finish(c) ==
    /\ In(c, "loop")
    /\ call[c].pos > Len(call[c].batch.events)
    /\ Done(c, 0)

\* The panic ends the process.
Crash(c) ==
    /\ ended' = "SendEventBatch"
    /\ UNCHANGED <<log, handler, instances, control, call, history>>

\* Mutant: the deferred function does not recover.
RecoverMissing(c) ==
    /\ In(c, "recover")
    /\ Crash(c)

\* The deferred function recovers and logs; the result has no name, so that
\* SendEventBatch returns 0.  Without a log the deferred function panics too.
Recover(c) ==
    /\ In(c, "recover")
    /\ IF log = "set" THEN Done(c, 0) ELSE Crash(c)

-----------------------------------------------------------------------------
InitCall ==
    \/ \E c \in Configs : InitRejects(c) \/ InitPanics(c) \/ InitParses(c)
    \/ NewHandlerFails \/ NewSchedulerFails \/ NewHandler
    \/ StartCrons \/ CronsFatal
    \/ StartSink \/ StartSinkFails \/ StartSummary

ShutdownCall ==
    \/ ShutdownPanics \/ ShutdownNothing \/ Shutdown
    \/ StopSink \/ StopSinkFails
    \/ StopScheduler \/ StopSchedulerFails \/ StopRest

BatchCall(c) ==
    \/ \E b \in Batches : SendEventBatch(c, b)
    \/ Refuse(c) \/ RefusePanics(c)
    \/ Skip(c) \/ HandleRawEvent(c) \/ HandlerPanics(c) \/ Finish(c)
    \/ Recover(c)

Next == InitCall \/ ShutdownCall \/ \E c \in Callers : BatchCall(c)

Spec == Init /\ [][Next]_vars

-----------------------------------------------------------------------------
CallType == [pc : {"idle", "refuse", "loop", "recover"}, batch : BatchType, pos : Nat,
             passed : SUBSET Nat, code : {-2, -1, 0, NoCode}, panicked : BOOLEAN]

\* Every variable has its type, and a call that works on a handler has one.
TypeOK ==
    /\ log \in {"nil", "set"}
    /\ handler \in 0..created
    /\ created \in 0..MaxHandlers
    /\ sinks \in [Ids -> Seq(State)]
    /\ parts \in [Ids -> [Part -> State]]
    /\ pc \in {"idle", "new", "crons", "start", "stop", "rest"}
    /\ pc = "new" => created < MaxHandlers
    /\ pc \in {"crons", "start", "stop", "rest"} => handler # Nil
    /\ cfg \in ConfigType
    /\ pos \in Nat \ {0}
    /\ call \in [Callers -> CallType]
    /\ ended \in {"no", "Init", "Start", "Shutdown", "SendEventBatch"}
    /\ last \in {"none", "failed", "ready", "down"}
    /\ closed \in {Nil, handler}
    /\ abandoned \subseteq Ids

\* Every sink and every other part of handler i runs.
Running(i) ==
    /\ \A k \in 1..Len(sinks[i]) : sinks[i][k] = "running"
    /\ \A p \in Part : parts[i][p] = "running"

\* Handler i sends nothing: no sink runs, and the NTP job is not scheduled.
Inert(i) ==
    /\ \A k \in 1..Len(sinks[i]) : sinks[i][k] \in {"new", "stopped"}
    /\ parts[i]["scheduler"] \in {"none", "new", "stopped"}

(***************************************************************************)
(* Once Init has returned 0, and until the next lifecycle call, the        *)
(* handler that batches go to is completely up, whatever handlers earlier  *)
(* calls left half started or half stopped.  (Init, Start.)                *)
(***************************************************************************)
ReadyMeansRunning ==
    pc = "idle" /\ last = "ready" => handler # Nil /\ Running(handler)

(***************************************************************************)
(* After a Shutdown that logged no error the handler has no running sink,  *)
(* scheduler, wallclock or block slot cache, also if it stopped a handler  *)
(* that a failed Init left half started.  (Shutdown, Stop.)                *)
(***************************************************************************)
CleanShutdown ==
    closed # Nil =>
        /\ closed = handler
        /\ \A k \in 1..Len(sinks[handler]) : sinks[handler][k] = "stopped"
        /\ \A p \in {"scheduler", "wallclock", "blockSlots"} :
              parts[handler][p] = "stopped"

(***************************************************************************)
(* A handler that can still send, through a sink or its NTP job, is the    *)
(* one handler points to, so that Shutdown can stop it, or the host has    *)
(* called Init again without a Shutdown that succeeded.  A failed Init, in *)
(* particular, leaves what it had started within reach.  (Init assigns     *)
(* handler before Start, and Shutdown does not reset it.)                  *)
(***************************************************************************)
LeaksOnlyByReinit ==
    \A i \in 1..created : i = handler \/ i \in abandoned \/ Inert(i)

(***************************************************************************)
(* What a restart costs.  Of a handler that is no longer the current one,  *)
(* that NewHandler could return and that the host shut down before it      *)
(* called Init again, nothing runs but the loops of its duplicate caches   *)
(* and its summary, which no Stop ends: that, and no wallclock or block    *)
(* slot cache, is what a host that restarts the library accumulates.       *)
(* (NewHandler, Stop.)                                                     *)
(***************************************************************************)
LeftBehind ==
    \A i \in 1..created :
        \/ i = handler \/ i \in abandoned \/ parts[i]["scheduler"] = "none"
        \/ \A p \in Part : parts[i][p] = "running" => p \in {"duplicateCache", "summary"}

(***************************************************************************)
(* Nothing is started again.  A sink, an NTP job or a summary begins to    *)
(* run only as NewHandler made it: whatever calls fail and follow one      *)
(* another, none of them is started after it was stopped, or after it      *)
(* failed to start or to stop.  (Every Init builds a handler of its own.)  *)
(***************************************************************************)
NoRestart ==
    [][\A i \in 1..created :
          /\ \A k \in 1..Len(sinks[i]) :
                sinks'[i][k] = "running" => sinks[i][k] \in {"new", "running"}
          /\ \A p \in {"scheduler", "summary"} :
                parts'[i][p] = "running" => parts[i][p] \in {"new", "running"}]_vars

(***************************************************************************)
(* A batch never ends the host's process once Init has been called, even   *)
(* if a later Init that fails sets handler to nil between the check at the *)
(* top of SendEventBatch and the loop.  (The deferred recover.)            *)
(***************************************************************************)
ProcessSurvives == ended = "SendEventBatch" => log = "nil"

(***************************************************************************)
(* What a batch passes on.  When SendEventBatch has returned, the events   *)
(* it passed to HandleRawEvent are those with a readable type among its    *)
(* first n: all of the batch if it returned 0 and nothing panicked, none   *)
(* if it returned an error.  A bad event costs no other event, a panic     *)
(* only the ones from it on, whichever handlers came and went.  (The       *)
(* continue statements of the loop, the deferred recover.)                 *)
(***************************************************************************)
BatchIsolation ==
    \A c \in Callers : call[c].pc = "idle" =>
        \E n \in 0..Len(call[c].batch.events) :
            /\ call[c].passed = {j \in 1..n : call[c].batch.events[j] = "typed"}
            /\ call[c].code = 0 /\ ~call[c].panicked => n = Len(call[c].batch.events)
            /\ call[c].code < 0 => n = 0

-----------------------------------------------------------------------------
(***************************************************************************)
(* What comments, messages and the README say of the program and the code  *)
(* does not do.                                                            *)
(***************************************************************************)

\* SendEventBatch: a call without a handler logs "not initialized" and returns
\* -1; it does not end the process.
NotInitialisedReported == ended # "SendEventBatch"

\* "Stop gracefully shuts down the handler": when Shutdown has returned, no sink
\* runs that was never told to stop.
EverySinkStopped ==
    pc = "idle" /\ last = "down" /\ handler # Nil =>
        \A k \in 1..Len(sinks[handler]) : sinks[handler][k] # "running"

\* Ethereum.Validate "checks the Ethereum configuration for errors": no handler
\* is built from a configuration it refuses.
AcceptedIsValid == pc = "crons" => EthereumValidate(cfg.ethereum)

\* NewHandler: a missing configuration is the error "config is required".
MissingConfigReported == ended # "Init"

=============================================================================

------------------------------ MODULE Signals ------------------------------
(***************************************************************************)
(* SignalControl (src/src/runtime.rs) and the run it controls (consume in  *)
(* src/src/app.rs): termination signals against the handoff from Kafka     *)
(* preparation to processing, and against the end of the run. A handler    *)
(* may run on any thread, between any two steps of the main thread and of  *)
(* other handlers, so each of its atomic accesses is a step.               *)
(***************************************************************************)
EXTENDS Integers, FiniteSets

CONSTANT Deliveries  \* the signals the process is sent, each delivered once

ASSUME DeliveriesAssumption == IsFiniteSet(Deliveries)

None == "none"
Startup == "startup"                \* SIGNAL_STARTUP
TermSignals == {"SIGINT", "SIGTERM"}

VARIABLES
    shutdown,  \* the flag the pipeline threads watch
    received,  \* Startup, None after the handoff, or a signal
    handler,   \* where the handler of each delivery is
    sig,       \* the signal it handles
    stopping,  \* what it read in shutdown (already_stopping)
    found,     \* what its swap found in received
    phase,     \* "starting", "processing", "stopped", "leaving" or "exited"
    failed,    \* the pipeline has recorded a failure
    outcome,   \* the result of the run, once it stopped
    status     \* how the process ended: the signal or outcome it reports

vars == <<shutdown, received, handler, sig, stopping, found, phase, failed, outcome, status>>
handlerVars == <<handler, sig, stopping, found>>

Init ==
    /\ shutdown = FALSE
    /\ received = Startup
    /\ handler = [h \in Deliveries |-> "idle"]
    /\ sig = [h \in Deliveries |-> None]
    /\ stopping = [h \in Deliveries |-> FALSE]
    /\ found = [h \in Deliveries |-> None]
    /\ phase = "starting"
    /\ failed = FALSE
    /\ outcome = None
    /\ status = None

Alive == phase # "exited"

ExitWith(reported) ==
    /\ phase' = "exited"
    /\ status' = reported

-----------------------------------------------------------------------------
\* A handler.

\* A signal reaches a registered handler.
Deliver(h, s) ==
    /\ phase \notin {"leaving", "exited"} /\ handler[h] = "idle"
    /\ handler' = [handler EXCEPT ![h] = "entered"]
    /\ sig' = [sig EXCEPT ![h] = s]
    /\ UNCHANGED <<shutdown, received, stopping, found, phase, failed, outcome, status>>

LoadShutdown(h) ==
    /\ Alive /\ handler[h] = "entered"
    /\ stopping' = [stopping EXCEPT ![h] = shutdown]
    /\ handler' = [handler EXCEPT ![h] = "loaded"]
    /\ UNCHANGED <<shutdown, received, sig, found, phase, failed, outcome, status>>

\* Mutant: only a signal of the startup forces the exit.
RecordSignalAtStartup(h) ==
    /\ Alive /\ handler[h] = "loaded"
    /\ received' = sig[h]
    /\ found' = [found EXCEPT ![h] = received]
    /\ handler' = [handler EXCEPT ![h] = IF received = Startup THEN "forcing" ELSE "claimed"]
    /\ UNCHANGED <<shutdown, sig, stopping, phase, failed, outcome, status>>

\* record_signal: the swap claims the signal. Only the handler that finds
\* nothing recorded, in a run that is not stopping, lets the run drain.
RecordSignal(h) ==
    /\ Alive /\ handler[h] = "loaded"
    /\ received' = sig[h]
    /\ found' = [found EXCEPT ![h] = received]
    /\ handler' = [handler EXCEPT ![h] =
            IF received # None \/ stopping[h] THEN "forcing" ELSE "claimed"]
    /\ UNCHANGED <<shutdown, sig, stopping, phase, failed, outcome, status>>

ForceExit(h) ==
    /\ Alive /\ handler[h] = "forcing"
    /\ handler' = [handler EXCEPT ![h] = "forced"]
    /\ ExitWith(sig[h])
    /\ UNCHANGED <<shutdown, received, sig, stopping, found, failed, outcome>>

PublishShutdown(h) ==
    /\ Alive /\ handler[h] = "claimed"
    /\ shutdown' = TRUE
    /\ handler' = [handler EXCEPT ![h] = "returned"]
    /\ UNCHANGED <<received, sig, stopping, found, phase, failed, outcome, status>>

-----------------------------------------------------------------------------
\* The main thread.

\* Kafka preparation fails before the handoff.
PrepareFails ==
    /\ phase = "starting"
    /\ phase' = "stopped"
    /\ outcome' = "failure"
    /\ UNCHANGED <<shutdown, received, handlerVars, failed, status>>

\* Mutant: the handoff stores without comparing.
BeginProcessingBlindly ==
    /\ phase = "starting"
    /\ received' = None
    /\ phase' = "processing"
    /\ UNCHANGED <<shutdown, handlerVars, failed, outcome, status>>

BeginProcessing ==
    /\ phase = "starting"
    /\ IF received = Startup
       THEN received' = None /\ phase' = "processing" /\ UNCHANGED status
       ELSE ExitWith(received) /\ UNCHANGED received
    /\ UNCHANGED <<shutdown, handlerVars, failed, outcome>>

\* A pipeline thread fails, and cancels the run.
PipelineFails ==
    /\ phase = "processing" /\ ~failed
    /\ failed' = TRUE
    /\ shutdown' = TRUE
    /\ UNCHANGED <<received, handlerVars, phase, outcome, status>>

\* Mutants: a run that ends sets the shutdown flag; its result is the signal
\* only once the handler has published the shutdown.
PipelineReturnsStopping ==
    /\ phase = "processing"
    /\ phase' = "stopped"
    /\ shutdown' = TRUE
    /\ outcome' = IF failed THEN "failure"
                  ELSE IF received # None THEN received ELSE "complete"
    /\ UNCHANGED <<received, handlerVars, failed, status>>

PipelineReturnsByFlag ==
    /\ phase = "processing"
    /\ phase' = "stopped"
    /\ outcome' = IF failed THEN "failure"
                  ELSE IF shutdown THEN received ELSE "complete"
    /\ UNCHANGED <<shutdown, received, handlerVars, failed, status>>

\* run_pipeline returns: its input has ended, or it has drained.
PipelineReturns ==
    /\ phase = "processing"
    /\ phase' = "stopped"
    /\ outcome' = IF failed THEN "failure"
                  ELSE IF received # None THEN received ELSE "complete"
    /\ UNCHANGED <<shutdown, received, handlerVars, failed, status>>

\* The SignalControl is dropped, which unregisters the actions: a signal from
\* here on has no effect, but actions that have started run on.
Unregister ==
    /\ phase = "stopped"
    /\ phase' = "leaving"
    /\ UNCHANGED <<shutdown, received, handlerVars, failed, outcome, status>>

\* main exits with the status of the result.
Exit ==
    /\ phase = "leaving"
    /\ ExitWith(outcome)
    /\ UNCHANGED <<shutdown, received, handlerVars, failed, outcome>>

-----------------------------------------------------------------------------
Handle(h) == LoadShutdown(h) \/ RecordSignal(h) \/ ForceExit(h) \/ PublishShutdown(h)

Next ==
    \/ \E h \in Deliveries : Handle(h) \/ \E s \in TermSignals : Deliver(h, s)
    \/ PrepareFails \/ BeginProcessing \/ PipelineFails \/ PipelineReturns
    \/ Unregister \/ Exit
    \/ ~Alive /\ UNCHANGED vars

(***************************************************************************)
(* A handler that has started runs on. Nothing is assumed of the main      *)
(* thread: Kafka preparation, a worker or stdout may be stuck for good.    *)
(***************************************************************************)
Fairness == \A h \in Deliveries : WF_vars(Handle(h))

Spec == Init /\ [][Next]_vars
FairSpec == Spec /\ Fairness

-----------------------------------------------------------------------------
TypeOK ==
    /\ shutdown \in BOOLEAN
    /\ received \in {Startup, None} \union TermSignals
    /\ handler \in [Deliveries -> {"idle", "entered", "loaded", "claimed", "returned",
                                   "forcing", "forced"}]
    /\ sig \in [Deliveries -> TermSignals \union {None}]
    /\ stopping \in [Deliveries -> BOOLEAN]
    /\ found \in [Deliveries -> {Startup, None} \union TermSignals]
    /\ phase \in {"starting", "processing", "stopped", "leaving", "exited"}
    /\ failed \in BOOLEAN
    /\ outcome \in {None, "failure", "complete"} \union TermSignals
    /\ status \in {None, "failure", "complete"} \union TermSignals

Recorded == {h \in Deliveries : handler[h] \in {"claimed", "returned", "forcing", "forced"}}
Draining == {h \in Deliveries : handler[h] \in {"claimed", "returned"}}
Begun == phase = "processing" \/ outcome \in {"complete"} \union TermSignals \/ failed

\* A signal recorded before the handoff prevents it: once its handler has
\* found the startup mark, processing never begins, on whatever thread and at
\* whatever moment the handler runs.
StartupSignalWins ==
    (\E h \in Deliveries : found[h] = Startup) => ~Begun

\* At most one handler returns and lets the run drain: of two signals, even
\* with overlapping handlers, one forces the exit.
OneSignalDrains == Cardinality(Draining) <= 1

\* Unless the run has failed by itself, the first signal after the handoff is
\* never the one that forces the exit: a forced exit of a begun run means that
\* two signals were recorded.
LoneSignalDrains ==
    (\E h \in Deliveries : handler[h] = "forced" /\ found[h] # Startup) /\ ~failed
        => Cardinality(Recorded) >= 2

\* A run that returns after a signal was recorded, and has not failed, reports
\* that signal, or a later one: never completion, and never a signal that was
\* not sent or that came before the handoff.
SignalIsReported ==
    [][phase = "processing" /\ phase' = "stopped" /\ ~failed =>
        IF Recorded = {} THEN outcome' = "complete"
        ELSE outcome' \in {sig[h] : h \in Recorded}]_vars

\* Two signals end the process, even if preparation, a thread of the pipeline
\* or stdout never makes progress again.
TwoSignalsExit ==
    \A g, h \in Deliveries :
        g # h => (handler[g] # "idle" /\ handler[h] # "idle" ~> phase = "exited")

\* "Once processing begins, the first termination signal stops admission,
\* drains admitted records, and flushes stdout." (src/docs/usage.md:637)
FirstSignalDrains ==
    (\E h \in Deliveries : handler[h] = "forced" /\ found[h] # Startup)
        => Cardinality(Recorded) >= 2
=============================================================================

----------------------------- MODULE PipelineV1 -----------------------------
(***************************************************************************)
(* A version 1 run, from the bundle to the exit code: the multi-state        *)
(* runner (`pipeline_runner.ts`) with the engine's loop, the sink over the   *)
(* run document, the child sessions and worker containers it asks the        *)
(* docker helper for, and the signals and the deadline that race for the     *)
(* worker.  One step is what happens between two awaits.                     *)
(*                                                                           *)
(* There is no resume: a death leaves the document as it stands, so what     *)
(* holds of `stored` in every state holds after a death.                     *)
(***************************************************************************)
EXTENDS PipelineV1Graph, PipelineV1State

CONSTANTS
  MaxFaults,      \* bound: failures of the store, the helper and the host
  MaxSignals,     \* bound: signals delivered to the process
  MaxEdits        \* bound: changes of a protected input by the agent or others

VARIABLES
  pipeline,       \* the bundle named
  stored,         \* the run document on disk, or None
  current,        \* the sink's snapshot
  poisoned,       \* the sink refuses everything
  pc,             \* the await the runner is at
  at, count,      \* the engine's cursor and transitions taken
  session,        \* the session of the activation in flight, or None
  digest,         \* the digest of its accepted result, or None
  failure,        \* the failure in flight, then the run's, or None
  gate,           \* RunCauseGate
  exit,           \* the exit code, or None
  sessions,       \* what the helper has: each session with its worker
  result,         \* the result file of the activation in flight
  intact,         \* the protected inputs are as resolved at the start
  refused,        \* history: the commands the reducer rejected
  faults, signals, edits

\* The documents of runs of these bundles.
Names == UNION {Ids(p) : p \in Pipelines}
Maybe(S) == S \cup {None}
Activations ==
  [state : Names, phase : ActivationPhases, session : Maybe(Nat),
   cleanup : Maybe({"completed", "failed"}), digest : Maybe(Nat),
   reason : Maybe(FailureReasons)]
Steps == [from : Names, outcome : {"completed"}, to : Names, index : Nat]
Transitions == [step : Steps, activation : Nat, digest : Maybe(Nat)]
EventKinds ==
  {"run_created", Started, TransitionCommitted, TerminalReached, "run_succeeded"}
  \cup Stages \cup RunEnds
Payloads ==
  {<<>>} \cup (Names \X Nat) \cup (Names \X Nat \X Nat) \cup (Steps \X Nat)
  \cup {<<s>> : s \in Names}
Document ==
  [status : Statuses, phase : RunPhases, entry : Names, budget : Int,
   cursor : Names, count : Nat,
   terminal : Maybe([state : Names, result : {"success", "failed"}]),
   failure : Maybe(FailureReasons), activations : Seq(Activations),
   transitions : Seq(Transitions),
   events : Seq([kind : EventKinds, payload : Payloads])]

ASSUME DocumentAssumption ==
  None \notin Document \cup [state : Names, result : {"success", "failed"}]

document == <<stored, current, poisoned>>
engine == <<at, count>>
host == <<sessions, result, intact>>
bounds == <<signals, edits>>
vars == <<pipeline, stored, current, poisoned, pc, at, count, session, digest,
          failure, gate, exit, sessions, result, intact, refused, faults,
          signals, edits>>

MayFail == faults < MaxFaults
Fault == MayFail /\ faults' = faults + 1
Aborted == gate.abort # None

SignalReason(signal) == IF signal = "SIGINT" THEN "signal_sigint" ELSE "signal_sigterm"
SignalExitCode(signal) == IF signal = "SIGINT" THEN 130 ELSE 143

\* classifyRunFailure; a failure is held as the reason it has without a signal.
Classify(cause, signal) ==
  IF signal # None THEN SignalReason(signal)
  ELSE IF cause = None THEN "internal_error" ELSE cause

\* The reason of a DockerHelperError.
HelperReason(kind) == IF kind = "cli_failure" THEN "worker_failed" ELSE "internal_error"

-----------------------------------------------------------------------------
(* PipelineRunStateSink: dispatchNow over the document store.                *)

AllAnswers == {"done", "rejected", "poisoned", "not_committed", "durability_unknown"}
Answers(admitted) ==
  IF poisoned THEN {"poisoned"}
  ELSE IF ~admitted THEN {"rejected"}
  ELSE {"done"} \cup IF MayFail THEN {"not_committed", "durability_unknown"} ELSE {}

\* A commit that is visible but not confirmed is adopted and poisons the sink.
Settle(next, kind, answer) ==
  /\ IF answer \in {"done", "durability_unknown"}
     THEN stored' = next /\ current' = next
     ELSE UNCHANGED <<stored, current>>
  /\ poisoned' = (poisoned \/ answer = "durability_unknown")
  /\ refused' = refused \cup IF answer = "rejected" THEN {kind} ELSE {}
  /\ faults' = faults + IF answer \in {"not_committed", "durability_unknown"}
                        THEN 1 ELSE 0

\* store.create refuses an existing document; the run's own id is fresh.
Create(answer) ==
  /\ answer \in Answers(stored = None)
  /\ Settle(CreateRun(pipeline), "create_run", answer)

Dispatch(command, answer) ==
  /\ answer \in Answers(current # None /\ Admits(current, command))
  /\ Settle(Reduce(current, command), command.kind, answer)

-----------------------------------------------------------------------------
(* Before the first activation                                               *)

Init ==
  /\ pipeline \in Pipelines
  /\ stored = None /\ current = None /\ poisoned = FALSE
  /\ pc = "load"
  /\ at = None /\ count = 0
  /\ session = None /\ digest = None /\ failure = None
  /\ gate = [cleanup |-> FALSE, abort |-> None, open |-> TRUE]
  /\ exit = None
  /\ sessions = <<>> /\ result = "absent" /\ intact = TRUE
  /\ refused = {}
  /\ faults = 0 /\ signals = 0 /\ edits = 0

Goto(next) == pc' = next /\ UNCHANGED failure
Throw(cause, handler) == pc' = handler /\ failure' = cause

\* gate.checkAbort() and what follows it with no await between.
CheckAbort(next, handler) ==
  IF Aborted THEN Throw(SignalReason(gate.abort), handler) ELSE Goto(next)

\* runAgentSmoke: nothing of a bundle that fails a gate is recorded.
Load ==
  /\ pc = "load"
  /\ IF Admitted(pipeline) THEN pc' = "initialize" /\ UNCHANGED exit
     ELSE pc' = "done" /\ exit' = 1
  /\ UNCHANGED <<pipeline, document, engine, session, digest, failure, gate, host,
                 refused, faults, bounds>>

Initialize ==
  /\ pc = "initialize"
  /\ \E answer \in AllAnswers :
       /\ Create(answer)
       /\ IF answer = "done" THEN Goto("authorize")
          ELSE Throw("state_persist_failed", "freeze")
  /\ UNCHANGED <<pipeline, engine, session, digest, gate, exit, host, bounds>>

\* Why the launcher's credential may not carry the run.
CredentialProblems ==
  {"credential_missing", "credential_rejected", "endpoint_unavailable",
   "unexpected_response", "wrong_authority"}

\* The workspace, the launcher's credential, then the engine's compilation.
Authorize ==
  /\ pc = "authorize"
  /\ \/ /\ Fault
        /\ \E kind \in CredentialProblems \cup {"workspace_missing"} :
             Throw(HelperReason(kind), "freeze")
        /\ UNCHANGED engine
     \/ /\ UNCHANGED faults
        /\ IF Aborted \/ Compiles(pipeline)
           THEN CheckAbort("turn", "freeze") ELSE Throw("invalid_graph", "freeze")
        /\ at' = pipeline.entry_state
        /\ UNCHANGED count
  /\ UNCHANGED <<pipeline, document, session, digest, gate, exit, host, refused, bounds>>

-----------------------------------------------------------------------------
(* runCompiledGraph: one turn of the loop, up to the next await.             *)

Turn ==
  /\ pc = "turn"
  /\ LET state == State(pipeline, at) IN
       IF at \notin Ids(pipeline) THEN Throw("missing_state", "freeze")
       ELSE IF state.type = "terminal" THEN Goto("terminal")
       ELSE IF count >= pipeline.max_transitions
            THEN Throw("transition_budget_exhausted", "freeze")
       ELSE CheckAbort("start", "freeze")
  /\ UNCHANGED <<pipeline, document, engine, session, digest, gate, exit, host,
                 refused, faults, bounds>>

\* recordTransition as the commit hook; the cursor moves only after it.
Commit ==
  /\ pc = "commit"
  /\ LET match == ResolveTransition(pipeline, at, "completed") IN
     IF match = <<>>
     THEN /\ Throw("unknown_outcome", "freeze")
          /\ UNCHANGED <<document, engine, refused, faults>>
     ELSE \E answer \in AllAnswers :
       /\ Dispatch([kind |-> "transition_committed", step |-> match[1],
                    index |-> LastIndex(current), digest |-> digest], answer)
       /\ IF answer = "done"
          THEN Goto("turn") /\ at' = match[1].to /\ count' = count + 1
          ELSE Throw("state_persist_failed", "freeze") /\ UNCHANGED engine
  /\ UNCHANGED <<pipeline, session, digest, gate, exit, host, bounds>>

RecordTerminal ==
  /\ pc = "terminal"
  /\ LET reached == State(pipeline, at).result IN
     \E answer \in AllAnswers :
       /\ Dispatch([kind |-> "terminal_reached", state |-> at, result |-> reached], answer)
       /\ IF answer # "done" THEN Throw("state_persist_failed", "freeze")
          ELSE IF reached = "success" THEN Goto("freeze")
          ELSE Throw("execution_failed", "freeze")
  /\ UNCHANGED <<pipeline, engine, session, digest, gate, exit, host, bounds>>

-----------------------------------------------------------------------------
(* runActivation: up to the worker.  Its catch is at "clean".                *)

\* A dispatch of the activation's, whose failure goes to the handler.
Record(command, next, handler) ==
  \E answer \in AllAnswers :
    /\ Dispatch(command, answer)
    /\ IF answer = "done" THEN next ELSE Throw("state_persist_failed", handler)

StartActivation ==
  /\ pc = "start"
  /\ Record([kind |-> "start_activation", state |-> at], Goto("prepare"), "freeze")
  /\ session' = None
  /\ result' = "absent"
  /\ UNCHANGED <<pipeline, engine, digest, gate, exit, sessions, intact, bounds>>

\* The activation's own directories and document, made anew.
BuildControlTree ==
  /\ pc = "prepare"
  /\ \/ Fault /\ Throw("control_path_invalid", "clean")
     \/ Goto("inputs") /\ UNCHANGED faults
  /\ UNCHANGED <<pipeline, document, engine, session, digest, gate, exit, host,
                 refused, bounds>>

\* The declared inputs are files inside the workspace.
CheckInputs ==
  /\ pc = "inputs"
  /\ \/ Fault /\ Throw("runtime_input_missing", "clean")
     \/ Goto("protect") /\ UNCHANGED faults
  /\ UNCHANGED <<pipeline, document, engine, session, digest, gate, exit, host,
                 refused, bounds>>

\* verifyProtectedInputs: path, file identity and content as at the start.
Protected(next) ==
  IF intact THEN next ELSE Throw("protected_input_modified", "clean")

VerifyBefore ==
  /\ pc = "protect"
  /\ Protected(CheckAbort("create", "clean"))
  /\ UNCHANGED <<pipeline, document, engine, session, digest, gate, exit, host,
                 refused, faults, bounds>>

NewSession == [live |-> TRUE, known |-> TRUE, worker |-> "none", cause |-> None]

\* How `session create` may go wrong: whether the helper has made a session,
\* whether the answer names it, and the error the runner makes of it.
CreateProblems ==
  {[made |-> made, named |-> FALSE, kind |-> kind] :
     made \in BOOLEAN, kind \in {"cli_failure", "unexpected_response"}}
  \cup {[made |-> TRUE, named |-> TRUE, kind |-> "unexpected_response"]}

CreateChildSession ==
  /\ pc = "create"
  /\ LET id == Len(sessions) + 1 IN
     \/ /\ sessions' = Append(sessions, NewSession)
        /\ session' = id
        /\ Goto("record_session")
        /\ UNCHANGED faults
     \/ /\ Fault
        /\ \E problem \in CreateProblems :
             /\ sessions' = IF problem.made
                            THEN Append(sessions, [NewSession EXCEPT !.known = problem.named])
                            ELSE sessions
             /\ session' = IF problem.named THEN id ELSE session
             /\ Throw(HelperReason(problem.kind), "clean")
  /\ UNCHANGED <<pipeline, document, engine, digest, gate, exit, result, intact,
                 refused, bounds>>

RecordSessionCreated ==
  /\ pc = "record_session"
  /\ Record([kind |-> "activation_session_created", session |-> session],
            CheckAbort("pull", "clean"), "clean")
  /\ UNCHANGED <<pipeline, engine, session, digest, gate, exit, host, bounds>>

\* A pull that fails is only reported: the image may be local.
Pull ==
  /\ pc = "pull"
  /\ CheckAbort("announce", "clean")
  /\ UNCHANGED <<pipeline, document, engine, session, digest, gate, exit, host,
                 refused, faults, bounds>>

RecordRunning ==
  /\ pc = "announce"
  /\ Record([kind |-> "activation_agent_running"], Goto("launch"), "clean")
  /\ UNCHANGED <<pipeline, engine, session, digest, gate, exit, host, bounds>>

Launch ==
  /\ pc = "launch"
  /\ IF result # "absent"
     THEN Throw("control_path_invalid", "clean") /\ UNCHANGED sessions
     ELSE /\ CheckAbort("work", "clean")
          /\ sessions' = IF Aborted THEN sessions
                         ELSE [sessions EXCEPT ![session].worker = "running"]
  /\ UNCHANGED <<pipeline, document, engine, session, digest, gate, exit, result,
                 intact, refused, faults, bounds>>

-----------------------------------------------------------------------------
(* The worker, its deadline and the signals                                  *)

\* Nothing, no regular file, not the schema, another activation's identity, an
\* artifact that is missing, outside or a protected input, or a result.
Results == {"absent", "linked", "malformed", "foreign", "stray", "valid"}

Worker == sessions[session]
Signalable == pc = "work"
WorkerRuns == Signalable /\ Worker.worker = "running"

\* The container leaves something at its result path.
WorkerWrites ==
  /\ WorkerRuns
  /\ result = "absent"
  /\ result' \in Results \ {"absent"}
  /\ UNCHANGED <<pipeline, document, pc, engine, session, digest, failure, gate,
                 exit, sessions, intact, refused, faults, bounds>>

\* An asked-to-stop worker may still end on its own.
WorkerExits ==
  /\ WorkerRuns
  /\ \E code \in {"exited_0", "exited_1"} :
       sessions' = [sessions EXCEPT ![session].worker = code]
  /\ UNCHANGED <<pipeline, document, pc, engine, session, digest, failure, gate,
                 exit, result, intact, refused, faults, bounds>>

\* The timer of SubprocessCliRunner.run, armed until the call returns.
Deadline ==
  /\ Signalable
  /\ Worker.cause = None
  /\ sessions' = [sessions EXCEPT ![session].cause = "timeout"]
  /\ UNCHANGED <<pipeline, document, pc, engine, session, digest, failure, gate,
                 exit, result, intact, refused, faults, bounds>>

\* killActive, then the gate's handler unless the deadline owns the worker.
Signal ==
  /\ pc \notin {"load", "done"}
  /\ signals < MaxSignals
  /\ signals' = signals + 1
  /\ IF Signalable /\ Worker.cause = "timeout" THEN UNCHANGED <<sessions, gate>>
     ELSE /\ sessions' = IF Signalable /\ Worker.cause = None
                         THEN [sessions EXCEPT ![session].cause = "user_signal"]
                         ELSE sessions
          /\ \E signal \in {"SIGINT", "SIGTERM"} :
               gate' = IF gate.open /\ ~Aborted THEN [gate EXCEPT !.abort = signal] ELSE gate
  /\ UNCHANGED <<pipeline, document, pc, engine, session, digest, failure, exit,
                 result, intact, refused, faults, edits>>

\* A protected input changes under the run, by the agent's hand or another's.
Edit ==
  /\ pc \notin {"load", "done"}
  /\ edits < MaxEdits
  /\ edits' = edits + 1
  /\ intact' = FALSE
  /\ UNCHANGED <<pipeline, document, pc, engine, session, digest, failure, gate,
                 exit, sessions, result, refused, faults, signals>>

\* What the runner makes of the call's return.
Ended ==
  IF Worker.cause = "timeout" THEN "worker_timeout"
  ELSE IF Worker.worker # "exited_0" THEN HelperReason("cli_failure")
  ELSE "ended"

\* Mutant: the call of a worker that was stopped never returns.
CollectUnstopped ==
  /\ pc = "work"
  /\ Worker.worker # "running" /\ Worker.cause = None
  /\ IF Ended = "ended" THEN Goto("verify") ELSE Throw(Ended, "clean")
  /\ UNCHANGED <<pipeline, document, engine, session, digest, gate, exit, host,
                 refused, faults, bounds>>

Collect ==
  /\ pc = "work"
  /\ Worker.worker # "running"
  /\ IF Ended = "ended" THEN Goto("verify") ELSE Throw(Ended, "clean")
  /\ UNCHANGED <<pipeline, document, engine, session, digest, gate, exit, host,
                 refused, faults, bounds>>

VerifyAfter ==
  /\ pc = "verify"
  /\ Protected(Goto("read"))
  /\ UNCHANGED <<pipeline, document, engine, session, digest, gate, exit, host,
                 refused, faults, bounds>>

\* readResultFileNoFollow, then verifyAgentResult over its parse.
Parsed == result \notin {"malformed", "foreign"}
Verified == Parsed /\ result # "stray"

ReadResult ==
  /\ pc = "read"
  /\ IF result = "absent" THEN Throw("agent_result_invalid", "clean")
     ELSE IF result = "linked" THEN Throw("control_path_invalid", "clean")
     ELSE IF ~Verified THEN Throw("agent_result_invalid", "clean")
     ELSE Goto("accept")
  /\ UNCHANGED <<pipeline, document, engine, session, digest, gate, exit, host,
                 refused, faults, bounds>>

RecordAccepted ==
  /\ pc = "accept"
  /\ Record([kind |-> "activation_result_accepted", digest |-> session],
            Goto("clean"), "clean")
  /\ digest' = IF failure' = None THEN session ELSE digest
  /\ UNCHANGED <<pipeline, engine, session, gate, exit, host, bounds>>

-----------------------------------------------------------------------------
(* runActivation after its catch: the session goes, whatever happened.       *)

AfterClean == IF failure = None THEN "confirm" ELSE "fail"

\* A deletion may fail before or after the helper has deleted the session.
DeleteProblems == {[live |-> live, kind |-> kind] :
  live \in BOOLEAN, kind \in {"cli_failure", "unexpected_response"}}

DeleteChildSession ==
  /\ pc = "clean"
  /\ IF session = None THEN Goto(AfterClean) /\ UNCHANGED <<sessions, gate, faults>>
     ELSE \/ /\ sessions' = [sessions EXCEPT ![session].live = FALSE]
             /\ Goto(AfterClean)
             /\ UNCHANGED <<gate, faults>>
          \/ /\ Fault
             /\ gate' = [gate EXCEPT !.cleanup = TRUE]
             /\ \E problem \in DeleteProblems :
                  /\ sessions' = [sessions EXCEPT ![session].live = problem.live]
                  /\ Throw(HelperReason(problem.kind), "fail_cleanup")
  /\ UNCHANGED <<pipeline, document, engine, session, digest, exit, result, intact,
                 refused, bounds>>

\* The activation's own failure: what becomes of the dispatch is ignored.
RecordActivationFailed ==
  /\ pc \in {"fail", "fail_cleanup"}
  /\ LET command ==
           [kind |-> "activation_failed",
            reason |-> IF pc = "fail" THEN Classify(failure, gate.abort)
                       ELSE "session_cleanup_failed",
            cleanup |-> IF pc = "fail" THEN "completed" ELSE "failed"]
     IN \E answer \in AllAnswers :
          Dispatch(command, answer)
  /\ Goto("freeze")
  /\ UNCHANGED <<pipeline, engine, session, digest, gate, exit, host, bounds>>

RecordCleanupCompleted ==
  /\ pc = "confirm"
  /\ Record([kind |-> "activation_cleanup_completed"], Goto("commit"), "freeze")
  /\ UNCHANGED <<pipeline, engine, session, digest, gate, exit, host, bounds>>

-----------------------------------------------------------------------------
(* The cutoff, the final write and the exit code                             *)

\* freezeFinalStatus: no signal counts from here on.
Freeze ==
  /\ pc = "freeze"
  /\ gate' = [gate EXCEPT !.open = FALSE]
  /\ Goto(IF current = None THEN "reinitialize" ELSE "finalize")
  /\ UNCHANGED <<pipeline, document, engine, session, digest, exit, host, refused,
                 faults, bounds>>

FinalCommand ==
  IF gate.cleanup
  THEN [kind |-> "run_cleanup_failed", reason |-> "session_cleanup_failed"]
  ELSE IF failure = None /\ ~Aborted THEN [kind |-> "run_succeeded"]
  ELSE [kind |-> "run_failed", reason |-> Classify(failure, gate.abort)]

\* Mutant: the run's own failure is looked at before the signal.
FailureBeforeSignal(cause) ==
  IF gate.cleanup \/ cause # None THEN 1
  ELSE IF Aborted THEN SignalExitCode(gate.abort) ELSE 0

\* runOutcomeExitCode
ExitCode(cause) ==
  IF gate.cleanup THEN 1
  ELSE IF Aborted THEN SignalExitCode(gate.abort)
  ELSE IF cause # None THEN 1 ELSE 0

Leave(cause) == pc' = "done" /\ failure' = cause /\ exit' = ExitCode(cause)
FinalizeFailed == IF failure = None THEN "state_persist_failed" ELSE failure

\* finalize makes the document first when nothing was ever committed.
Reinitialize ==
  /\ pc = "reinitialize"
  /\ \E answer \in AllAnswers :
       /\ Create(answer)
       /\ IF answer = "done" THEN Goto("finalize") /\ UNCHANGED exit
          ELSE Leave(FinalizeFailed)
  /\ UNCHANGED <<pipeline, engine, session, digest, gate, host, bounds>>

Finalize ==
  /\ pc = "finalize"
  /\ \E answer \in AllAnswers :
       /\ Dispatch(FinalCommand, answer)
       /\ Leave(IF answer = "done" THEN failure ELSE FinalizeFailed)
  /\ UNCHANGED <<pipeline, engine, session, digest, gate, host, bounds>>

Activation ==
  StartActivation \/ BuildControlTree \/ CheckInputs \/ VerifyBefore
  \/ CreateChildSession \/ RecordSessionCreated \/ Pull \/ RecordRunning \/ Launch
  \/ Collect \/ VerifyAfter \/ ReadResult \/ RecordAccepted
  \/ DeleteChildSession \/ RecordActivationFailed \/ RecordCleanupCompleted

Runner ==
  Load \/ Initialize \/ Authorize \/ Turn \/ Activation \/ Commit
  \/ RecordTerminal \/ Freeze \/ Reinitialize \/ Finalize

Environment == WorkerWrites \/ WorkerExits \/ Deadline \/ Signal \/ Edit

Next == Runner \/ Environment

Spec == Init /\ [][Next]_vars

\* The helper answers, the file system answers, and a worker ends by itself or
\* is stopped after its deadline; signals and edits need not happen.
FairSpec == Spec /\ WF_vars(Runner) /\ WF_vars(WorkerExits)

-----------------------------------------------------------------------------
(* Properties                                                                *)

Documents(d) ==
  d # None =>
    /\ d.status \in Statuses /\ d.phase \in RunPhases
    /\ d.failure \in FailureReasons \cup {None}
    /\ \A i \in DOMAIN d.activations : ActivationType(d.activations[i])

PointsOfRunner ==
  {"load", "initialize", "authorize", "turn", "start", "prepare", "inputs",
   "protect", "create", "record_session", "pull", "announce", "launch", "work", "verify", "read",
   "accept", "clean",
   "fail", "fail_cleanup", "confirm", "commit", "terminal", "freeze",
   "reinitialize", "finalize", "done"}

\* Types of the run's variables.
V1TypeOK ==
  /\ Documents(stored) /\ Documents(current)
  /\ poisoned \in BOOLEAN /\ intact \in BOOLEAN
  /\ pc \in PointsOfRunner
  /\ failure \in FailureReasons \cup {None}
  /\ gate.abort \in {None, "SIGINT", "SIGTERM"} /\ gate.cleanup \in BOOLEAN
  /\ exit \in {None, 0, 1, 130, 143}
  /\ session = None \/ session \in DOMAIN sessions
  /\ result \in Results

\* "loader: rejects every document the exact-field validator rejects"
\* (pipeline_state_store.ts): a load takes every document a run leaves behind,
\* whenever it stops.
DocumentLoads == stored # None => Loads(stored)

\* The one document that does not: the session was never recorded (its record
\* was not committed, or the answer named another launcher) and its deletion
\* failed, so the run's last event marks an activation that has no session.
SessionUnrecorded(d) ==
  /\ d.status = "cleanup_failed"
  /\ d.activations # <<>> /\ Last(d.activations).session = None

\* Apart from that document, a load takes what a run leaves behind whenever it
\* stops, and the reducer refuses nothing the runner asks of it but the
\* recording of that deletion: reducer and validator agree on the whole life of
\* a run, its failed commits and its run-level mark included.
ReducerMeetsLoader ==
  /\ DocumentLoads \/ SessionUnrecorded(stored)
  /\ refused \subseteq {"activation_failed"}
  /\ refused # {} => gate.cleanup /\ Last(current.activations).session = None

Known == {i \in DOMAIN sessions : sessions[i].known}

\* A worker runs only in a live session, one session is live at a time, a run
\* that ended has deleted every session it knew of unless a deletion failed,
\* and its final status says which of the two it was.
SessionsSettled ==
  /\ \A i \in DOMAIN sessions : sessions[i].worker = "running" => sessions[i].live
  /\ Cardinality({i \in Known : sessions[i].live}) <= 1
  /\ pc \in {"freeze", "finalize", "done"} /\ ~gate.cleanup =>
       \A i \in Known : ~sessions[i].live
  /\ stored # None /\ stored.status \in {"success", "failed"} =>
       \A i \in Known : ~sessions[i].live
  /\ stored # None /\ stored.status = "cleanup_failed" => gate.cleanup

\* A committed transition was earned: its activation's worker ended by itself
\* with code 0 before any deadline, left the result whose digest the transition
\* carries, and its session is gone; two transitions never share a session.
ProgressEarned ==
  stored # None =>
    \A i \in DOMAIN stored.transitions :
      LET id == stored.activations[i].session IN
        /\ stored.transitions[i].digest = id
        /\ sessions[id].worker = "exited_0"
        /\ sessions[id].cause # "timeout"
        /\ ~sessions[id].live

\* The exit code, the final status and what happened agree.  Success is
\* reported only of a run recorded as succeeded; a recorded success is denied
\* only when its own commit was not confirmed; a signal's exit code and a
\* signal's recorded reason come together; a deadline is blamed only for a
\* worker it stopped; a bundle that was admitted never fails on its graph.
OutcomeAgrees ==
  /\ exit = 0 =>
       stored.status = "success" /\ ~poisoned /\ ~Aborted /\ ~gate.cleanup
  /\ exit # None /\ stored # None /\ stored.status = "success" => exit = 0 \/ poisoned
  /\ stored # None /\ stored.status = "failed" =>
       /\ exit \in {130, 143} => stored.failure = SignalReason(gate.abort)
       /\ stored.failure \in {"signal_sigint", "signal_sigterm"} =>
            Aborted /\ exit \in {None, SignalExitCode(gate.abort)}
       /\ stored.failure = "worker_timeout" =>
            \E i \in DOMAIN sessions : sessions[i].cause = "timeout"
  /\ failure \notin {"invalid_graph", "missing_state", "unknown_outcome", "invalid_outcome"}

\* A run's document can be loaded whenever the run stops, and every part of it is
\* what the reducer and the validator take it for.
DocumentSound == V1TypeOK /\ ReducerMeetsLoader

\* What a run records and answers is what happened: to its sessions, its workers,
\* its deadlines and its signals.
RunHonest ==
  /\ SessionsSettled
  /\ ProgressEarned
  /\ OutcomeAgrees

\* Every run returns to its caller.
RunReturns == <>(pc = "done")
=============================================================================

-------------------------- MODULE PipelineV1State --------------------------
(***************************************************************************)
(* The durable document of a version 1 run (`pipeline_state.ts`): the        *)
(* reducer that makes each next snapshot from a command, and the validator   *)
(* every load passes the document through.  The revision is the length of    *)
(* the journal.  A digest stands for the result file with its artifacts.     *)
(***************************************************************************)
EXTENDS Integers, SequencesExt, FiniteSetsExt

CONSTANT None

Statuses == {"active", "success", "failed", "cleanup_failed"}
RunPhases == {"validating", "running", "finalizing", "finished"}
Finished == {"session_cleanup_completed", "failed"}
Unaccepted == {"creating_session", "session_created", "agent_running"}
ActivationPhases == Unaccepted \cup {"result_accepted"} \cup Finished
FailureReasons ==
  {"internal_error", "worker_failed", "worker_timeout", "agent_result_invalid",
   "protected_input_modified", "control_path_invalid", "runtime_input_missing",
   "unknown_outcome", "invalid_outcome", "transition_budget_exhausted",
   "invalid_graph", "missing_state", "execution_failed", "state_persist_failed",
   "session_cleanup_failed", "signal_sigint", "signal_sigterm"}

\* A field that is absent holds nothing that may stand there.
ASSUME NoneAssumption ==
  None \notin FailureReasons \cup {"completed", "failed", "timeout", "SIGINT", "SIGTERM"} \cup Nat

Started == "activation_started"
SessionCreated == "session_created"
AgentRunning == "agent_running"
ResultAccepted == "result_accepted"
CleanupCompleted == "session_cleanup_completed"
ActivationFailed == "activation_failed"
TransitionCommitted == "transition_committed"
TerminalReached == "terminal_reached"
RunEnds == {"run_failed", "run_cleanup_failed"}
Stages == {SessionCreated, AgentRunning, ResultAccepted, CleanupCompleted,
           ActivationFailed}

Event(kind, payload) == [kind |-> kind, payload |-> payload]

FreshActivation(state) ==
  [state |-> state, phase |-> "creating_session", session |-> None,
   cleanup |-> None, digest |-> None, reason |-> None]

-----------------------------------------------------------------------------
(* reducePipelineRunCommand: a command is rejected or appends one event.      *)

CreateRun(pipeline) ==
  [status |-> "active", phase |-> "validating",
   entry |-> pipeline.entry_state, budget |-> pipeline.max_transitions,
   cursor |-> pipeline.entry_state, count |-> 0, terminal |-> None,
   failure |-> None, activations |-> <<>>, transitions |-> <<>>,
   events |-> <<Event("run_created", <<>>)>>]

Log(d, kind, payload) == [d EXCEPT !.events = Append(@, Event(kind, payload))]
LastIndex(d) == Len(d.activations)
InFlight(d) ==
  d.activations # <<>> /\ Last(d.activations).phase \notin Finished

AdmitsStart(d, state) ==
  /\ d.phase \in {"validating", "running"}
  /\ d.terminal = None
  /\ d.activations # <<>> =>
       /\ Last(d.activations).phase = "session_cleanup_completed"
       /\ d.transitions # <<>>
       /\ Last(d.transitions).activation = LastIndex(d)
  /\ state = d.cursor

Start(d, state) ==
  Log([d EXCEPT !.activations = Append(@, FreshActivation(state)),
                !.phase = "running"],
      Started, <<state, LastIndex(d) + 1>>)

AdmitsSession(d, session) ==
  /\ InFlight(d)
  /\ Last(d.activations).phase = "creating_session"
  /\ \A i \in DOMAIN d.activations : d.activations[i].session # session

\* An event of the activation in flight, after its record changed.
Advance(d, activation, kind, extra) ==
  Log([d EXCEPT !.activations[LastIndex(d)] = activation],
      kind, <<activation.state, LastIndex(d)>> \o extra)

RecordSession(d, session) ==
  Advance(d, [Last(d.activations) EXCEPT !.session = session,
                                         !.phase = "session_created"],
          SessionCreated, <<session>>)

AdmitsAgentRunning(d) == InFlight(d) /\ Last(d.activations).phase = "session_created"

RecordAgentRunning(d) ==
  Advance(d, [Last(d.activations) EXCEPT !.phase = "agent_running"], AgentRunning, <<>>)

AdmitsResult(d) == InFlight(d) /\ Last(d.activations).phase = "agent_running"

RecordResult(d, digest) ==
  Advance(d, [Last(d.activations) EXCEPT !.phase = "result_accepted",
                                         !.digest = digest],
          ResultAccepted, <<>>)

AdmitsCleanup(d) ==
  /\ InFlight(d)
  /\ Last(d.activations).phase = "result_accepted"
  /\ Last(d.activations).session # None

RecordCleanup(d) ==
  Advance(d, [Last(d.activations) EXCEPT !.phase = "session_cleanup_completed",
                                         !.cleanup = "completed"],
          CleanupCompleted, <<>>)

AdmitsFailure(d, reason, cleanup) ==
  /\ InFlight(d)
  /\ reason = "session_cleanup_failed" => cleanup = "failed"
  /\ cleanup = "failed" => Last(d.activations).session # None

RecordFailure(d, reason, cleanup) ==
  Advance(d, [Last(d.activations) EXCEPT !.phase = "failed", !.reason = reason,
                                         !.cleanup = cleanup],
          ActivationFailed, <<>>)

AdmitsTransition(d, step, index, digest) ==
  /\ d.phase = "running"
  /\ d.terminal = None
  /\ d.activations # <<>>
  /\ Last(d.activations).phase = "session_cleanup_completed"
  /\ index = LastIndex(d)
  /\ digest = Last(d.activations).digest
  /\ step.from = d.cursor
  /\ d.count < d.budget
  /\ step.from = Last(d.activations).state

CommitTransition(d, step, index, digest) ==
  LET committed == [step |-> step, activation |-> index, digest |-> digest] IN
    Log([d EXCEPT !.transitions = Append(@, committed),
                  !.cursor = step.to, !.count = @ + 1],
        TransitionCommitted, <<step, index>>)

AdmitsTerminal(d, state) ==
  /\ d.phase \in {"validating", "running"}
  /\ d.terminal = None
  /\ state = d.cursor
  /\ d.activations # <<>> => Last(d.activations).phase = "session_cleanup_completed"
  /\ Len(d.activations) <= Len(d.transitions)

ReachTerminal(d, state, result) ==
  Log([d EXCEPT !.terminal = [state |-> state, result |-> result],
                !.phase = "finalizing"],
      TerminalReached, <<state>>)

AdmitsSuccess(d) ==
  d.phase = "finalizing" /\ d.terminal # None /\ d.terminal.result = "success"

Finish(d, status) == [d EXCEPT !.status = status, !.phase = "finished"]

Succeed(d) == Log(Finish(d, "success"), "run_succeeded", <<>>)

\* Mutant: the activation is marked as if its session were gone.
MarkCleaned(d, reason, outcome) ==
  IF ~InFlight(d) THEN d
  ELSE [d EXCEPT !.activations[LastIndex(d)] =
          [Last(d.activations) EXCEPT !.phase = "failed", !.reason = reason,
                                      !.cleanup = "completed"]]

\* markLastActivationFailed: the activation whose own failure did not land.
MarkLast(d, reason, outcome) ==
  IF ~InFlight(d) THEN d
  ELSE LET last == Last(d.activations) IN
    [d EXCEPT !.activations[LastIndex(d)] =
       [last EXCEPT !.phase = "failed", !.reason = reason,
                    !.cleanup = IF last.session = None THEN "completed" ELSE outcome]]

Fail(d, reason) ==
  Log([MarkLast(Finish(d, "failed"), reason, "completed") EXCEPT !.failure = reason],
      "run_failed", <<>>)

FailCleanup(d, reason) ==
  Log([MarkLast(Finish(d, "cleanup_failed"), reason, "failed") EXCEPT !.failure = reason],
      "run_cleanup_failed", <<>>)

\* The guard and the effect of a command; every one asks for an active run.
Admits(d, c) ==
  /\ d.status = "active"
  /\ CASE c.kind = "start_activation" -> AdmitsStart(d, c.state)
       [] c.kind = "activation_session_created" -> AdmitsSession(d, c.session)
       [] c.kind = "activation_agent_running" -> AdmitsAgentRunning(d)
       [] c.kind = "activation_result_accepted" -> AdmitsResult(d)
       [] c.kind = "activation_cleanup_completed" -> AdmitsCleanup(d)
       [] c.kind = "activation_failed" -> AdmitsFailure(d, c.reason, c.cleanup)
       [] c.kind = "transition_committed" -> AdmitsTransition(d, c.step, c.index, c.digest)
       [] c.kind = "terminal_reached" -> AdmitsTerminal(d, c.state)
       [] c.kind = "run_succeeded" -> AdmitsSuccess(d)
       [] OTHER -> TRUE

Reduce(d, c) ==
  CASE c.kind = "start_activation" -> Start(d, c.state)
    [] c.kind = "activation_session_created" -> RecordSession(d, c.session)
    [] c.kind = "activation_agent_running" -> RecordAgentRunning(d)
    [] c.kind = "activation_result_accepted" -> RecordResult(d, c.digest)
    [] c.kind = "activation_cleanup_completed" -> RecordCleanup(d)
    [] c.kind = "activation_failed" -> RecordFailure(d, c.reason, c.cleanup)
    [] c.kind = "transition_committed" -> CommitTransition(d, c.step, c.index, c.digest)
    [] c.kind = "terminal_reached" -> ReachTerminal(d, c.state, c.result)
    [] c.kind = "run_succeeded" -> Succeed(d)
    [] c.kind = "run_failed" -> Fail(d, c.reason)
    [] c.kind = "run_cleanup_failed" -> FailCleanup(d, c.reason)

-----------------------------------------------------------------------------
(* validatePipelineRunState: the documents a load accepts.                    *)

\* The kinds each event may be followed by.
Ends == {ActivationFailed} \cup RunEnds
Successors(kind) ==
  CASE kind = "run_created" -> {Started, TerminalReached} \cup RunEnds
    [] kind = Started -> {SessionCreated} \cup Ends
    [] kind = SessionCreated -> {AgentRunning} \cup Ends
    [] kind = AgentRunning -> {ResultAccepted} \cup Ends
    [] kind = ResultAccepted -> {CleanupCompleted} \cup Ends
    [] kind = CleanupCompleted -> {TransitionCommitted, TerminalReached} \cup Ends
    [] kind = ActivationFailed -> RunEnds
    [] kind = TransitionCommitted -> {Started, TerminalReached} \cup RunEnds
    [] kind = TerminalReached -> {"run_succeeded"} \cup RunEnds
    [] OTHER -> {}

EventOrder(d) ==
  /\ d.events # <<>>
  /\ d.events[1].kind = "run_created"
  /\ \A i \in 2..Len(d.events) : d.events[i].kind \in Successors(d.events[i - 1].kind)

Kinds(d) == {d.events[i].kind : i \in DOMAIN d.events}
CountOf(d, kind, n) == Cardinality({i \in 1..n : d.events[i].kind = kind})

\* validateActivationState, with the coherence of its phase and its fields.
ActivationType(a) ==
  /\ a.phase \in ActivationPhases
  /\ a.cleanup \in {None, "completed", "failed"}
  /\ a.reason \in FailureReasons \cup {None}

ActivationCoherent(a) ==
  /\ a.phase = "creating_session" => a.session = None /\ a.cleanup = None
  /\ a.phase \notin {"creating_session", "failed"} => a.session # None
  /\ a.phase \in Finished /\ a.session # None => a.cleanup # None
  /\ a.cleanup # None => a.phase \in Finished
  /\ a.phase \notin Unaccepted => a.digest # None \/ a.reason # None
  /\ a.phase \in Unaccepted => a.digest = None
  /\ a.reason # None => a.phase = "failed"

SessionsDistinct(d) ==
  \A i, j \in DOMAIN d.activations :
    d.activations[i].session = d.activations[j].session =>
      i = j \/ d.activations[i].session = None

ActivationsCoherent(d) ==
  /\ SessionsDistinct(d)
  /\ \A i \in DOMAIN d.activations :
       /\ ActivationType(d.activations[i])
       /\ ActivationCoherent(d.activations[i])
       /\ i < LastIndex(d) => d.activations[i].phase \in Finished

StatusCoherent(d) ==
  LET last == Last(d.events).kind IN
  CASE d.status = "success" ->
         /\ d.terminal # None /\ d.terminal.result = "success"
         /\ d.failure = None
         /\ d.phase = "finished" /\ last = "run_succeeded"
         /\ \A i \in DOMAIN d.activations :
              d.activations[i].phase = "session_cleanup_completed"
    [] d.status = "failed" ->
         d.failure # None /\ d.phase = "finished" /\ last = "run_failed"
    [] d.status = "cleanup_failed" ->
         /\ d.failure = "session_cleanup_failed"
         /\ d.phase = "finished" /\ last = "run_cleanup_failed"
    [] OTHER ->
         /\ d.failure = None
         /\ d.phase # "finished"
         /\ d.phase = "validating" => d.activations = <<>>
         /\ d.phase = "running" => d.activations # <<>>
         /\ last \notin RunEnds \cup {"run_succeeded"}

\* Each committed transition against its activation and its predecessor.
TransitionCoherent(d, i) ==
  LET t == d.transitions[i] IN
    /\ t.step.from = IF i = 1 THEN d.entry ELSE d.transitions[i - 1].step.to
    /\ t.activation = i
    /\ i \in DOMAIN d.activations
    /\ d.activations[i].phase = "session_cleanup_completed"
    /\ d.activations[i].digest # None
    /\ d.activations[i].digest = t.digest
    /\ d.activations[i].state = t.step.from

CursorCoherent(d) ==
  /\ Len(d.transitions) <= d.budget
  /\ d.count = Len(d.transitions)
  /\ \A i \in DOMAIN d.transitions : TransitionCoherent(d, i)
  /\ d.cursor = IF d.transitions = <<>> THEN d.entry ELSE Last(d.transitions).step.to

TerminalCoherent(d) ==
  /\ d.terminal # None =>
       /\ d.cursor = d.terminal.state
       /\ LastIndex(d) <= Len(d.transitions)
       /\ d.phase \in {"finalizing", "finished"}
  /\ d.phase = "finalizing" => d.terminal # None
  /\ \A i \in 1..(LastIndex(d) - 1) :
       d.activations[i].phase = "session_cleanup_completed" => Len(d.transitions) >= i

-----------------------------------------------------------------------------
(* validateEventPayloadCoherence: the journal against what it is about.       *)

\* The event names the activation, transition or terminal it is the next of.
PayloadCoherent(d, n) ==
  LET e == d.events[n]
      index == CountOf(d, Started, n)
      step == CountOf(d, TransitionCommitted, n)
      AboutActivation ==
        /\ index \in DOMAIN d.activations
        /\ SubSeq(e.payload, 1, 2) = <<d.activations[index].state, index>>
  IN CASE e.kind \in {Started} \cup (Stages \ {SessionCreated}) -> AboutActivation
       [] e.kind = SessionCreated ->
            /\ AboutActivation
            /\ d.activations[index].session # None
            /\ e.payload[3] = d.activations[index].session
       [] e.kind = TransitionCommitted ->
            /\ step \in DOMAIN d.transitions
            /\ e.payload = <<d.transitions[step].step, d.transitions[step].activation>>
       [] e.kind = TerminalReached ->
            d.terminal # None /\ e.payload = <<d.terminal.state>>
       [] OTHER -> TRUE

\* The stages the journal records of activation i.
SeenStages(d, i) ==
  {d.events[n].kind : n \in {m \in DOMAIN d.events :
     d.events[m].kind \in Stages /\ CountOf(d, Started, m) = i}}

Required(phase) ==
  CASE phase = "session_created" -> {SessionCreated}
    [] phase = "agent_running" -> {SessionCreated, AgentRunning}
    [] phase = "result_accepted" -> {SessionCreated, AgentRunning, ResultAccepted}
    [] phase = "session_cleanup_completed" -> Stages \ {ActivationFailed}
    [] OTHER -> {}
Forbidden(phase) ==
  IF phase = "failed" THEN {CleanupCompleted} ELSE Stages \ Required(phase)

\* A failed activation is confirmed by its own event or by the run's last one.
FailureConfirmed(d, i) ==
  LET a == d.activations[i] IN
    /\ a.reason # None /\ a.cleanup # None
    /\ ActivationFailed \notin SeenStages(d, i) =>
         /\ i = LastIndex(d)
         /\ RunEnds \cap Kinds(d) # {}
         /\ a.cleanup = IF "run_cleanup_failed" \in Kinds(d) THEN "failed" ELSE "completed"
         /\ a.reason = d.failure

StagesConfirmed(d, i) ==
  LET a == d.activations[i]
      seen == SeenStages(d, i)
  IN /\ a.session # None => SessionCreated \in seen
     /\ Required(a.phase) \subseteq seen
     /\ Forbidden(a.phase) \cap seen = {}
     /\ (a.digest # None) = (ResultAccepted \in seen)
     /\ a.phase = "failed" => FailureConfirmed(d, i)

JournalConfirms(d) ==
  LET all == Len(d.events) IN
    /\ \A n \in DOMAIN d.events : PayloadCoherent(d, n)
    /\ CountOf(d, Started, all) = LastIndex(d)
    /\ CountOf(d, TransitionCommitted, all) = Len(d.transitions)
    /\ CountOf(d, TerminalReached, all) = IF d.terminal = None THEN 0 ELSE 1
    /\ \A i \in DOMAIN d.activations : StagesConfirmed(d, i)

Loads(d) ==
  /\ EventOrder(d)
  /\ ActivationsCoherent(d)
  /\ StatusCoherent(d)
  /\ CursorCoherent(d)
  /\ TerminalCoherent(d)
  /\ JournalConfirms(d)
=============================================================================

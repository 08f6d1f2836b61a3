------------------------- MODULE OrchestratorCommand -------------------------
(***************************************************************************)
(* One command of the orchestrator as the control plane meets it: the      *)
(* fields the subprocess client takes, the document and the exit code the  *)
(* command line ends with, what the client makes of them, and the HTTP     *)
(* answer the service gives.                                               *)
(*                                                                         *)
(* A report is what a child leaves: its document `doc' ("none" when it     *)
(* wrote none), the exit code `code' and the `reason' the document states, *)
(* the `exit' code of the process, and whether the document fits the       *)
(* client's limit.  The other members of a document are abstracted.        *)
(***************************************************************************)
EXTENDS Naturals

RunKinds == {"run", "resume", "resume_plan", "continue_stage", "revise_task"}
ReadKinds == {"inspect", "events", "logs", "project_changes", "project_change_content"}
ApplyKinds == {"project_apply", "project_apply_inspect"}

(* The fields a command of a kind must have, beside its kind, and may have. *)
Required ==
    [run |-> {"projectPath", "inputs"}, inspect |-> {"runId"}, events |-> {"runId"},
     logs |-> {"runId"}, project_changes |-> {"runId", "projectPath"},
     project_change_content |->
         {"runId", "projectPath", "changeIndex", "side", "observation"},
     resume |-> {"runId"}, resume_plan |-> {"runId", "stageId", "initialBudget"},
     continue_stage |-> {"runId", "waitIndex", "additionalIterations"},
     revise_task |-> {"runId", "waitIndex", "taskId", "taskFile"},
     respond |-> {"runId", "waitIndex", "actionId"},
     project_apply_inspect |->
         {"runId", "applyId", "projectId", "projectPath", "applyStoreRoot"},
     project_apply |-> {"runId", "applyId", "projectId", "projectPath",
                        "applyStoreRoot", "observation"}]

Allowed(kind) ==
    Required[kind] \union
    CASE kind = "run" -> {"runId", "pipelineRoot", "launcherId"}
      [] kind \in RunKinds \ {"run"} -> {"launcherId"}
      [] kind = "events" -> {"after", "limit"}
      [] kind = "logs" -> {"execIndex", "offset", "limit"}
      [] kind = "project_changes" -> {"after", "limit", "observation"}
      [] kind = "project_change_content" -> {"offset", "limit"}
      [] OTHER -> {}

(* A page of a log is asked of one execution only. *)
Captured(kind, fields) ==
    /\ Required[kind] \subseteq fields
    /\ fields \subseteq Allowed(kind)
    /\ kind = "logs" /\ fields \intersect {"offset", "limit"} # {} =>
           "execIndex" \in fields
-----------------------------------------------------------------------------
(* What the command line ends with when nothing kills it. *)

Report(doc, code, reason) ==
    [doc |-> doc, code |-> code, exit |-> code, reason |-> reason, whole |-> TRUE]

(* A refused command line, or one without its configuration: no document. *)
UsageReport == Report("none", 2, "none")

RunReports ==
    {Report(doc, 0, "none") : doc \in {"success", "waiting", "planReady"}}
        \union {Report("failure", 1, reason) : reason \in {"run_busy", "invalid_state"}}
        \union {Report("failure", 130, "signal_sigint"),
                Report("failure", 143, "signal_sigterm")}

RespondReports ==
    {Report("responded", 0, "none"), Report("failure", 1, "run_busy")}
        \union {Report("failure", 1, reason) :
                   reason \in {"invalid_response", "wait_conflict", "wait_storage_failed"}}

ReadReasons(kind) ==
    {"run_not_found"}
        \union (IF kind = "inspect" THEN {} ELSE {"invalid_cursor"})
        \union (IF kind \in {"project_changes", "project_change_content"}
                THEN {"stale_observation"} ELSE {})

ReadReports(kind) ==
    {Report("report", 0, "none")}
        \union {Report("failure", 1, reason) : reason \in ReadReasons(kind)}

ApplyReports(kind) ==
    {Report("report", 0, "none"), Report("failure", 1, "artifact_missing")}
        \union (IF kind = "project_apply"
                THEN {Report("failure", 1, "stale_observation")} ELSE {})

Reports(kind) ==
    {UsageReport} \union
    CASE kind \in RunKinds -> RunReports
      [] kind = "respond" -> RespondReports
      [] kind \in ReadKinds -> ReadReports(kind)
      [] kind \in ApplyKinds -> ApplyReports(kind)

(* A signal that no handler takes ends the child before its document is    *)
(* written or between that and its exit.                                   *)
Killed(report) ==
    {[r EXCEPT !.exit = signalled] :
        r \in {report, Report("none", 0, "none")}, signalled \in {130, 137}}
-----------------------------------------------------------------------------
(* What the subprocess client makes of a report. *)

PublicReasons ==
    {"run_not_found", "run_already_exists", "run_busy", "invalid_state",
     "signal_sigint", "signal_sigterm"}

ApplyReasons == {"artifact_missing", "run_not_found", "stale_observation"}

ParseReadFailure(r) == r.doc = "failure" /\ r.code = 1

ParseReport(r) == r.doc = "report" /\ r.code = 0

ParseRead(r) == IF r.exit = 1 THEN ParseReadFailure(r) ELSE ParseReport(r)

ParseApply(r) ==
    IF r.exit = 1 THEN ParseReadFailure(r) /\ r.reason \in ApplyReasons ELSE ParseReport(r)

ParseSuccess(kind, r) ==
    /\ r.code = 0
    /\ IF kind = "respond" THEN r.doc = "responded"
                           ELSE r.doc \in {"success", "waiting", "planReady"}

ParseFailure(r) ==
    /\ r.doc = "failure" /\ r.code = r.exit
    /\ r.reason \in PublicReasons
    /\ r.exit = 130 => r.reason = "signal_sigint"
    /\ r.exit = 143 => r.reason = "signal_sigterm"

Understood(kind, r) ==
    IF kind \in ReadKinds THEN ParseRead(r)
    ELSE IF kind \in ApplyKinds THEN ParseApply(r)
    ELSE IF r.exit = 0 THEN ParseSuccess(kind, r) ELSE ParseFailure(r)

(* Why the client has no outcome to tell, "none" when it has one; its       *)
(* limits on the two streams are one here.                                 *)
TransportReason(kind, r) ==
    IF r.exit = 2 THEN "command_rejected"
    ELSE IF r.exit \notin {0, 1, 130, 143} THEN "child_terminated"
    ELSE IF ~r.whole THEN "output_too_large"
    ELSE IF r.doc = "none" THEN "malformed_output"
    ELSE IF Understood(kind, r) THEN "none"
    ELSE "unexpected_output_shape"
-----------------------------------------------------------------------------
(* The HTTP answers. *)

StatusOf(layer, reason) ==
    CASE layer = "none" -> 200
      [] layer = "request" ->
             CASE reason = "unknown_route" -> 404
               [] reason \in {"stale_observation", "project_apply_disabled"} -> 409
               [] reason = "project_apply_not_found" -> 404
               [] OTHER -> 400
      [] layer = "registry" ->
             IF reason \in {"project_not_found", "input_not_found"} THEN 404 ELSE 400
      [] layer = "binding" ->
             CASE reason \in {"binding_conflict", "project_unavailable"} -> 409
               [] reason = "binding_not_found" -> 404
               [] OTHER -> 500
      [] layer = "transport" -> 502

Refusal(layer, reason) ==
    [status |-> StatusOf(layer, reason), layer |-> layer, reason |-> reason,
     outcome |-> "none"]

Outcome(outcome, reason) ==
    [status |-> 200, layer |-> "none", reason |-> reason, outcome |-> outcome]

ProjectCommand(r) ==
    CASE r.doc = "success" -> Outcome("succeeded", "none")
      [] r.doc = "waiting" -> Outcome("waiting", "none")
      [] r.doc = "planReady" -> Outcome("plan_ready", "none")
      [] r.doc = "responded" -> Outcome("responded", "none")
      [] r.doc = "failure" -> Outcome("failed", r.reason)

ProjectRead(r) ==
    CASE r.doc = "report" -> Outcome("report", "none")
      [] r.doc = "failure" /\ r.reason \in {"invalid_cursor", "stale_observation"} ->
             Refusal("request", r.reason)
      [] OTHER -> Outcome("failed", r.reason)

ProjectApplied(kind, r) ==
    CASE r.doc = "report" -> Outcome("report", "none")
      [] r.doc = "failure" /\ r.reason = "stale_observation" ->
             Refusal("request", "stale_observation")
      [] r.doc = "failure" /\ r.reason = "artifact_missing"
                           /\ kind = "project_apply_inspect" ->
             Refusal("request", "project_apply_not_found")
      [] OTHER -> Outcome("failed", r.reason)

Projected(kind, r) ==
    IF TransportReason(kind, r) # "none"
    THEN Refusal("transport", TransportReason(kind, r))
    ELSE CASE kind \in ReadKinds -> ProjectRead(r)
           [] kind \in ApplyKinds -> ProjectApplied(kind, r)
           [] OTHER -> ProjectCommand(r)
=============================================================================

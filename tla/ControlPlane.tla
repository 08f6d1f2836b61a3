---------------------------- MODULE ControlPlane ----------------------------
(***************************************************************************)
(* The HTTP control plane: requests that run concurrently, the bindings of *)
(* run ids to projects that outlive it, one child process of the command   *)
(* line for each request that commands a run, and a service that stops or  *)
(* crashes while its children go on and comes back with another registry.  *)
(*                                                                         *)
(* A binding is a write-once place (ImmutableStore implements that; here   *)
(* one step fills it).  What a child does to its run is the business of    *)
(* the other modules: here it creates the run's document or does not, and  *)
(* leaves one of the reports of OrchestratorCommand.  The command line     *)
(* itself may create runs too, outside the service.                        *)
(***************************************************************************)
EXTENDS OrchestratorCommand

CONSTANTS
    Runs, Projects,
    Calls,            \* slots for requests that run at the same time
    RoutesOf,         \* the routes a slot's requests may take
    Configs,          \* what the service may be started with
    Nothing

(* What the registry may declare; applies are open only with a store. *)
ValidRegistry(registry) ==
    /\ registry.projects \subseteq Projects /\ registry.projects # {}
    /\ registry.applies \subseteq registry.projects
    /\ registry.store \in BOOLEAN

ASSUME ConfigsAssumption == \A registry \in Configs : ValidRegistry(registry)

ASSUME NothingAssumption ==
    Nothing \notin Projects \union ({"service", "cli"} \X Projects) \union Configs

VARIABLES
    up,               \* the service runs
    config,           \* what it was started with
    bound,            \* the project a run id is bound to, durably
    born,             \* who made a run's document, for which project
    calls,            \* the requests in progress, by slot
    kids              \* the children, by the slot that started them

vars == <<up, config, bound, born, calls, kids>>

KindOf ==
    [fresh_run |-> "run", inspect |-> "inspect", events |-> "events",
     logs_list |-> "logs", logs_exec |-> "logs",
     project_changes |-> "project_changes",
     project_change_content |-> "project_change_content",
     project_apply_post |-> "project_apply",
     project_apply_get |-> "project_apply_inspect",
     resume |-> "resume", resume_plan |-> "resume_plan",
     continue_stage |-> "continue_stage", respond |-> "respond",
     revise_task |-> "revise_task"]

Routes == DOMAIN KindOf \union {"projects", "runs"}

(* The fields a route gives its command; the optional ones it copies. *)
Gives(route) ==
    CASE route = "fresh_run" -> {{"runId", "projectPath", "inputs"}}
      [] route = "inspect" -> {{"runId"}}
      [] route = "events" -> {{"runId"}, {"runId", "after", "limit"}}
      [] route = "logs_list" -> {{"runId"}}
      [] route = "logs_exec" ->
             {{"runId", "execIndex"},
              {"runId", "execIndex", "offset", "limit"}}
      [] route = "project_changes" ->
             {{"runId", "projectPath"},
              {"runId", "projectPath", "after", "limit", "observation"}}
      [] route = "project_change_content" ->
             {{"runId", "projectPath", "changeIndex", "side", "observation"}}
      [] route \in {"project_apply_post", "project_apply_get"} ->
             {{"runId", "applyId", "projectId", "projectPath", "applyStoreRoot"}
                 \union IF route = "project_apply_post" THEN {"observation"} ELSE {}}
      [] route = "resume" -> {{"runId"}, {"runId", "launcherId"}}
      [] route = "resume_plan" ->
             {{"runId", "stageId", "initialBudget", "launcherId"}}
      [] route = "continue_stage" ->
             {{"runId", "waitIndex", "additionalIterations", "launcherId"}}
      [] route = "respond" -> {{"runId", "waitIndex", "actionId"}}
      [] route = "revise_task" ->
             {{"runId", "waitIndex", "taskId", "taskFile", "launcherId"}}

IdleCall == [phase |-> "idle", route |-> Nothing, run |-> Nothing,
             project |-> Nothing, answer |-> Nothing]
NoKid == [status |-> "none", kind |-> Nothing, run |-> Nothing,
          project |-> Nothing, created |-> FALSE, report |-> Nothing]

Init ==
    /\ up = FALSE /\ config = Nothing
    /\ bound = [r \in Runs |-> Nothing] /\ born = [r \in Runs |-> Nothing]
    /\ calls = [c \in Calls |-> IdleCall] /\ kids = [c \in Calls |-> NoKid]
-----------------------------------------------------------------------------
(* The service. *)

Start(chosen) ==
    /\ ~up
    /\ up' = TRUE /\ config' = chosen
    /\ UNCHANGED <<bound, born, calls, kids>>

(* A stop or a crash: nobody waits for the children, and none is ended. *)
Stop ==
    /\ up
    /\ up' = FALSE /\ config' = Nothing
    /\ calls' = [c \in Calls |-> IdleCall]
    /\ UNCHANGED <<bound, born, kids>>

Receive(c, route, run, project) ==
    /\ up /\ calls[c].phase = "idle" /\ kids[c].status = "none"
    /\ route \in RoutesOf[c]
    /\ (route = "fresh_run") = (project # Nothing)
    /\ calls' = [calls EXCEPT ![c] = [IdleCall EXCEPT
           !.phase = "received", !.route = route, !.run = run, !.project = project]]
    /\ UNCHANGED <<up, config, bound, born, kids>>

Goto(c, phase) == calls' = [calls EXCEPT ![c].phase = phase]

AnswerWith(c, answer) ==
    calls' = [calls EXCEPT ![c].phase = "answered", ![c].answer = answer]

(* The gates before anything is read: host, origin, path, media type and   *)
(* body; a fresh run's body is parsed here, another route's only once its  *)
(* project is known.                                                       *)
RefuseRequest(c) ==
    /\ calls[c].phase = "received"
    /\ \E reason \in {"invalid_request", "unknown_route"} :
           AnswerWith(c, Refusal("request", reason))
    /\ UNCHANGED <<up, config, bound, born, kids>>

(* Discovery reads the registry and the bindings and spawns nothing. *)
DiscoverProjects(c) ==
    /\ calls[c].phase = "received" /\ calls[c].route = "projects"
    /\ AnswerWith(c, Outcome("listed", "none"))
    /\ UNCHANGED <<up, config, bound, born, kids>>

(* One binding that cannot be read refuses the whole list. *)
DiscoverRuns(c) ==
    /\ calls[c].phase = "received" /\ calls[c].route = "runs"
    /\ \/ AnswerWith(c, Outcome("listed", "none"))
       \/ AnswerWith(c, Refusal("binding", "binding_invalid"))
    /\ UNCHANGED <<up, config, bound, born, kids>>
-----------------------------------------------------------------------------
(* Authority: a fresh run claims its run id, every other route looks it up. *)

ResolveRun(c) ==
    /\ calls[c].phase = "received" /\ calls[c].route = "fresh_run"
    /\ IF calls[c].project \notin config.projects
       THEN AnswerWith(c, Refusal("registry", "project_not_found"))
       ELSE \/ Goto(c, "resolved")
            \/ \E reason \in {"input_not_found", "input_invalid"} :
                   AnswerWith(c, Refusal("registry", reason))
    /\ UNCHANGED <<up, config, bound, born, kids>>

\* Mutant: a published binding is replaced by the claim.
ClaimOverwrites(c) ==
    /\ calls[c].phase = "resolved"
    /\ bound' = [bound EXCEPT ![calls[c].run] = calls[c].project]
    /\ Goto(c, "authorised")
    /\ UNCHANGED <<up, config, born, kids>>

\* Mutant: the answer of a claim that meets another project is lost.
ClaimUnanswered(c) ==
    /\ calls[c].phase = "resolved"
    /\ bound[calls[c].run] \in {Nothing, calls[c].project}
    /\ bound' = [bound EXCEPT ![calls[c].run] = calls[c].project]
    /\ Goto(c, "authorised")
    /\ UNCHANGED <<up, config, born, kids>>
(* The claim may fail before the place is filled or after. *)
ClaimBinding(c) ==
    LET run == calls[c].run
        filled == IF bound[run] = Nothing THEN calls[c].project ELSE bound[run] IN
    /\ calls[c].phase = "resolved"
    /\ \/ /\ bound' = [bound EXCEPT ![run] = filled]
          /\ IF filled = calls[c].project
             THEN Goto(c, "authorised")
             ELSE AnswerWith(c, Refusal("binding", "binding_conflict"))
       \/ /\ bound' \in {bound, [bound EXCEPT ![run] = filled]}
          /\ AnswerWith(c, Refusal("binding", "binding_persist_failed"))
    /\ UNCHANGED <<up, config, born, kids>>

ResolveBound(c) ==
    LET project == bound[calls[c].run] IN
    /\ calls[c].phase = "received"
    /\ calls[c].route \in DOMAIN KindOf \ {"fresh_run"}
    /\ \/ /\ project = Nothing
          /\ AnswerWith(c, Refusal("binding", "binding_not_found"))
       \/ /\ project \notin config.projects \union {Nothing}
          /\ AnswerWith(c, Refusal("binding", "project_unavailable"))
       \/ /\ project \in config.projects
          /\ calls' = [calls EXCEPT ![c].phase = "authorised", ![c].project = project]
       \/ AnswerWith(c, Refusal("binding", "store_unavailable"))
    /\ UNCHANGED <<up, config, bound, born, kids>>
-----------------------------------------------------------------------------
(* The command. *)

(* What may still refuse a request whose project is known. *)
Gated(call) ==
    CASE call.route = "fresh_run" -> {}
      [] call.route \in {"project_apply_post", "project_apply_get"} /\ ~config.store ->
             {Refusal("request", "project_apply_disabled")}
      [] call.route = "project_apply_post" /\ config.store
                                           /\ call.project \notin config.applies ->
             {Refusal("request", "project_apply_disabled")}
      [] call.route = "revise_task" ->
             {Refusal("request", "invalid_request"), Refusal("registry", "input_not_found")}
      [] OTHER -> {Refusal("request", "invalid_request")}

Disabled(call) ==
    Refusal("request", "project_apply_disabled") \in Gated(call)

(* The command line a child is started with: what it is to do, to which    *)
(* run, for which project.                                                 *)
Routed(kind, run, project) ==
    [NoKid EXCEPT !.status = "spawned", !.kind = kind, !.run = run, !.project = project]

Spawn(c) ==
    LET call == calls[c]
        kind == KindOf[call.route] IN
    \E fields \in Gives(call.route) :
        IF ~Captured(kind, fields)
        THEN AnswerWith(c, Refusal("transport", "invalid_command")) /\ UNCHANGED kids
        ELSE \/ /\ Goto(c, "waiting")
                /\ kids' = [kids EXCEPT ![c] = Routed(kind, call.run, call.project)]
             \/ /\ AnswerWith(c, Refusal("transport", "spawn_failed"))
                /\ UNCHANGED kids

Dispatch(c) ==
    /\ calls[c].phase = "authorised"
    /\ \/ /\ \E refusal \in Gated(calls[c]) : AnswerWith(c, refusal)
          /\ UNCHANGED kids
       \/ ~Disabled(calls[c]) /\ Spawn(c)
    /\ UNCHANGED <<up, config, bound, born>>

\* Mutant: whatever document came is projected.
ProjectAnyDocument(c, report) ==
    AnswerWith(c,
        IF report.doc = "none" THEN Refusal("transport", "malformed_output")
        ELSE IF kids[c].kind \in ReadKinds \union ApplyKinds
             THEN ProjectRead(report) ELSE ProjectCommand(report))

(* A request waits for its child's exit and answers with what it left. *)
ProjectResult(c, report) == AnswerWith(c, Projected(kids[c].kind, report))

(* The answer is sent or its client is gone. *)
Forget(c) ==
    /\ calls[c].phase = "answered"
    /\ calls' = [calls EXCEPT ![c] = IdleCall]
    /\ kids' = [kids EXCEPT ![c] = NoKid]
    /\ UNCHANGED <<up, config, bound, born>>
-----------------------------------------------------------------------------
(* The children and the command line beside them. *)

ChildCreates(c) ==
    LET run == kids[c].run IN
    /\ kids[c].status = "spawned" /\ kids[c].kind = "run"
    /\ born[run] = Nothing
    /\ born' = [born EXCEPT ![run] = <<"service", kids[c].project>>]
    /\ kids' = [kids EXCEPT ![c].created = TRUE]
    /\ UNCHANGED <<up, config, bound, calls>>

(* A command for a run that does not exist. *)
Absent(kind) ==
    {UsageReport,
     Report("failure", 1, IF kind = "project_apply_inspect" THEN "artifact_missing"
                                                            ELSE "run_not_found")}

Possible(kid) ==
    CASE kid.kind = "run" /\ kid.created -> RunReports
      [] kid.kind = "run" /\ ~kid.created ->
             {UsageReport, Report("failure", 1, "run_already_exists")}
      [] kid.kind # "run" ->
             IF born[kid.run] = Nothing THEN Absent(kid.kind) ELSE Reports(kid.kind)

Endings(kid) ==
    Possible(kid)
        \union (UNION {Killed(r) : r \in Possible(kid)})
        \union {[r EXCEPT !.whole = FALSE] : r \in {q \in Possible(kid) : q.doc # "none"}}

ChildEnds(c) ==
    /\ kids[c].status = "spawned"
    /\ IF calls[c].phase = "waiting"
       THEN \E report \in Endings(kids[c]) :
                /\ kids' = [kids EXCEPT ![c].status = "done", ![c].report = report]
                /\ ProjectResult(c, report)
       ELSE kids' = [kids EXCEPT ![c] = NoKid] /\ UNCHANGED calls
    /\ UNCHANGED <<up, config, bound, born>>

CliRun(run, project) ==
    /\ born[run] = Nothing
    /\ born' = [born EXCEPT ![run] = <<"cli", project>>]
    /\ UNCHANGED <<up, config, bound, calls, kids>>
-----------------------------------------------------------------------------
Handle(c) ==
    \/ RefuseRequest(c) \/ DiscoverProjects(c) \/ DiscoverRuns(c)
    \/ ResolveRun(c) \/ ClaimBinding(c) \/ ResolveBound(c)
    \/ Dispatch(c)

Next ==
    \/ \E chosen \in Configs : Start(chosen)
    \/ Stop
    \/ \E c \in Calls, run \in Runs, route \in Routes,
         project \in Projects \union {Nothing} : Receive(c, route, run, project)
    \/ \E c \in Calls : Handle(c) \/ Forget(c) \/ ChildCreates(c) \/ ChildEnds(c)
    \/ \E run \in Runs, project \in Projects : CliRun(run, project)

Spec == Init /\ [][Next]_vars

(* The service's process runs.  Nothing says that a child ends: the client *)
(* awaits its exit without a limit.                                        *)
Fairness == \A c \in Calls : WF_vars(Handle(c))

FairSpec == Spec /\ Fairness

-----------------------------------------------------------------------------
(* Properties *)

Phases == {"idle", "received", "resolved", "authorised", "waiting", "answered"}

(* Types, and which slots hold what: a waiting request has its child, a    *)
(* request has a project only once its authority is known.                 *)
ControlTypeOK ==
    /\ up \in BOOLEAN /\ config \in Configs \union {Nothing}
    /\ up = (config # Nothing)
    /\ bound \in [Runs -> Projects \union {Nothing}]
    /\ born \in [Runs -> ({"service", "cli"} \X Projects) \union {Nothing}]
    /\ \A c \in Calls :
           /\ calls[c].phase \in Phases
           /\ ~up => calls[c] = IdleCall
           /\ calls[c].phase \in {"authorised", "waiting"} =>
                  calls[c].project \in Projects
           /\ calls[c].phase = "waiting" => kids[c].status = "spawned"
           /\ kids[c].status = "done" => kids[c].report.exit \in {0, 1, 2, 130, 137, 143}

(* Every child the service ever starts commands its run for the project    *)
(* the run id is bound to, whichever requests raced for the id, whatever   *)
(* stopped between claim and child, and whatever registry came back; a     *)
(* document the service made is of that project; and no binding changes.   *)
(* It is about the order claim, child, document in                         *)
(* dispatchControlPlaneRoute and about claimRunBindingWithIo.              *)
CommandsBound ==
    /\ \A c \in Calls : kids[c].status # "none" => bound[kids[c].run] = kids[c].project
    /\ \A r \in Runs : born[r] \in {"service"} \X Projects => bound[r] = born[r][2]

BoundAuthority ==
    /\ []CommandsBound
    /\ [][\A r \in Runs : bound[r] # Nothing => bound'[r] = bound[r]]_vars

(* The document a 200 answer is the projection of. *)
DocumentsOf(outcome) ==
    CASE outcome = "succeeded" -> {"success"}   [] outcome = "waiting" -> {"waiting"}
      [] outcome = "plan_ready" -> {"planReady"} [] outcome = "responded" -> {"responded"}
      [] outcome = "failed" -> {"failure"}       [] outcome = "report" -> {"report"}
      [] OTHER -> {}

(* What a caller is told is what happened: an outcome only when the        *)
(* request's own child stated it with the exit code that belongs to it; a  *)
(* refusal of registry or binding only when no child was started, so that  *)
(* it may be sent again; a refused run id only when another project has    *)
(* it; and a failure of the transport never hides a child that ended by    *)
(* itself with a whole outcome, `respond' aside.  It is about              *)
(* OrchestratorSubprocessClient.run, parseOutcomeDocument, the projections *)
(* and the commands of main.ts that write what they read.                  *)
Stated(kid) ==
    kid.status = "done" /\ kid.report.doc # "none" /\ kid.report.whole
        /\ kid.report.exit = kid.report.code

AnswerTrue(call, kid) ==
    LET answer == call.answer IN
    /\ answer.outcome \notin {"none", "listed"} =>
           /\ kid.status = "done" /\ kid.report.doc \in DocumentsOf(answer.outcome)
           /\ kid.kind \notin ReadKinds \union ApplyKinds => Stated(kid)
    /\ answer.layer \in {"registry", "binding"} => kid.status = "none"
    /\ answer.layer = "request" /\ kid.status # "none" =>
           kid.report.doc = "failure"
    /\ answer.reason = "binding_conflict" => bound[call.run] \notin {Nothing, call.project}
    /\ answer.layer = "transport" /\ kid.kind # "respond" => ~Stated(kid)
    /\ answer.reason # "invalid_command"

AnswersTrue ==
    /\ ControlTypeOK
    /\ \A c \in Calls : calls[c].phase = "answered" => AnswerTrue(calls[c], kids[c])

(* "A correctly received orchestrator outcome is a 200 command_result      *)
(* projection (failed outcomes stay 200 with their public reason - never   *)
(* reclassified into an HTTP status)" (docs/orchestration-workflow.md,     *)
(* Control-plane HTTP service).  `respond' writes reasons the client's     *)
(* vocabulary lacks.                                                       *)
OutcomesReachTheCaller ==
    \A c \in Calls :
        calls[c].phase = "answered" /\ kids[c].kind \in RunKinds \union {"respond"}
            /\ Stated(kids[c]) =>
            calls[c].answer.status = 200

(* "A CLI-created run without a binding fails closed - it is never         *)
(* adopted" (run_binding_store.ts).  A fresh run posted for its id claims  *)
(* the binding before the child refuses it, and the run is commanded for   *)
(* that project from then on.                                              *)
NeverAdopted ==
    [][\A r \in Runs : born[r] \in {"cli"} \X Projects /\ bound[r] = Nothing =>
            bound'[r] = Nothing]_vars

(* Every request is answered, unless the service stops or the request's    *)
(* own child never ends: a child that hangs keeps no other request         *)
(* waiting, whichever two race for one run id.  It is about the handler of *)
(* http_server.ts and OrchestratorSubprocessClient.run.                    *)
InProgress(c) == calls[c].phase \in {"received", "resolved", "authorised", "waiting"}
ChildRuns(c) == calls[c].phase = "waiting" /\ kids[c].status = "spawned"

RequestsReturn ==
    \A c \in Calls :
        InProgress(c) ~> (calls[c].phase \in {"answered", "idle"} \/ []ChildRuns(c))
=============================================================================

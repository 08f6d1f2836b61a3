-------------------------- MODULE ControlPlaneProofs --------------------------
(***************************************************************************)
(* Theorems about the authority of the control plane's commands and about  *)
(* its answers, for any number of runs, projects and requests, and any     *)
(* registries the service comes back with.                                 *)
(***************************************************************************)
EXTENDS ControlPlane, TLAPS

-----------------------------------------------------------------------------
(* The inductive invariant.                                                *)

CallFields == {"phase", "route", "run", "project", "answer"}
KidFields == {"status", "kind", "run", "project", "created", "report"}

IsCall(call) == call = [f \in CallFields |-> call[f]]
IsKid(kid) == kid = [f \in KidFields |-> kid[f]]

Shapes ==
    /\ calls = [c \in Calls |-> calls[c]] /\ \A c \in Calls : IsCall(calls[c])
    /\ kids = [c \in Calls |-> kids[c]] /\ \A c \in Calls : IsKid(kids[c])
    /\ bound \in [Runs -> Projects \union {Nothing}]
    /\ born = [r \in Runs |-> born[r]]

\* The service has its registry as long as it runs, and nobody has a request
\* in progress when it does not.
RegistryInv ==
    /\ up => config \in Configs
    /\ \A c \in Calls : ~up => calls[c].phase = "idle"

\* What a request knows of its run and project as it goes on.
Asks(call) ==
    /\ call.phase # "idle" => call.run \in Runs
    /\ call.phase = "resolved" => call.project \in Projects
    /\ call.phase = "authorised" =>
           call.project \in Projects /\ bound[call.run] = call.project

\* A child commands its run for the project the run id is bound to.
Commands(kid) ==
    kid.status # "none" =>
        kid.run \in Runs /\ kid.project \in Projects /\ bound[kid.run] = kid.project

AuthorityInv ==
    /\ \A c \in Calls : Asks(calls[c]) /\ Commands(kids[c])
    /\ \A r \in Runs : born[r] \in {"service"} \X Projects => bound[r] = born[r][2]

Inv == Shapes /\ RegistryInv /\ AuthorityInv

BindingsStay == \A r \in Runs : bound[r] # Nothing => bound'[r] = bound[r]

-----------------------------------------------------------------------------
(* A step of one request or child, or of nobody, keeps what the others have.*)

\* Only one call, one child and their own run's document change.
Frame(c) ==
    /\ \A d \in Calls \ {c} : calls'[d] = calls[d] /\ kids'[d] = kids[d]
    /\ calls' = [d \in Calls |-> calls'[d]] /\ kids' = [d \in Calls |-> kids'[d]]
    /\ up' = up /\ config' = config
    /\ bound' \in [Runs -> Projects \union {Nothing}] /\ born' = [r \in Runs |-> born'[r]]

LEMMA FrameInv ==
  ASSUME Inv, NEW c \in Calls, Frame(c), BindingsStay,
         IsCall(calls'[c]), IsKid(kids'[c]),
         up \/ calls'[c].phase = "idle",
         Asks(calls[c])', Commands(kids[c])',
         \A r \in Runs : born'[r] = born[r] \/ (born'[r] \in {"service"} \X Projects =>
                             bound'[r] = born'[r][2])
  PROVE  Inv'
<1>1. Shapes'
  BY DEF Inv, Shapes, Frame, IsCall, IsKid
<1>2. RegistryInv'
  BY DEF Inv, RegistryInv, Frame
<1>3. ASSUME NEW d \in Calls \ {c} PROVE Asks(calls[d])' /\ Commands(kids[d])'
  <2>1. calls'[d] = calls[d] /\ kids'[d] = kids[d]
    BY DEF Frame
  <2>2. Asks(calls[d]) /\ Commands(kids[d])
    BY DEF Inv, AuthorityInv
  <2>3. Asks(calls[d])'
    BY <2>1, <2>2, NothingAssumption DEF Asks, BindingsStay
  <2>4. Commands(kids[d])'
    BY <2>1, <2>2, NothingAssumption DEF Commands, BindingsStay
  <2>5. QED
    BY <2>3, <2>4
<1>4. ASSUME NEW r \in Runs, born'[r] \in {"service"} \X Projects
      PROVE  bound'[r] = born'[r][2]
  BY <1>4, NothingAssumption DEF Inv, AuthorityInv, BindingsStay
<1>5. QED
  BY <1>1, <1>2, <1>3, <1>4 DEF Inv, AuthorityInv

\* The run id's place and the children stay; one request moves.
CallMoves(c) ==
    /\ UNCHANGED <<up, config, bound, born, kids>>
    /\ calls' = [d \in Calls |-> calls'[d]] /\ IsCall(calls'[c])
    /\ \A d \in Calls \ {c} : calls'[d] = calls[d]

LEMMA CallMovesInv ==
  ASSUME Inv, NEW c \in Calls, CallMoves(c), Asks(calls[c])', up \/ calls'[c].phase = "idle"
  PROVE  Inv' /\ BindingsStay
<1>1. Frame(c) /\ BindingsStay
  BY DEF CallMoves, Frame, Inv, Shapes, BindingsStay
<1>2. Commands(kids[c])' /\ IsKid(kids'[c])
  BY DEF CallMoves, Commands, Inv, Shapes, AuthorityInv
<1>3. IsCall(calls'[c]) /\ born' = born
  BY DEF CallMoves
<1>4. QED
  BY <1>1, <1>2, <1>3, FrameInv

\* A request that is in progress is answered, and its run and project stay.
LEMMA Answers ==
  ASSUME Inv, NEW c \in Calls, NEW answer, AnswerWith(c, answer)
  PROVE  /\ calls' = [d \in Calls |-> calls'[d]] /\ IsCall(calls'[c])
         /\ \A d \in Calls \ {c} : calls'[d] = calls[d]
         /\ calls'[c].phase = "answered" /\ calls'[c].run = calls[c].run
<1>1. calls = [d \in Calls |-> calls[d]] /\ \A d \in Calls : IsCall(calls[d])
  BY DEF Inv, Shapes
<1>2. QED
  BY <1>1 DEF AnswerWith, IsCall, CallFields

LEMMA Answered ==
  ASSUME Inv, NEW c \in Calls, calls[c].phase # "idle", NEW answer,
         UNCHANGED <<up, config, bound, born, kids>>, AnswerWith(c, answer)
  PROVE  Inv' /\ BindingsStay
<1>1. CallMoves(c) /\ calls'[c].phase = "answered" /\ calls'[c].run = calls[c].run
  BY Answers DEF CallMoves
<1>2. Asks(calls[c]) /\ up
  BY DEF Inv, RegistryInv, AuthorityInv
<1>3. Asks(calls[c])'
  BY <1>1, <1>2 DEF Asks
<1>4. QED
  BY <1>1, <1>2, <1>3, CallMovesInv

-----------------------------------------------------------------------------
(* The service and its requests.                                           *)

LEMMA ServiceInv ==
  ASSUME Inv, Stop \/ \E chosen \in Configs : Start(chosen)
  PROVE  Inv' /\ BindingsStay
<1>1. CASE Stop
  <2>1. Shapes'
    BY <1>1 DEF Stop, Inv, Shapes, IsCall, CallFields, IdleCall
  <2>2. RegistryInv' /\ AuthorityInv'
    BY <1>1 DEF Stop, Inv, RegistryInv, AuthorityInv, IdleCall, Asks, Commands
  <2>3. QED
    BY <1>1, <2>1, <2>2 DEF Stop, Inv, BindingsStay
<1>2. ASSUME NEW chosen \in Configs, Start(chosen)
      PROVE  Inv' /\ BindingsStay
  BY <1>2 DEF Start, Inv, Shapes, RegistryInv, AuthorityInv, Asks, Commands, BindingsStay
<1>3. QED
  BY <1>1, <1>2

LEMMA ReceiveInv ==
  ASSUME Inv, NEW c \in Calls, NEW route \in Routes, NEW run \in Runs,
         NEW project \in Projects \union {Nothing}, Receive(c, route, run, project)
  PROVE  Inv' /\ BindingsStay
<1>1. CallMoves(c) /\ calls'[c].phase = "received" /\ calls'[c].run = run
  BY DEF Receive, IdleCall, CallMoves, Inv, Shapes, IsCall, CallFields
<1>2. up
  BY DEF Receive
<1>3. Asks(calls[c])'
  BY <1>1 DEF Asks
<1>4. QED
  BY <1>1, <1>2, <1>3, CallMovesInv

LEMMA ResolveInv ==
  ASSUME Inv, NEW c \in Calls,
         \/ RefuseRequest(c) \/ DiscoverProjects(c) \/ DiscoverRuns(c)
         \/ ResolveRun(c) \/ ResolveBound(c)
  PROVE  Inv' /\ BindingsStay
<1>1. calls[c].phase = "received" /\ UNCHANGED <<up, config, bound, born, kids>>
  BY DEF RefuseRequest, DiscoverProjects, DiscoverRuns, ResolveRun, ResolveBound
<1>2. /\ calls = [d \in Calls |-> calls[d]] /\ IsCall(calls[c])
      /\ Asks(calls[c]) /\ config.projects \subseteq Projects
  BY <1>1, ConfigsAssumption DEF Inv, Shapes, RegistryInv, AuthorityInv, ValidRegistry
<1>3. up
  BY <1>1 DEF Inv, RegistryInv
<1>4. ASSUME NEW answer, AnswerWith(c, answer) PROVE Inv' /\ BindingsStay
  BY <1>1, <1>4, Answered
<1>5. CASE Goto(c, "resolved") /\ calls[c].project \in config.projects
  <2>1. /\ CallMoves(c) /\ calls'[c].phase = "resolved" /\ calls'[c].run = calls[c].run
        /\ calls'[c].project = calls[c].project
    BY <1>1, <1>2, <1>5 DEF Goto, CallMoves, IsCall, CallFields
  <2>2. Asks(calls[c])'
    BY <1>1, <1>2, <1>5, <2>1 DEF Asks
  <2>3. QED
    BY <1>3, <2>1, <2>2, CallMovesInv
<1>6. CASE /\ bound[calls[c].run] \in config.projects
           /\ calls' = [calls EXCEPT ![c].phase = "authorised",
                                     ![c].project = bound[calls[c].run]]
  <2>1. /\ CallMoves(c) /\ calls'[c].phase = "authorised" /\ calls'[c].run = calls[c].run
        /\ calls'[c].project = bound[calls[c].run]
    BY <1>1, <1>2, <1>6 DEF CallMoves, IsCall, CallFields
  <2>2. Asks(calls[c])'
    BY <1>1, <1>2, <1>6, <2>1 DEF Asks
  <2>3. QED
    BY <1>3, <2>1, <2>2, CallMovesInv
<1>7. QED
  BY <1>4, <1>5, <1>6
     DEF RefuseRequest, DiscoverProjects, DiscoverRuns, ResolveRun, ResolveBound

LEMMA ClaimInv ==
  ASSUME Inv, NEW c \in Calls, ClaimBinding(c)
  PROVE  Inv' /\ BindingsStay
<1>. DEFINE run == calls[c].run
            filled == IF bound[run] = Nothing THEN calls[c].project ELSE bound[run]
<1>1. /\ run \in Runs /\ calls[c].project \in Projects /\ filled \in Projects
      /\ UNCHANGED <<up, config, born, kids>>
  BY DEF ClaimBinding, Inv, Shapes, AuthorityInv, Asks
<1>2. up
  BY DEF ClaimBinding, Inv, RegistryInv
<1>3. bound' = bound \/ bound' = [bound EXCEPT ![run] = filled]
  BY DEF ClaimBinding
<1>4. BindingsStay /\ bound' \in [Runs -> Projects \union {Nothing}]
  BY <1>1, <1>3 DEF Inv, Shapes, BindingsStay
<1>5. /\ calls' = [d \in Calls |-> calls'[d]] /\ IsCall(calls'[c])
      /\ \A d \in Calls \ {c} : calls'[d] = calls[d]
      /\ calls'[c].run = run
      /\ \/ calls'[c].phase = "answered"
         \/ /\ calls'[c].phase = "authorised" /\ calls'[c].project = calls[c].project
            /\ bound' = [bound EXCEPT ![run] = filled] /\ filled = calls[c].project
  <2>1. CASE Goto(c, "authorised") /\ bound' = [bound EXCEPT ![run] = filled]
             /\ filled = calls[c].project
    BY <2>1 DEF Goto, Inv, Shapes, IsCall, CallFields
  <2>2. CASE \E answer : AnswerWith(c, answer)
    BY <2>2, Answers
  <2>3. QED
    BY <2>1, <2>2 DEF ClaimBinding
<1>6. Asks(calls[c])'
  BY <1>1, <1>5 DEF Asks, Inv, Shapes
<1>7. Commands(kids[c])' /\ IsKid(kids'[c])
  BY <1>1, <1>4, NothingAssumption DEF Inv, Shapes, AuthorityInv, Commands, BindingsStay
<1>8. Frame(c)
  BY <1>1, <1>4, <1>5 DEF Frame, Inv, Shapes
<1>9. QED
  BY <1>1, <1>2, <1>4, <1>5, <1>6, <1>7, <1>8, FrameInv

-----------------------------------------------------------------------------
(* The commands and their children.                                        *)

LEMMA SpawnInv ==
  ASSUME Inv, NEW c \in Calls, calls[c].phase = "authorised", NEW kind,
         Goto(c, "waiting"), UNCHANGED <<up, config, bound, born>>,
         kids' = [kids EXCEPT ![c] = Routed(kind, calls[c].run, calls[c].project)]
  PROVE  Inv' /\ BindingsStay
<1>1. /\ calls[c].run \in Runs /\ calls[c].project \in Projects
      /\ bound[calls[c].run] = calls[c].project
  BY DEF Inv, AuthorityInv, Asks
<1>2. up
  BY DEF Inv, RegistryInv
<1>3. /\ calls' = [d \in Calls |-> calls'[d]] /\ IsCall(calls'[c])
      /\ \A d \in Calls \ {c} : calls'[d] = calls[d]
      /\ calls'[c].phase = "waiting" /\ calls'[c].run = calls[c].run
  BY DEF Goto, Inv, Shapes, IsCall, CallFields
<1>4. /\ kids' = [d \in Calls |-> kids'[d]] /\ IsKid(kids'[c])
      /\ \A d \in Calls \ {c} : kids'[d] = kids[d]
      /\ kids'[c].run = calls[c].run /\ kids'[c].project = calls[c].project
  BY DEF Routed, NoKid, Inv, Shapes, IsKid, KidFields
<1>5. Frame(c) /\ BindingsStay
  BY <1>3, <1>4 DEF Frame, Inv, Shapes, BindingsStay
<1>6. Asks(calls[c])' /\ Commands(kids[c])'
  BY <1>1, <1>3, <1>4 DEF Asks, Commands
<1>7. QED
  BY <1>2, <1>3, <1>4, <1>5, <1>6, FrameInv

LEMMA DispatchInv ==
  ASSUME Inv, NEW c \in Calls, Dispatch(c)
  PROVE  Inv' /\ BindingsStay
<1>1. calls[c].phase = "authorised" /\ UNCHANGED <<up, config, bound, born>>
  BY DEF Dispatch
<1>2. ASSUME NEW answer, AnswerWith(c, answer), kids' = kids
      PROVE  Inv' /\ BindingsStay
  BY <1>1, <1>2, Answered
<1>3. ASSUME NEW kind, Goto(c, "waiting"),
             kids' = [kids EXCEPT ![c] = Routed(kind, calls[c].run, calls[c].project)]
      PROVE  Inv' /\ BindingsStay
  BY <1>1, <1>3, SpawnInv
<1>4. QED
  BY <1>2, <1>3 DEF Dispatch, Spawn

\* A child that goes on, ends or is forgotten stays the child of its command.
LEMMA ChildInv ==
  ASSUME Inv, NEW c \in Calls, Forget(c) \/ ChildCreates(c) \/ ChildEnds(c)
  PROVE  Inv' /\ BindingsStay
<1>1. UNCHANGED <<up, config, bound>> /\ BindingsStay
  BY DEF Forget, ChildCreates, ChildEnds, BindingsStay
<1>2. Asks(calls[c]) /\ Commands(kids[c])
  BY DEF Inv, AuthorityInv
<1>3. /\ calls' = [d \in Calls |-> calls'[d]] /\ IsCall(calls'[c])
      /\ \A d \in Calls \ {c} : calls'[d] = calls[d]
      /\ \/ calls'[c] = calls[c]
         \/ calls'[c].phase = "idle"
         \/ /\ calls'[c].phase = "answered" /\ calls'[c].run = calls[c].run
            /\ calls[c].phase # "idle"
  <2>1. CASE calls' = calls
    BY <2>1 DEF Inv, Shapes
  <2>2. CASE calls' = [calls EXCEPT ![c] = IdleCall]
    BY <2>2 DEF Inv, Shapes, IdleCall, IsCall, CallFields
  <2>3. CASE calls[c].phase = "waiting" /\ \E answer : AnswerWith(c, answer)
    BY <2>3, Answers
  <2>4. QED
    BY <2>1, <2>2, <2>3 DEF Forget, ChildCreates, ChildEnds, ProjectResult
<1>4. /\ kids' = [d \in Calls |-> kids'[d]] /\ IsKid(kids'[c])
      /\ \A d \in Calls \ {c} : kids'[d] = kids[d]
      /\ \/ kids'[c].status = "none"
         \/ /\ kids[c].status # "none"
            /\ kids'[c].run = kids[c].run /\ kids'[c].project = kids[c].project
  <2>1. kids = [d \in Calls |-> kids[d]] /\ IsKid(kids[c])
    BY DEF Inv, Shapes
  <2>2. CASE kids' = [kids EXCEPT ![c] = NoKid]
    BY <2>1, <2>2 DEF NoKid, IsKid, KidFields
  <2>3. CASE ChildCreates(c)
    BY <2>1, <2>3 DEF ChildCreates, IsKid, KidFields
  <2>4. CASE ChildEnds(c) /\ calls[c].phase = "waiting"
    BY <2>1, <2>4 DEF ChildEnds, IsKid, KidFields
  <2>5. QED
    BY <2>2, <2>3, <2>4 DEF Forget, ChildEnds
<1>5. Asks(calls[c])'
  BY <1>1, <1>2, <1>3 DEF Asks
<1>6. Commands(kids[c])'
  BY <1>1, <1>2, <1>4 DEF Commands
<1>7. /\ born' = [r \in Runs |-> born'[r]]
      /\ \A r \in Runs : \/ born'[r] = born[r]
                         \/ born'[r] = <<"service", bound[r]>>
  <2>1. CASE born' = born
    BY <2>1 DEF Inv, Shapes
  <2>2. CASE ChildCreates(c)
    BY <1>2, <2>2 DEF ChildCreates, Commands, Inv, Shapes
  <2>3. QED
    BY <2>1, <2>2 DEF Forget, ChildEnds
<1>8. Frame(c)
  BY <1>1, <1>3, <1>4, <1>7 DEF Frame, Inv, Shapes
<1>9. up \/ calls'[c].phase = "idle"
  BY <1>3 DEF Inv, RegistryInv
<1>10. QED
  BY <1>1, <1>3, <1>4, <1>5, <1>6, <1>7, <1>8, <1>9, FrameInv

\* The command line's own runs are nobody's binding.
LEMMA CliInv ==
  ASSUME Inv, NEW run \in Runs, NEW project \in Projects, CliRun(run, project)
  PROVE  Inv' /\ BindingsStay
<1>1. /\ Shapes' /\ RegistryInv' /\ BindingsStay
      /\ \A c \in Calls : Asks(calls[c])' /\ Commands(kids[c])'
  BY DEF CliRun, Inv, Shapes, RegistryInv, AuthorityInv, Asks, Commands, BindingsStay
<1>2. ASSUME NEW r \in Runs, born'[r] \in {"service"} \X Projects
      PROVE  bound'[r] = born'[r][2]
  BY <1>2 DEF CliRun, Inv, Shapes, AuthorityInv
<1>3. QED
  BY <1>1, <1>2 DEF Inv, AuthorityInv

-----------------------------------------------------------------------------
LEMMA InvInit == Init => Inv
<1>. SUFFICES ASSUME Init PROVE Inv
  OBVIOUS
<1>1. IsCall(IdleCall) /\ IdleCall.phase = "idle"
  BY DEF IdleCall, IsCall, CallFields
<1>2. IsKid(NoKid) /\ NoKid.status = "none"
  BY DEF NoKid, IsKid, KidFields
<1>3. Shapes
  BY <1>1, <1>2 DEF Init, Shapes
<1>4. RegistryInv
  BY <1>1 DEF Init, RegistryInv
<1>5. \A c \in Calls : Asks(calls[c]) /\ Commands(kids[c])
  BY <1>1, <1>2 DEF Init, Asks, Commands
<1>6. \A r \in Runs : born[r] \notin {"service"} \X Projects
  BY NothingAssumption DEF Init
<1>7. QED
  BY <1>3, <1>4, <1>5, <1>6 DEF Inv, AuthorityInv

LEMMA InvNext == Inv /\ [Next]_vars => Inv' /\ BindingsStay
<1>. SUFFICES ASSUME Inv, [Next]_vars PROVE Inv' /\ BindingsStay
  OBVIOUS
<1>1. ASSUME NEW c \in Calls, Handle(c) \/ Forget(c) \/ ChildCreates(c) \/ ChildEnds(c)
      PROVE  Inv' /\ BindingsStay
  BY <1>1, ResolveInv, ClaimInv, DispatchInv, ChildInv DEF Handle
<1>2. CASE UNCHANGED vars
  BY <1>2 DEF vars, Inv, Shapes, RegistryInv, AuthorityInv, Asks, Commands, BindingsStay
<1>3. QED
  BY <1>1, <1>2, ServiceInv, ReceiveInv, CliInv DEF Next

\* Every child and every document of the service works for the project its run
\* id is bound to, and a binding never changes, however many requests race and
\* whatever stops in between.
THEOREM BoundAuthorityAlways == Spec => BoundAuthority
<1>1. Inv => CommandsBound
  BY DEF Inv, AuthorityInv, Commands, CommandsBound
<1>2. Inv /\ [Next]_vars => [BindingsStay]_vars
  BY InvNext
<1>3. QED
  BY <1>1, <1>2, InvInit, InvNext, PTL DEF Spec, BoundAuthority, BindingsStay

-----------------------------------------------------------------------------
(* What a caller is told.  First the reports: what one may say, how a       *)
(* child may end with it, and what is made of it.                           *)

Kinds == RunKinds \union {"respond"} \union ReadKinds \union ApplyKinds

\* The documents a command of a kind may leave, whatever its run was.
Says(kind, r) ==
    \/ r.doc = "none" /\ r.code \in {0, 2} /\ r.reason = "none"
    \/ /\ kind \in RunKinds
       /\ \/ r.doc \in {"success", "waiting", "planReady"} /\ r.code = 0 /\ r.reason = "none"
          \/ r.doc = "failure" /\ r.code = 1 /\ r.reason \in
                 {"run_busy", "invalid_state", "run_already_exists", "run_not_found"}
          \/ r.doc = "failure" /\ r.code = 130 /\ r.reason = "signal_sigint"
          \/ r.doc = "failure" /\ r.code = 143 /\ r.reason = "signal_sigterm"
    \/ /\ kind = "respond"
       /\ \/ r.doc = "responded" /\ r.code = 0 /\ r.reason = "none"
          \/ r.doc = "failure" /\ r.code = 1 /\ r.reason \in
                 {"run_busy", "invalid_response", "wait_conflict", "wait_storage_failed",
                  "run_not_found"}
    \/ /\ kind \in ReadKinds \union ApplyKinds
       /\ \/ r.doc = "report" /\ r.code = 0 /\ r.reason = "none"
          \/ r.doc = "failure" /\ r.code = 1 /\ r.reason \in
                 {"run_not_found", "stale_observation"}
                     \union IF kind \in ApplyKinds THEN {"artifact_missing"}
                                                   ELSE {"invalid_cursor"}

ReportFields == {"doc", "code", "exit", "reason", "whole"}
IsReport(r) == r = [f \in ReportFields |-> r[f]]

\* A child that ends by itself.
Whole(kind, r) == IsReport(r) /\ Says(kind, r) /\ r.exit = r.code /\ r.whole = TRUE

LEMMA WholeReport ==
  ASSUME NEW kind, NEW doc, NEW code, NEW reason, NEW r, r = Report(doc, code, reason),
         Says(kind, r)
  PROVE  Whole(kind, r)
<1>1. IsReport(r) /\ r.code = code /\ r.exit = code /\ r.whole = TRUE
  BY DEF Report, IsReport, ReportFields
<1>2. QED
  BY <1>1 DEF Whole

LEMMA UsageWhole ==
  ASSUME NEW kind
  PROVE  Whole(kind, UsageReport)
<1> DEFINE r == UsageReport
<1>1. r = Report("none", 2, "none")
  BY DEF UsageReport
<1> HIDE DEF r
<1>2. r.doc = "none" /\ r.code = 2 /\ r.reason = "none"
  BY <1>1 DEF Report
<1>3. Says(kind, r)
  BY <1>2 DEF Says
<1>4. Whole(kind, r)
  BY <1>1, <1>3, WholeReport
<1>5. QED
  BY <1>4 DEF r

\* What each kind of command ends with, by itself.
LEMMA RunWhole ==
  ASSUME NEW kind \in RunKinds, NEW r \in RunReports
  PROVE  Whole(kind, r)
<1>1. CASE \E doc \in {"success", "waiting", "planReady"} : r = Report(doc, 0, "none")
  <2>1. PICK doc \in {"success", "waiting", "planReady"} : r = Report(doc, 0, "none")
    BY <1>1
  <2>2. r.doc = doc /\ r.code = 0 /\ r.reason = "none"
    BY <2>1 DEF Report
  <2>3. Says(kind, r)
    BY <2>2 DEF Says
  <2>4. QED
    BY <2>1, <2>3, WholeReport
<1>2. CASE \E reason \in {"run_busy", "invalid_state"} : r = Report("failure", 1, reason)
  <2>1. PICK reason \in {"run_busy", "invalid_state"} : r = Report("failure", 1, reason)
    BY <1>2
  <2>2. r.doc = "failure" /\ r.code = 1 /\ r.reason = reason
    BY <2>1 DEF Report
  <2>3. Says(kind, r)
    BY <2>2 DEF Says
  <2>4. QED
    BY <2>1, <2>3, WholeReport
<1>3. CASE r = Report("failure", 130, "signal_sigint")
  <2>1. r.doc = "failure" /\ r.code = 130 /\ r.reason = "signal_sigint"
    BY <1>3 DEF Report
  <2>2. Says(kind, r)
    BY <2>1 DEF Says
  <2>3. QED
    BY <1>3, <2>2, WholeReport
<1>4. CASE r = Report("failure", 143, "signal_sigterm")
  <2>1. r.doc = "failure" /\ r.code = 143 /\ r.reason = "signal_sigterm"
    BY <1>4 DEF Report
  <2>2. Says(kind, r)
    BY <2>1 DEF Says
  <2>3. QED
    BY <1>4, <2>2, WholeReport
<1>5. QED
  BY <1>1, <1>2, <1>3, <1>4 DEF RunReports

LEMMA RespondWhole ==
  ASSUME NEW r \in RespondReports
  PROVE  Whole("respond", r)
<1>1. CASE r = Report("responded", 0, "none")
  <2>1. r.doc = "responded" /\ r.code = 0 /\ r.reason = "none"
    BY <1>1 DEF Report
  <2>2. Says("respond", r)
    BY <2>1 DEF Says
  <2>3. QED
    BY <1>1, <2>2, WholeReport
<1>2. CASE \E reason \in {"run_busy", "invalid_response", "wait_conflict",
                          "wait_storage_failed"} : r = Report("failure", 1, reason)
  <2>1. PICK reason \in {"run_busy", "invalid_response", "wait_conflict",
                         "wait_storage_failed"} : r = Report("failure", 1, reason)
    BY <1>2
  <2>2. r.doc = "failure" /\ r.code = 1 /\ r.reason = reason
    BY <2>1 DEF Report
  <2>3. Says("respond", r)
    BY <2>2 DEF Says
  <2>4. QED
    BY <2>1, <2>3, WholeReport
<1>3. QED
  BY <1>1, <1>2 DEF RespondReports

LEMMA ReportWhole ==
  ASSUME NEW kind \in ReadKinds \union ApplyKinds, NEW r,
         \/ r = Report("report", 0, "none")
         \/ \E reason \in {"run_not_found", "stale_observation"}
                 \union IF kind \in ApplyKinds THEN {"artifact_missing"}
                                               ELSE {"invalid_cursor"} :
                r = Report("failure", 1, reason)
  PROVE  Whole(kind, r)
<1>1. CASE r = Report("report", 0, "none")
  <2>1. r.doc = "report" /\ r.code = 0 /\ r.reason = "none"
    BY <1>1 DEF Report
  <2>2. Says(kind, r)
    BY <2>1 DEF Says
  <2>3. QED
    BY <1>1, <2>2, WholeReport
<1>2. CASE r # Report("report", 0, "none")
  <2>1. PICK reason \in {"run_not_found", "stale_observation"}
                 \union IF kind \in ApplyKinds THEN {"artifact_missing"}
                                               ELSE {"invalid_cursor"} :
          r = Report("failure", 1, reason)
    BY <1>2
  <2>2. r.doc = "failure" /\ r.code = 1 /\ r.reason = reason
    BY <2>1 DEF Report
  <2>3. Says(kind, r)
    BY <2>1, <2>2 DEF Says
  <2>4. QED
    BY <2>1, <2>3, WholeReport
<1>3. QED
  BY <1>1, <1>2

\* The kinds are different words.
LEMMA KindsApart ==
  /\ RunKinds \intersect (ReadKinds \union ApplyKinds \union {"respond"}) = {}
  /\ ReadKinds \intersect (ApplyKinds \union {"respond"}) = {}
  /\ "respond" \notin ApplyKinds /\ "run" \in RunKinds
BY DEF RunKinds, ReadKinds, ApplyKinds

LEMMA ReportsWhole ==
  ASSUME NEW kind \in Kinds, NEW r \in Reports(kind)
  PROVE  Whole(kind, r)
<1>1. CASE r = UsageReport
  BY <1>1, UsageWhole
<1>2. CASE kind \in RunKinds /\ r \in RunReports
  BY <1>2, RunWhole
<1>3. CASE kind = "respond" /\ r \in RespondReports
  BY <1>3, RespondWhole
<1>4. CASE kind \in ReadKinds /\ r \in ReadReports(kind)
  <2>1. ReadReasons(kind) \subseteq {"run_not_found", "invalid_cursor", "stale_observation"}
        /\ kind \notin ApplyKinds
    BY <1>4, KindsApart DEF ReadReasons
  <2>2. QED
    BY <1>4, <2>1, ReportWhole DEF ReadReports
<1>5. CASE kind \in ApplyKinds /\ r \in ApplyReports(kind)
  <2>1. \/ r = Report("report", 0, "none")
        \/ \E reason \in {"artifact_missing", "stale_observation"} :
              r = Report("failure", 1, reason)
    BY <1>5 DEF ApplyReports
  <2>2. QED
    BY <1>5, <2>1, ReportWhole
<1>6. QED
  BY <1>1, <1>2, <1>3, <1>4, <1>5, KindsApart DEF Kinds, Reports

\* However a child ends: it says what a command of its kind may say, and a
\* signal may have changed the exit code.
LEMMA PossibleWhole ==
  ASSUME NEW kid, kid.kind \in Kinds, NEW r \in Possible(kid)
  PROVE  Whole(kid.kind, r)
<1> DEFINE kind == kid.kind
<1>1. CASE r = UsageReport
  BY <1>1, UsageWhole
<1>2. CASE kind = "run" /\ r \in RunReports
  BY <1>2, RunWhole, KindsApart
<1>3. CASE kind = "run" /\ r = Report("failure", 1, "run_already_exists")
  <2>1. r.doc = "failure" /\ r.code = 1 /\ r.reason = "run_already_exists"
    BY <1>3 DEF Report
  <2>2. Says(kind, r)
    BY <1>3, <2>1, KindsApart DEF Says
  <2>3. QED
    BY <1>3, <2>2, WholeReport
<1>4. CASE r = Report("failure", 1, "artifact_missing") /\ kind \in ApplyKinds
  BY <1>4, ReportWhole
<1>5. CASE r = Report("failure", 1, "run_not_found")
  <2>1. r.doc = "failure" /\ r.code = 1 /\ r.reason = "run_not_found"
    BY <1>5 DEF Report
  <2>2. Says(kind, r)
    BY <2>1 DEF Says, Kinds
  <2>3. QED
    BY <1>5, <2>2, WholeReport
<1>6. CASE r \in Reports(kind)
  BY <1>6, ReportsWhole
<1>7. CASE kind = "run"
  <2>1. \/ kid.created /\ r \in RunReports
        \/ ~kid.created /\ r \in {UsageReport, Report("failure", 1, "run_already_exists")}
    BY <1>7 DEF Possible
  <2>2. QED
    BY <1>1, <1>2, <1>3, <1>7, <2>1
<1>8. CASE kind # "run"
  <2>1. r \in Absent(kind) \/ r \in Reports(kind)
    BY <1>8 DEF Possible
  <2>2. r \in Absent(kind) =>
          \/ r = UsageReport
          \/ r = Report("failure", 1, "artifact_missing") /\ kind \in ApplyKinds
          \/ r = Report("failure", 1, "run_not_found")
    BY DEF Absent, ApplyKinds
  <2>3. QED
    BY <1>1, <1>4, <1>5, <1>6, <2>1, <2>2
<1>9. QED
  BY <1>7, <1>8

LEMMA EndingsSay ==
  ASSUME NEW kid, kid.kind \in Kinds, NEW report \in Endings(kid)
  PROVE  Says(kid.kind, report) /\ report.exit \in {report.code, 130, 137}
<1> DEFINE kind == kid.kind
<1>1. CASE report \in Possible(kid)
  BY <1>1, PossibleWhole DEF Whole
<1>2. CASE \E r \in Possible(kid) : report \in Killed(r)
  <2>1. PICK r \in Possible(kid) : report \in Killed(r)
    BY <1>2
  <2>2. PICK q \in {r, Report("none", 0, "none")}, signalled \in {130, 137} :
          report = [q EXCEPT !.exit = signalled]
    BY <2>1 DEF Killed
  <2>3. IsReport(q) /\ Says(kind, q)
    <3>1. CASE q = r
      BY <2>1, <3>1, PossibleWhole DEF Whole
    <3>2. CASE q = Report("none", 0, "none")
      <4>1. IsReport(q) /\ q.doc = "none" /\ q.code = 0 /\ q.reason = "none"
        BY <3>2 DEF Report, IsReport, ReportFields
      <4>2. QED
        BY <4>1 DEF Says
    <3>3. QED
      BY <2>2, <3>1, <3>2
  <2>4. /\ report.doc = q.doc /\ report.code = q.code /\ report.reason = q.reason
        /\ report.exit = signalled
    BY <2>2, <2>3 DEF IsReport, ReportFields
  <2>5. QED
    BY <2>3, <2>4 DEF Says
<1>3. CASE \E r \in Possible(kid) : report = [r EXCEPT !.whole = FALSE]
  <2>1. PICK r \in Possible(kid) : report = [r EXCEPT !.whole = FALSE]
    BY <1>3
  <2>2. IsReport(r) /\ Says(kind, r) /\ r.exit = r.code
    BY <2>1, PossibleWhole DEF Whole
  <2>3. /\ report.doc = r.doc /\ report.code = r.code /\ report.reason = r.reason
        /\ report.exit = r.exit
    BY <2>1, <2>2 DEF IsReport, ReportFields
  <2>4. QED
    BY <2>2, <2>3 DEF Says
<1>4. QED
  <2>1. \/ report \in Possible(kid)
        \/ \E r \in Possible(kid) : report \in Killed(r)
        \/ \E r \in Possible(kid) : report = [r EXCEPT !.whole = FALSE]
    <3> DEFINE signals == UNION {Killed(r) : r \in Possible(kid)}
               cut == {[r EXCEPT !.whole = FALSE] : r \in {q \in Possible(kid) : q.doc # "none"}}
    <3>1. Endings(kid) = (Possible(kid) \union signals) \union cut
      BY DEF Endings
    <3>2. report \in signals => \E r \in Possible(kid) : report \in Killed(r)
      OBVIOUS
    <3>3. report \in cut => \E r \in Possible(kid) : report = [r EXCEPT !.whole = FALSE]
      OBVIOUS
    <3> HIDE DEF signals, cut
    <3>4. report \in Possible(kid) \/ report \in signals \/ report \in cut
      BY <3>1
    <3>5. QED
      BY <3>2, <3>3, <3>4
  <2>2. QED
    BY <1>1, <1>2, <1>3, <2>1

\* What is made of a report, whatever the signal did to its exit code: an
\* outcome is the document's, and is stated unless the command only reads; a
\* refusal of the request comes of a failure; and a failure of the transport
\* means that no outcome was stated, `respond' aside.
Stands(r) == r.doc # "none" /\ r.whole /\ r.exit = r.code

Made(kind, r, answer) ==
    /\ answer.outcome \notin {"none", "listed"} =>
           /\ r.doc \in DocumentsOf(answer.outcome)
           /\ kind \notin ReadKinds \union ApplyKinds => Stands(r)
    /\ answer.layer \notin {"registry", "binding"}
    /\ answer.layer = "request" => r.doc = "failure"
    /\ answer.reason \notin {"binding_conflict", "invalid_command"}
    /\ answer.layer = "transport" /\ kind # "respond" => ~Stands(r)

LEMMA RefusalIs ==
  ASSUME NEW layer, NEW reason, NEW answer, answer = Refusal(layer, reason)
  PROVE  answer.layer = layer /\ answer.reason = reason /\ answer.outcome = "none"
BY DEF Refusal

LEMMA OutcomeIs ==
  ASSUME NEW outcome, NEW reason, NEW answer, answer = Outcome(outcome, reason)
  PROVE  answer.layer = "none" /\ answer.reason = reason /\ answer.outcome = outcome
BY DEF Outcome

LEMMA TransportMade ==
  ASSUME NEW kind \in Kinds, NEW r, Says(kind, r), r.exit \in {r.code, 130, 137},
         TransportReason(kind, r) # "none"
  PROVE  Made(kind, r, Refusal("transport", TransportReason(kind, r)))
<1> DEFINE answer == Refusal("transport", TransportReason(kind, r))
<1>1. /\ answer.layer = "transport" /\ answer.reason = TransportReason(kind, r)
      /\ answer.outcome = "none"
  BY DEF Refusal
<1>2. TransportReason(kind, r) \in {"command_rejected", "child_terminated", "output_too_large",
                                    "malformed_output", "unexpected_output_shape"}
  BY DEF TransportReason
<1>3. kind # "respond" => ~Stands(r)
  <2>1. SUFFICES ASSUME kind # "respond", Stands(r) PROVE FALSE
    OBVIOUS
  <2>2. r.doc # "none" /\ r.whole /\ r.exit = r.code
    BY <2>1 DEF Stands
  <2>3. r.code \in {0, 1, 130, 143}
    BY <2>2 DEF Says
  <2>4. ~Understood(kind, r)
    BY <2>2, <2>3 DEF TransportReason
  <2>5. CASE kind \in RunKinds
    <3>1. \/ r.doc \in {"success", "waiting", "planReady"} /\ r.code = 0 /\ r.reason = "none"
          \/ r.doc = "failure" /\ r.code = 1 /\ r.reason \in
                 {"run_busy", "invalid_state", "run_already_exists", "run_not_found"}
          \/ r.doc = "failure" /\ r.code = 130 /\ r.reason = "signal_sigint"
          \/ r.doc = "failure" /\ r.code = 143 /\ r.reason = "signal_sigterm"
      BY <2>2, <2>5, KindsApart DEF Says
    <3>2. Understood(kind, r) = IF r.exit = 0 THEN ParseSuccess(kind, r) ELSE ParseFailure(r)
      BY <2>5, KindsApart DEF Understood
    <3>3. QED
      BY <2>1, <2>2, <2>4, <3>1, <3>2 DEF ParseSuccess, ParseFailure, PublicReasons
  <2>6. CASE kind \in ReadKinds \union ApplyKinds
    <3>1. \/ r.doc = "report" /\ r.code = 0
          \/ r.doc = "failure" /\ r.code = 1 /\ r.reason \in
                 {"run_not_found", "stale_observation"}
                     \union IF kind \in ApplyKinds THEN {"artifact_missing"}
                                                   ELSE {"invalid_cursor"}
      BY <2>1, <2>2, <2>6, KindsApart DEF Says
    <3>2. QED
      BY <2>2, <2>4, <2>6, <3>1, KindsApart
         DEF Understood, ParseRead, ParseApply, ParseReadFailure, ParseReport, ApplyReasons
  <2>7. QED
    BY <2>1, <2>5, <2>6 DEF Kinds
<1> HIDE DEF answer
<1>4. Made(kind, r, answer)
  BY <1>1, <1>2, <1>3 DEF Made
<1>5. QED
  BY <1>4 DEF answer

\* What a command's document is projected to.
LEMMA CommandMade ==
  ASSUME NEW kind \in RunKinds \union {"respond"}, NEW r, Says(kind, r),
         r.exit \in {r.code, 130, 137}, TransportReason(kind, r) = "none"
  PROVE  Made(kind, r, ProjectCommand(r))
<1> DEFINE answer == ProjectCommand(r)
<1>1. /\ r.exit \in {0, 1, 130, 143} /\ r.whole /\ r.doc # "none" /\ Understood(kind, r)
  BY DEF TransportReason
<1>2. Understood(kind, r) = IF r.exit = 0 THEN ParseSuccess(kind, r) ELSE ParseFailure(r)
  BY KindsApart DEF Understood
<1>3. Stands(r)
  BY <1>1, <1>2 DEF ParseSuccess, ParseFailure, Stands
<1>4. r.doc \in {"success", "waiting", "planReady", "responded", "failure"}
  BY <1>1, <1>2 DEF ParseSuccess, ParseFailure
<1>5. r.reason \notin {"binding_conflict", "invalid_command"}
  BY DEF Says
<1>6. /\ answer.layer = "none" /\ answer.reason \in {"none", r.reason}
      /\ answer.outcome \in {"succeeded", "waiting", "plan_ready", "responded", "failed"}
      /\ r.doc \in DocumentsOf(answer.outcome)
  <2>1. CASE r.doc = "success"
    <3>1. answer = Outcome("succeeded", "none")
      BY <2>1 DEF ProjectCommand
    <3>2. QED
      BY <2>1, <3>1, OutcomeIs DEF DocumentsOf
  <2>2. CASE r.doc = "waiting"
    <3>1. answer = Outcome("waiting", "none")
      BY <2>2 DEF ProjectCommand
    <3>2. QED
      BY <2>2, <3>1, OutcomeIs DEF DocumentsOf
  <2>3. CASE r.doc = "planReady"
    <3>1. answer = Outcome("plan_ready", "none")
      BY <2>3 DEF ProjectCommand
    <3>2. QED
      BY <2>3, <3>1, OutcomeIs DEF DocumentsOf
  <2>4. CASE r.doc = "responded"
    <3>1. answer = Outcome("responded", "none")
      BY <2>4 DEF ProjectCommand
    <3>2. QED
      BY <2>4, <3>1, OutcomeIs DEF DocumentsOf
  <2>5. CASE r.doc = "failure"
    <3>1. answer = Outcome("failed", r.reason)
      BY <2>5 DEF ProjectCommand
    <3>2. QED
      BY <2>5, <3>1, OutcomeIs DEF DocumentsOf
  <2>6. QED
    BY <1>4, <2>1, <2>2, <2>3, <2>4, <2>5
<1> HIDE DEF answer
<1>7. Made(kind, r, answer)
  BY <1>3, <1>5, <1>6 DEF Made
<1>8. QED
  BY <1>7 DEF answer

\* What a read or an apply reports.
LEMMA ReportMade ==
  ASSUME NEW kind \in ReadKinds \union ApplyKinds, NEW r, Says(kind, r),
         TransportReason(kind, r) = "none",
         NEW answer, answer \in {ProjectRead(r), ProjectApplied(kind, r)}
  PROVE  Made(kind, r, answer)
<1>1. r.doc # "none" /\ kind # "respond" /\ kind \notin RunKinds
  BY KindsApart DEF TransportReason
<1>2. /\ r.doc \in {"report", "failure"}
      /\ r.reason \notin {"binding_conflict", "invalid_command"}
  BY <1>1 DEF Says
<1>3. \/ answer = Outcome("report", "none") /\ r.doc = "report"
      \/ answer = Refusal("request", r.reason) /\ r.doc = "failure"
      \/ answer = Refusal("request", "stale_observation") /\ r.doc = "failure"
      \/ answer = Refusal("request", "project_apply_not_found") /\ r.doc = "failure"
      \/ answer = Outcome("failed", r.reason) /\ r.doc = "failure"
  <2>1. CASE answer = ProjectRead(r)
    BY <1>2, <2>1 DEF ProjectRead
  <2>2. CASE answer = ProjectApplied(kind, r)
    BY <1>2, <2>2 DEF ProjectApplied
  <2>3. QED
    BY <2>1, <2>2
<1>4. CASE answer = Outcome("report", "none") /\ r.doc = "report"
  BY <1>4, OutcomeIs DEF Made, DocumentsOf
<1>5. CASE answer = Outcome("failed", r.reason) /\ r.doc = "failure"
  <2>1. answer.layer = "none" /\ answer.reason = r.reason /\ answer.outcome = "failed"
    BY <1>5, OutcomeIs
  <2>2. QED
    BY <1>2, <1>5, <2>1 DEF Made, DocumentsOf
<1>6. ASSUME NEW reason, answer = Refusal("request", reason), r.doc = "failure",
             reason \notin {"binding_conflict", "invalid_command"}
      PROVE  Made(kind, r, answer)
  <2>1. answer.layer = "request" /\ answer.reason = reason /\ answer.outcome = "none"
    BY <1>6, RefusalIs
  <2>2. QED
    BY <1>6, <2>1 DEF Made
<1>7. QED
  BY <1>2, <1>3, <1>4, <1>5, <1>6

LEMMA ProjectedMade ==
  ASSUME NEW kind \in Kinds, NEW r, Says(kind, r), r.exit \in {r.code, 130, 137}
  PROVE  Made(kind, r, Projected(kind, r))
<1>1. CASE TransportReason(kind, r) # "none"
  BY <1>1, TransportMade DEF Projected
<1>2. CASE TransportReason(kind, r) = "none" /\ kind \in RunKinds \union {"respond"}
  <2>1. Projected(kind, r) = ProjectCommand(r)
    BY <1>2, KindsApart DEF Projected
  <2>2. QED
    BY <1>2, <2>1, CommandMade
<1>3. CASE TransportReason(kind, r) = "none" /\ kind \in ReadKinds \union ApplyKinds
  <2>1. Projected(kind, r) \in {ProjectRead(r), ProjectApplied(kind, r)}
    BY <1>3, KindsApart DEF Projected
  <2>2. QED
    BY <1>3, <2>1, ReportMade
<1>4. QED
  BY <1>1, <1>2, <1>3 DEF Kinds

-----------------------------------------------------------------------------
(* The slots: which request has which child, and what it was told.         *)

\* AnswerTrue, of given bindings.
TrueOf(places, call, kid) ==
    LET answer == call.answer IN
    /\ answer.outcome \notin {"none", "listed"} =>
           /\ kid.status = "done" /\ kid.report.doc \in DocumentsOf(answer.outcome)
           /\ kid.kind \notin ReadKinds \union ApplyKinds => Stated(kid)
    /\ answer.layer \in {"registry", "binding"} => kid.status = "none"
    /\ answer.layer = "request" /\ kid.status # "none" => kid.report.doc = "failure"
    /\ answer.reason = "binding_conflict" => places[call.run] \notin {Nothing, call.project}
    /\ answer.layer = "transport" /\ kid.kind # "respond" => ~Stated(kid)
    /\ answer.reason # "invalid_command"

Exits == {0, 1, 2, 130, 137, 143}

\* A child belongs to a request that waits for it or was told of its end, or
\* to one the service forgot when it stopped.
SlotOf(live, places, call, kid) ==
    /\ call.phase \in Phases /\ (~live => call = IdleCall)
    /\ kid.status \in {"none", "spawned", "done"}
    /\ call.phase \in {"received", "resolved", "authorised"} => kid.status = "none"
    /\ call.phase = "waiting" => kid.status = "spawned" /\ call.project \in Projects
    /\ call.phase = "answered" => kid.status # "spawned" /\ TrueOf(places, call, kid)
    /\ call.phase = "resolved" => call.route = "fresh_run"
    /\ call.phase = "authorised" => call.route \in DOMAIN KindOf
    /\ kid.status # "none" => kid.kind \in Kinds
    /\ kid.status = "done" => kid.report.exit \in Exits

Slot(c) == SlotOf(up, bound, calls[c], kids[c])

\* The registry goes with the service, and a document stays somebody's.
HistoryInv ==
    /\ up \in BOOLEAN /\ (~up => config = Nothing)
    /\ born \in [Runs -> ({"service", "cli"} \X Projects) \union {Nothing}]

AnswerInv == HistoryInv /\ \A c \in Calls : Slot(c)

LEMMA AnswersTrueOf == Inv /\ AnswerInv => AnswersTrue
<1> SUFFICES ASSUME Inv, AnswerInv PROVE AnswersTrue
  OBVIOUS
<1>1. \A c \in Calls : SlotOf(up, bound, calls[c], kids[c])
  BY DEF AnswerInv, Slot
<1>2. up \in BOOLEAN /\ up = (config # Nothing) /\ config \in Configs \union {Nothing}
  BY NothingAssumption DEF Inv, RegistryInv, AnswerInv, HistoryInv
<1>3. ControlTypeOK
  <2>1. /\ bound \in [Runs -> Projects \union {Nothing}]
        /\ born \in [Runs -> ({"service", "cli"} \X Projects) \union {Nothing}]
    BY DEF Inv, Shapes, AnswerInv, HistoryInv
  <2>2. ASSUME NEW c \in Calls
        PROVE  /\ calls[c].phase \in Phases
               /\ ~up => calls[c] = IdleCall
               /\ calls[c].phase \in {"authorised", "waiting"} => calls[c].project \in Projects
               /\ calls[c].phase = "waiting" => kids[c].status = "spawned"
               /\ kids[c].status = "done" => kids[c].report.exit \in {0, 1, 2, 130, 137, 143}
    <3>1. SlotOf(up, bound, calls[c], kids[c]) /\ Asks(calls[c])
      BY <1>1 DEF Inv, AuthorityInv
    <3>2. QED
      BY <3>1 DEF SlotOf, Asks, Exits
  <2>3. QED
    BY <1>2, <2>1, <2>2 DEF ControlTypeOK
<1>4. ASSUME NEW c \in Calls, calls[c].phase = "answered"
      PROVE  AnswerTrue(calls[c], kids[c])
  <2>1. TrueOf(bound, calls[c], kids[c])
    BY <1>1, <1>4 DEF SlotOf
  <2>2. QED
    BY <2>1 DEF TrueOf, AnswerTrue
<1>5. QED
  BY <1>3, <1>4 DEF AnswersTrue

\* The other slots stay as they are, and a refused run id stays another's.
LEMMA SlotsKept ==
  ASSUME Inv, AnswerInv, BindingsStay, NEW c \in Calls, up' = up, HistoryInv',
         \A d \in Calls \ {c} : calls'[d] = calls[d] /\ kids'[d] = kids[d],
         SlotOf(up', bound', calls'[c], kids'[c])
  PROVE  AnswerInv'
<1>1. ASSUME NEW d \in Calls \ {c} PROVE SlotOf(up', bound', calls'[d], kids'[d])
  <2>1. calls'[d] = calls[d] /\ kids'[d] = kids[d] /\ SlotOf(up, bound, calls[d], kids[d])
    BY DEF AnswerInv, Slot
  <2>2. Asks(calls[d])
    BY DEF Inv, AuthorityInv
  <2>3. calls[d].phase = "answered" => TrueOf(bound', calls[d], kids[d])
    <3>1. SUFFICES ASSUME calls[d].phase = "answered" PROVE TrueOf(bound', calls[d], kids[d])
      OBVIOUS
    <3>2. calls[d].run \in Runs /\ TrueOf(bound, calls[d], kids[d])
      BY <2>1, <2>2, <3>1 DEF Asks, SlotOf
    <3>3. bound[calls[d].run] \notin {Nothing, calls[d].project} =>
            bound'[calls[d].run] \notin {Nothing, calls[d].project}
      BY <3>2 DEF BindingsStay
    <3>4. QED
      BY <3>2, <3>3 DEF TrueOf
  <2>4. QED
    BY <2>1, <2>3 DEF SlotOf
<1>2. \A d \in Calls : SlotOf(up', bound', calls'[d], kids'[d])
  BY <1>1
<1>3. QED
  BY <1>2 DEF AnswerInv, Slot

\* A request without a child is answered: nothing was done in its name.
LEMMA RefusedSlot ==
  ASSUME Inv, AnswerInv, BindingsStay, NEW c \in Calls, NEW answer, AnswerWith(c, answer),
         calls[c].phase \in {"received", "resolved", "authorised"},
         UNCHANGED <<up, config, born, kids>>,
         answer.outcome \in {"none", "listed"}, answer.reason # "invalid_command",
         answer.reason = "binding_conflict" =>
             bound'[calls[c].run] \notin {Nothing, calls[c].project}
  PROVE  AnswerInv'
<1>1. calls = [d \in Calls |-> calls[d]] /\ IsCall(calls[c])
  BY DEF Inv, Shapes
<1>2. /\ calls'[c].phase = "answered" /\ calls'[c].run = calls[c].run
      /\ calls'[c].project = calls[c].project /\ calls'[c].answer = answer
      /\ \A d \in Calls \ {c} : calls'[d] = calls[d] /\ kids'[d] = kids[d]
  BY <1>1 DEF AnswerWith, IsCall, CallFields
<1>3. kids'[c].status = "none" /\ kids'[c] = kids[c] /\ up
  BY DEF AnswerInv, Slot, SlotOf, Inv, RegistryInv
<1>4. ~Stated(kids'[c])
  BY <1>3 DEF Stated
<1>5. TrueOf(bound', calls'[c], kids'[c])
  BY <1>2, <1>3, <1>4 DEF TrueOf
<1>6. SlotOf(up', bound', calls'[c], kids'[c])
  BY <1>2, <1>3, <1>5 DEF SlotOf, Phases
<1>7. HistoryInv'
  BY DEF AnswerInv, HistoryInv
<1>8. QED
  BY <1>2, <1>6, <1>7, SlotsKept

\* A request goes on, still without a child.
LEMMA MovedSlot ==
  ASSUME Inv, AnswerInv, BindingsStay, NEW c \in Calls, UNCHANGED <<config, born, kids>>,
         up' = up, up, kids[c].status = "none",
         \A d \in Calls \ {c} : calls'[d] = calls[d],
         \/ calls'[c].phase = "received"
         \/ calls'[c].phase = "resolved" /\ calls'[c].route = "fresh_run"
         \/ calls'[c].phase = "authorised" /\ calls'[c].route \in DOMAIN KindOf
  PROVE  AnswerInv'
<1>1. SlotOf(up', bound', calls'[c], kids'[c])
  BY DEF SlotOf, Phases
<1>2. HistoryInv'
  BY DEF AnswerInv, HistoryInv
<1>3. QED
  BY <1>1, <1>2, SlotsKept

-----------------------------------------------------------------------------
(* The steps again, for what they tell.                                    *)

LEMMA ServiceAnswers ==
  ASSUME Inv, AnswerInv, Stop \/ \E chosen \in Configs : Start(chosen)
  PROVE  AnswerInv'
<1>1. CASE Stop
  <2>1. /\ up' = FALSE /\ config' = Nothing /\ bound' = bound /\ born' = born /\ kids' = kids
        /\ \A c \in Calls : calls'[c] = IdleCall
    BY <1>1 DEF Stop
  <2>2. IdleCall.phase = "idle"
    BY DEF IdleCall
  <2>3. ASSUME NEW c \in Calls PROVE SlotOf(up', bound', calls'[c], kids'[c])
    <3>1. SlotOf(up, bound, calls[c], kids[c])
      BY DEF AnswerInv, Slot
    <3>2. QED
      BY <2>1, <2>2, <3>1 DEF SlotOf, Phases
  <2>4. HistoryInv'
    BY <2>1 DEF AnswerInv, HistoryInv
  <2>5. QED
    BY <2>3, <2>4 DEF AnswerInv, Slot
<1>2. ASSUME NEW chosen \in Configs, Start(chosen) PROVE AnswerInv'
  <2>1. up' = TRUE /\ UNCHANGED <<bound, born, calls, kids>>
    BY <1>2 DEF Start
  <2>2. ASSUME NEW c \in Calls PROVE SlotOf(up', bound', calls'[c], kids'[c])
    <3>1. SlotOf(up, bound, calls[c], kids[c])
      BY DEF AnswerInv, Slot
    <3>2. QED
      BY <2>1, <3>1 DEF SlotOf
  <2>3. HistoryInv'
    BY <2>1 DEF AnswerInv, HistoryInv
  <2>4. QED
    BY <2>2, <2>3 DEF AnswerInv, Slot
<1>3. QED
  BY <1>1, <1>2

LEMMA ReceiveAnswers ==
  ASSUME Inv, AnswerInv, NEW c \in Calls, NEW route \in Routes, NEW run \in Runs,
         NEW project \in Projects \union {Nothing}, Receive(c, route, run, project)
  PROVE  AnswerInv'
<1>1. BindingsStay
  BY DEF Receive, BindingsStay
<1>2. /\ calls'[c].phase = "received" /\ \A d \in Calls \ {c} : calls'[d] = calls[d]
      /\ up' = up /\ up /\ kids[c].status = "none" /\ UNCHANGED <<config, born, kids>>
  BY DEF Receive, IdleCall, Inv, Shapes
<1>3. QED
  BY <1>1, <1>2, MovedSlot

LEMMA ResolveAnswers ==
  ASSUME Inv, AnswerInv, BindingsStay, NEW c \in Calls,
         \/ RefuseRequest(c) \/ DiscoverProjects(c) \/ DiscoverRuns(c)
         \/ ResolveRun(c) \/ ResolveBound(c)
  PROVE  AnswerInv'
<1>1. calls[c].phase = "received" /\ UNCHANGED <<up, config, bound, born, kids>>
  BY DEF RefuseRequest, DiscoverProjects, DiscoverRuns, ResolveRun, ResolveBound
<1>2. /\ calls = [d \in Calls |-> calls[d]] /\ IsCall(calls[c]) /\ up
      /\ kids[c].status = "none"
  BY <1>1 DEF Inv, Shapes, RegistryInv, AnswerInv, Slot, SlotOf
<1>3. ASSUME NEW layer, NEW reason, AnswerWith(c, Refusal(layer, reason)),
             reason \notin {"binding_conflict", "invalid_command"}
      PROVE  AnswerInv'
  <2>1. Refusal(layer, reason).outcome = "none" /\ Refusal(layer, reason).reason = reason
    BY DEF Refusal
  <2>2. QED
    BY <1>1, <1>3, <2>1, RefusedSlot
<1>4. CASE AnswerWith(c, Outcome("listed", "none"))
  <2>1. Outcome("listed", "none").outcome = "listed" /\ Outcome("listed", "none").reason = "none"
    BY DEF Outcome
  <2>2. QED
    BY <1>1, <1>4, <2>1, RefusedSlot
<1>5. CASE Goto(c, "resolved") /\ calls[c].route = "fresh_run"
  <2>1. /\ calls'[c].phase = "resolved" /\ calls'[c].route = "fresh_run"
        /\ \A d \in Calls \ {c} : calls'[d] = calls[d]
    BY <1>2, <1>5 DEF Goto, IsCall, CallFields
  <2>2. QED
    BY <1>1, <1>2, <2>1, MovedSlot
<1>6. CASE /\ calls[c].route \in DOMAIN KindOf \ {"fresh_run"}
           /\ calls' = [calls EXCEPT ![c].phase = "authorised",
                                     ![c].project = bound[calls[c].run]]
  <2>1. /\ calls'[c].phase = "authorised" /\ calls'[c].route = calls[c].route
        /\ \A d \in Calls \ {c} : calls'[d] = calls[d]
    BY <1>2, <1>6 DEF IsCall, CallFields
  <2>2. QED
    BY <1>1, <1>2, <1>6, <2>1, MovedSlot
<1>7. CASE RefuseRequest(c)
  <2>1. PICK reason \in {"invalid_request", "unknown_route"} :
          AnswerWith(c, Refusal("request", reason))
    BY <1>7 DEF RefuseRequest
  <2>2. QED
    BY <1>3, <2>1
<1>8. CASE DiscoverProjects(c)
  BY <1>4, <1>8 DEF DiscoverProjects
<1>9. CASE DiscoverRuns(c)
  BY <1>3, <1>4, <1>9 DEF DiscoverRuns
<1>10. CASE ResolveRun(c)
  BY <1>3, <1>5, <1>10 DEF ResolveRun
<1>11. CASE ResolveBound(c)
  BY <1>3, <1>6, <1>11 DEF ResolveBound
<1>12. QED
  BY <1>7, <1>8, <1>9, <1>10, <1>11

LEMMA ClaimAnswers ==
  ASSUME Inv, AnswerInv, BindingsStay, NEW c \in Calls, ClaimBinding(c)
  PROVE  AnswerInv'
<1>. DEFINE run == calls[c].run
            filled == IF bound[run] = Nothing THEN calls[c].project ELSE bound[run]
<1>1. /\ run \in Runs /\ calls[c].project \in Projects /\ up
      /\ calls[c].phase = "resolved" /\ UNCHANGED <<up, config, born, kids>>
      /\ bound \in [Runs -> Projects \union {Nothing}]
  BY DEF ClaimBinding, Inv, Shapes, AuthorityInv, Asks, RegistryInv
<1>2. /\ calls = [d \in Calls |-> calls[d]] /\ IsCall(calls[c])
      /\ kids[c].status = "none" /\ calls[c].route = "fresh_run"
  BY <1>1 DEF Inv, Shapes, AnswerInv, Slot, SlotOf
<1>3. CASE Goto(c, "authorised")
  <2>1. /\ calls'[c].phase = "authorised" /\ calls'[c].route = "fresh_run"
        /\ \A d \in Calls \ {c} : calls'[d] = calls[d]
    BY <1>2, <1>3 DEF Goto, IsCall, CallFields
  <2>2. "fresh_run" \in DOMAIN KindOf
    BY DEF KindOf
  <2>3. QED
    BY <1>1, <1>2, <2>1, <2>2, MovedSlot
<1>4. CASE /\ bound' = [bound EXCEPT ![run] = filled] /\ filled # calls[c].project
           /\ AnswerWith(c, Refusal("binding", "binding_conflict"))
  <2>1. bound'[run] \notin {Nothing, calls[c].project}
    BY <1>1, <1>4
  <2>2. /\ Refusal("binding", "binding_conflict").outcome = "none"
        /\ Refusal("binding", "binding_conflict").reason = "binding_conflict"
    BY DEF Refusal
  <2>3. QED
    BY <1>1, <1>4, <2>1, <2>2, RefusedSlot
<1>5. CASE AnswerWith(c, Refusal("binding", "binding_persist_failed"))
  <2>1. /\ Refusal("binding", "binding_persist_failed").outcome = "none"
        /\ Refusal("binding", "binding_persist_failed").reason = "binding_persist_failed"
    BY DEF Refusal
  <2>2. QED
    BY <1>1, <1>5, <2>1, RefusedSlot
<1>6. QED
  BY <1>3, <1>4, <1>5 DEF ClaimBinding

\* Whatever fields a route gives, the client takes the command.
LEMMA RoutesCaptured ==
  ASSUME NEW route \in DOMAIN KindOf, NEW fields \in Gives(route)
  PROVE  Captured(KindOf[route], fields) /\ KindOf[route] \in Kinds
<1>1. CASE route = "fresh_run"
  BY <1>1 DEF KindOf, Gives, Captured, Required, Allowed, Kinds, RunKinds
<1>2. CASE route \in {"inspect", "events"}
  BY <1>2 DEF KindOf, Gives, Captured, Required, Allowed, Kinds, RunKinds, ReadKinds
<1>3. CASE route \in {"logs_list", "logs_exec"}
  BY <1>3 DEF KindOf, Gives, Captured, Required, Allowed, Kinds, RunKinds, ReadKinds
<1>4. CASE route \in {"project_changes", "project_change_content"}
  BY <1>4 DEF KindOf, Gives, Captured, Required, Allowed, Kinds, RunKinds, ReadKinds
<1>5. CASE route \in {"project_apply_post", "project_apply_get"}
  BY <1>5 DEF KindOf, Gives, Captured, Required, Allowed, Kinds, RunKinds, ReadKinds, ApplyKinds
<1>6. CASE route \in {"resume", "resume_plan"}
  BY <1>6 DEF KindOf, Gives, Captured, Required, Allowed, Kinds, RunKinds
<1>7. CASE route \in {"continue_stage", "revise_task"}
  BY <1>7 DEF KindOf, Gives, Captured, Required, Allowed, Kinds, RunKinds
<1>8. CASE route = "respond"
  BY <1>8 DEF KindOf, Gives, Captured, Required, Allowed, Kinds, RunKinds
<1>9. DOMAIN KindOf =
        {"fresh_run", "inspect", "events", "logs_list", "logs_exec", "project_changes",
         "project_change_content", "project_apply_post", "project_apply_get", "resume",
         "resume_plan", "continue_stage", "respond", "revise_task"}
  BY DEF KindOf
<1>10. QED
  BY <1>1, <1>2, <1>3, <1>4, <1>5, <1>6, <1>7, <1>8, <1>9

LEMMA DispatchAnswers ==
  ASSUME Inv, AnswerInv, BindingsStay, NEW c \in Calls, Dispatch(c)
  PROVE  AnswerInv'
<1>1. calls[c].phase = "authorised" /\ UNCHANGED <<up, config, bound, born>>
  BY DEF Dispatch
<1>2. /\ calls = [d \in Calls |-> calls[d]] /\ IsCall(calls[c]) /\ up
      /\ kids = [d \in Calls |-> kids[d]] /\ IsKid(kids[c])
      /\ kids[c].status = "none" /\ calls[c].route \in DOMAIN KindOf
      /\ calls[c].project \in Projects
  BY <1>1 DEF Inv, Shapes, RegistryInv, AnswerInv, Slot, SlotOf, AuthorityInv, Asks
<1>3. ASSUME NEW layer, NEW reason, AnswerWith(c, Refusal(layer, reason)), kids' = kids,
             reason \notin {"binding_conflict", "invalid_command"}
      PROVE  AnswerInv'
  <2>1. Refusal(layer, reason).outcome = "none" /\ Refusal(layer, reason).reason = reason
    BY DEF Refusal
  <2>2. QED
    BY <1>1, <1>3, <2>1, RefusedSlot
<1>4. ASSUME NEW refusal \in Gated(calls[c]), AnswerWith(c, refusal), kids' = kids
      PROVE  AnswerInv'
  <2>1. \/ refusal = Refusal("request", "project_apply_disabled")
        \/ refusal = Refusal("request", "invalid_request")
        \/ refusal = Refusal("registry", "input_not_found")
    BY <1>4 DEF Gated
  <2>2. QED
    BY <1>3, <1>4, <2>1
<1>5. CASE Spawn(c)
  <2> DEFINE kind == KindOf[calls[c].route]
  <2>1. PICK fields \in Gives(calls[c].route) :
          IF ~Captured(kind, fields)
          THEN AnswerWith(c, Refusal("transport", "invalid_command")) /\ UNCHANGED kids
          ELSE \/ /\ Goto(c, "waiting")
                  /\ kids' = [kids EXCEPT ![c] = Routed(kind, calls[c].run, calls[c].project)]
               \/ /\ AnswerWith(c, Refusal("transport", "spawn_failed"))
                  /\ UNCHANGED kids
    BY <1>5 DEF Spawn
  <2>2. Captured(kind, fields) /\ kind \in Kinds
    BY <1>2, <2>1, RoutesCaptured
  <2>3. CASE Goto(c, "waiting")
             /\ kids' = [kids EXCEPT ![c] = Routed(kind, calls[c].run, calls[c].project)]
    <3>1. /\ calls'[c].phase = "waiting" /\ calls'[c].project = calls[c].project
          /\ \A d \in Calls \ {c} : calls'[d] = calls[d]
      BY <1>2, <2>3 DEF Goto, IsCall, CallFields
    <3>2. /\ kids'[c].status = "spawned" /\ kids'[c].kind = kind
          /\ \A d \in Calls \ {c} : kids'[d] = kids[d]
      BY <1>2, <2>3 DEF Routed, NoKid
    <3> HIDE DEF kind
    <3>3. SlotOf(up', bound', calls'[c], kids'[c])
      BY <1>1, <1>2, <2>2, <3>1, <3>2 DEF SlotOf, Phases
    <3>4. HistoryInv'
      BY <1>1 DEF AnswerInv, HistoryInv
    <3>5. QED
      BY <1>1, <3>1, <3>2, <3>3, <3>4, SlotsKept
  <2>4. CASE AnswerWith(c, Refusal("transport", "spawn_failed")) /\ kids' = kids
    BY <1>3, <2>4
  <2>5. QED
    BY <2>1, <2>2, <2>3, <2>4
<1>6. QED
  BY <1>4, <1>5 DEF Dispatch

\* A child that ends tells its request, if one still waits, what it left.
LEMMA EndAnswers ==
  ASSUME Inv, AnswerInv, BindingsStay, NEW c \in Calls, ChildEnds(c)
  PROVE  AnswerInv'
<1>1. /\ kids[c].status = "spawned" /\ UNCHANGED <<up, config, bound, born>>
  BY DEF ChildEnds
<1>2. /\ calls = [d \in Calls |-> calls[d]] /\ IsCall(calls[c])
      /\ kids = [d \in Calls |-> kids[d]] /\ IsKid(kids[c])
      /\ SlotOf(up, bound, calls[c], kids[c]) /\ HistoryInv
  BY DEF Inv, Shapes, AnswerInv, Slot
<1>3. HistoryInv'
  BY <1>1, <1>2 DEF HistoryInv
<1>4. CASE calls[c].phase = "waiting"
  <2>1. PICK report \in Endings(kids[c]) :
          /\ kids' = [kids EXCEPT ![c].status = "done", ![c].report = report]
          /\ AnswerWith(c, Projected(kids[c].kind, report))
    BY <1>4 DEF ChildEnds, ProjectResult
  <2> DEFINE kind == kids[c].kind
             answer == Projected(kind, report)
  <2>2. kind \in Kinds
    BY <1>1, <1>2 DEF SlotOf
  <2>3. Says(kind, report) /\ report.exit \in {report.code, 130, 137}
    BY <2>1, <2>2, EndingsSay
  <2>4. report.exit \in Exits
    BY <2>3 DEF Says, Exits
  <2>5. Made(kind, report, answer)
    BY <2>2, <2>3, ProjectedMade
  <2>6. /\ calls'[c].phase = "answered" /\ calls'[c].run = calls[c].run
        /\ calls'[c].project = calls[c].project /\ calls'[c].answer = answer
        /\ \A d \in Calls \ {c} : calls'[d] = calls[d]
    BY <1>2, <2>1 DEF AnswerWith, IsCall, CallFields
  <2>7. /\ kids'[c].status = "done" /\ kids'[c].kind = kind /\ kids'[c].report = report
        /\ \A d \in Calls \ {c} : kids'[d] = kids[d]
    BY <1>2, <2>1 DEF IsKid, KidFields
  <2> HIDE DEF kind, answer
  <2>8. Stated(kids'[c]) <=> Stands(report)
    BY <2>7 DEF Stated, Stands
  <2>9. TrueOf(bound', calls'[c], kids'[c])
    BY <2>5, <2>6, <2>7, <2>8 DEF TrueOf, Made
  <2>10. up
    BY <1>4 DEF Inv, RegistryInv
  <2>11. SlotOf(up', bound', calls'[c], kids'[c])
    BY <1>1, <2>2, <2>4, <2>6, <2>7, <2>9, <2>10 DEF SlotOf, Phases
  <2>12. QED
    BY <1>1, <1>3, <2>6, <2>7, <2>11, SlotsKept
<1>5. CASE calls[c].phase # "waiting"
  <2>1. kids' = [kids EXCEPT ![c] = NoKid] /\ calls' = calls
    BY <1>5 DEF ChildEnds
  <2>2. kids'[c].status = "none" /\ \A d \in Calls \ {c} : kids'[d] = kids[d]
    BY <1>2, <2>1 DEF NoKid
  <2>3. calls[c].phase # "answered"
    BY <1>1, <1>2 DEF SlotOf
  <2>4. SlotOf(up', bound', calls'[c], kids'[c])
    BY <1>1, <1>2, <1>5, <2>1, <2>2, <2>3 DEF SlotOf
  <2>5. QED
    BY <1>1, <1>3, <2>1, <2>2, <2>4, SlotsKept
<1>6. QED
  BY <1>4, <1>5

LEMMA ForgetAnswers ==
  ASSUME Inv, AnswerInv, BindingsStay, NEW c \in Calls, Forget(c)
  PROVE  AnswerInv'
<1>1. /\ UNCHANGED <<up, config, bound, born>>
      /\ calls' = [calls EXCEPT ![c] = IdleCall] /\ kids' = [kids EXCEPT ![c] = NoKid]
      /\ calls = [d \in Calls |-> calls[d]] /\ kids = [d \in Calls |-> kids[d]]
  BY DEF Forget, Inv, Shapes
<1>2. /\ calls'[c] = IdleCall /\ calls'[c].phase = "idle" /\ kids'[c].status = "none"
      /\ \A d \in Calls \ {c} : calls'[d] = calls[d] /\ kids'[d] = kids[d]
  BY <1>1 DEF IdleCall, NoKid
<1>3. SlotOf(up', bound', calls'[c], kids'[c])
  BY <1>2 DEF SlotOf, Phases
<1>4. HistoryInv'
  BY <1>1 DEF AnswerInv, HistoryInv
<1>5. QED
  BY <1>1, <1>2, <1>3, <1>4, SlotsKept

LEMMA CreateAnswers ==
  ASSUME Inv, AnswerInv, BindingsStay, NEW c \in Calls, ChildCreates(c)
  PROVE  AnswerInv'
<1>1. /\ kids[c].status = "spawned" /\ UNCHANGED <<up, config, bound, calls>>
      /\ born' = [born EXCEPT ![kids[c].run] = <<"service", kids[c].project>>]
      /\ kids' = [kids EXCEPT ![c].created = TRUE]
  BY DEF ChildCreates
<1>2. /\ kids = [d \in Calls |-> kids[d]] /\ IsKid(kids[c])
      /\ SlotOf(up, bound, calls[c], kids[c]) /\ HistoryInv
  BY DEF Inv, Shapes, AnswerInv, Slot
<1>3. kids[c].run \in Runs /\ kids[c].project \in Projects
  BY <1>1 DEF Inv, AuthorityInv, Commands
<1>4. HistoryInv'
  BY <1>1, <1>2, <1>3 DEF HistoryInv
<1>5. /\ kids'[c].status = "spawned" /\ kids'[c].kind = kids[c].kind
      /\ \A d \in Calls \ {c} : kids'[d] = kids[d]
  BY <1>1, <1>2 DEF IsKid, KidFields
<1>6. SlotOf(up', bound', calls'[c], kids'[c])
  BY <1>1, <1>2, <1>5 DEF SlotOf
<1>7. QED
  BY <1>1, <1>4, <1>5, <1>6, SlotsKept

LEMMA CliAnswers ==
  ASSUME Inv, AnswerInv, NEW run \in Runs, NEW project \in Projects, CliRun(run, project)
  PROVE  AnswerInv'
<1>1. /\ UNCHANGED <<up, config, bound, calls, kids>>
      /\ born' = [born EXCEPT ![run] = <<"cli", project>>]
  BY DEF CliRun
<1>2. HistoryInv'
  BY <1>1 DEF AnswerInv, HistoryInv
<1>3. \A c \in Calls : SlotOf(up', bound', calls'[c], kids'[c])
  BY <1>1 DEF AnswerInv, Slot
<1>4. QED
  BY <1>2, <1>3 DEF AnswerInv, Slot

LEMMA AnswerInit == Init => AnswerInv
<1> SUFFICES ASSUME Init PROVE AnswerInv
  OBVIOUS
<1>1. HistoryInv
  BY DEF Init, HistoryInv
<1>2. ASSUME NEW c \in Calls PROVE SlotOf(up, bound, calls[c], kids[c])
  <2>1. /\ calls[c] = IdleCall /\ calls[c].phase = "idle" /\ kids[c].status = "none"
    BY DEF Init, IdleCall, NoKid
  <2>2. QED
    BY <2>1 DEF SlotOf, Phases
<1>3. QED
  BY <1>1, <1>2 DEF AnswerInv, Slot

LEMMA AnswerNext == Inv /\ AnswerInv /\ [Next]_vars => AnswerInv'
<1> SUFFICES ASSUME Inv, AnswerInv, [Next]_vars PROVE AnswerInv'
  OBVIOUS
<1>1. BindingsStay
  BY InvNext
<1>2. ASSUME NEW c \in Calls, Handle(c) \/ Forget(c) \/ ChildCreates(c) \/ ChildEnds(c)
      PROVE  AnswerInv'
  BY <1>1, <1>2, ResolveAnswers, ClaimAnswers, DispatchAnswers, ForgetAnswers,
     CreateAnswers, EndAnswers DEF Handle
<1>3. CASE UNCHANGED vars
  BY <1>3 DEF vars, AnswerInv, HistoryInv, Slot
<1>4. QED
  BY <1>2, <1>3, ServiceAnswers, ReceiveAnswers, CliAnswers DEF Next

\* A caller is told what happened, whichever requests race, whatever stops in
\* between and however the children end: an outcome only when its own child
\* stated it, a refusal of registry or binding only when nothing was started,
\* and no failure of the transport where a child stated an outcome.
THEOREM AnswersTrueAlways == Spec => []AnswersTrue
<1>1. Spec => []Inv
  BY InvInit, InvNext, PTL DEF Spec
<1>2. Spec => []AnswerInv
  BY <1>1, AnswerInit, AnswerNext, PTL DEF Spec
<1>3. QED
  BY <1>1, <1>2, AnswersTrueOf, PTL
=============================================================================

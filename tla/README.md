# Formal verification of the pipeline orchestrator

TLA+ models of the orchestrator under `src/orchestrator/src` (TypeScript), TLC
configurations that check them on small instances, and TLAPS proofs about them
for every value of their constants. Paths below are relative to
`src/orchestrator/src` unless they start with `docs/` or `tests/`.

Contents: 1 the system, 2 the modules, 3 correspondence with the code, 4 the
runs, 5 assumptions and fairness, 6 the proofs, 7 findings, 8 what is not
modelled, 9 the plan.

## 1. The system

The orchestrator executes a *pipeline*: a graph of agent states (an LLM session
with a tool container), decision states (rules evaluated on artifacts) and
terminal states. A run is driven by one command at a time, started by hand or by
the control plane as a subprocess; everything that must outlive a command is in
the run root `<state-root>/pipeline-runs/<run>`.

| part | state it keeps | operations | talks to |
| --- | --- | --- | --- |
| run state reducer `pipeline_v2_state.ts` | the run document (`state.json`): executions, transitions, cursor, waits, stage generations and iterations, plan and task revisions, grants, ending | 28 commands of `reducePipelineV2RunCommand` | called by the sink, pure |
| run state loader (same file, `validatePipelineV2RunState`) | none | replays a document and accepts or rejects it | every command that opens a run |
| sink and snapshot store `pipeline_v2_state_sink.ts`, `run_snapshot_store.ts` | the snapshot in memory; `state.json` and its temporary file | dispatch = reduce, validate, write, fsync, rename, fsync | all controllers dispatch through it |
| run mutation lock `pipeline_v2_run_mutation_lock.ts` | a kernel `flock` on the run root | acquire, release | runner and wait response |
| runner `pipeline_v2_runner.ts` | run root claim, pipeline copy | fresh run, resume, continue-stage, revise-task, resume-plan | lock, sink, coordinator, intervention controllers |
| coordinator `pipeline_v2_coordinator.ts`, `_recovery.ts` | none that is durable | drives the graph: start, prepare, create sessions, run, accept outputs, clean up, transition, wait, finish; recovery of an interrupted execution; failure finalization | sink, runtime, wait and stage controllers |
| runtime `pipeline_v2_runtime.ts`, docker runtime, worker operation | live sessions | create and delete sessions, run a worker under timeout and signals | helper containers |
| wait controllers and wait documents | request, response and intent documents next to the state | publish a document once, then dispatch | immutable document store, sink |
| immutable document store | one file per document | exclusive-link publication, adoption of an equal document | wait, plan, task and intervention controllers |
| stage lifecycle controllers | none | ensure or close an iteration, open a replanned generation | sink |
| run plan and planning controllers | accepted plans and tasks on disk | accept tasks and a plan, hand the run to the stage | sink, stage controllers |
| intervention controllers | intent documents | continue-stage and revise-task as a chain of commits | sink, wait controllers |
| project copy, provenance, apply | the project tree; a journal | copy, compare, journaled apply with recovery | read APIs, project lock |
| v1 engine, runner, state | the older run document | the older state machine | worker operation |
| control plane | project registry, run bindings, operations | HTTP routes start, resume, cancel and read runs | subprocesses of the CLI |
| compiler, decision evaluation, read APIs, CLI | none | parse, evaluate, project | |

**What is hard here.** The reducer is a state machine with twenty-eight commands
and no table: a hole is a sequence of legal commands nobody wrote a test for. The
loader restates the reducer's successor rules from the other side (a replay of
the finished ledgers), so the two can drift apart. The document is written by
several processes, with an exclusion that consists of a stat, an open and a
flock, and by several in-process callers that share one promise chain; every
call of the commit protocol can fail, the same exception means "nothing happened"
before the rename and "nobody knows" after it, and the machine may lose power.
The interventions are chains of up to six publications and commits, any prefix of
which may be all that a crash leaves. The coordinator must delete what a dead
process created from nothing but the recorded session ids. The apply writes into
a tree its operator edits, under a lock the operator does not take, with a journal
that another process may have moved on. A worker is watched over a network API
while a signal and a deadline race for the one claim on it. The control plane
answers for children it does not control and forgets them when it stops.

**What makes each part correct.**

* reducer: executions and transitions stay paired; the cursor can be derived
  from the records; a waiting run is frozen except for its response and the
  interventions; a failure latches; an ending is coherent and immutable; session
  ids are never recorded twice and the cleanup record accounts for each of them;
  at most one generation and one iteration is open; stage executions lie inside
  their iteration; budgets hold; closures rest on their record; no legal sequence
  strands a run.
* loader: accepts every document the controllers can leave.
* document: one writer at a time; no lost update; a reader sees whole documents;
  a confirmed commit survives a power loss; "not committed" leaves no trace; a
  sink that lost track refuses to go on; the lock is given back.
* immutable documents: a place is filled once, whoever races for it; who is told
  "published" is right for ever.
* coordinator and runtime: every session created is deleted or reported; a
  recovered run never repeats an accepted execution.
* wait and intervention chains: a retry after a crash completes what was begun
  and does nothing twice; another command finds the way barred.
* project apply: the project is always a prefix of the plan; nothing of the
  operator's is overwritten or removed, but for what he puts at a path between the
  writer's last look at it and its change there; an undisturbed apply ends applied.
* v1 engine: the stored document can be loaded whenever the run stops; what it
  records and answers is what happened; it returns.
* worker operation: a success is reported only when there was one; what is left
  running is accounted for; what a log lacks is flagged if the daemon flagged it; it
  returns unless it is claimed in its last drains.
* control plane: a run id is bound to one project and every child works for it; an
  answer is what happened; every request is answered unless its own child never ends.

## 2. The modules

The models of one run, from the document outwards:

| module | what it is | extends |
| --- | --- | --- |
| `RunState` | the run document and the reducer, one action per command, and its properties | |
| `RunStateProofs` | theorems about the reducer: types, endings, the wait triple, pairing, coherence of the records, the append-only ledgers, the stage lifecycle | `RunState`, TLAPS |
| `RunStateLoader` | the loader's replay as a predicate `LoaderAccepts` on the document | `RunState` |
| `RunDocument` | the commands of a run as processes: root claim, lock, sink, commit protocol, crash, power loss | |
| `DurableLog` | abstract: one log that grows at its end and may lose unconfirmed entries | |
| `RunDocumentProofs` | theorems about the document, the refinement of `DurableLog` among them | `RunDocument`, TLAPS |
| `ImmutableStore` | publication of one document, blob or binding under its final name, with racing publishers, faults, death and power loss | |
| `WriteOnce` | abstract: a place that is filled once | |
| `ImmutableStoreProofs` | the store's safety and its refinement of `WriteOnce` | `ImmutableStore`, TLAPS |
| `Coordinator` | the commands `run`, `resume` and `resume-plan` as a process that drives `RunState`, with sessions, worker logs, outputs, signals, failed writes and crashes | `RunState` |
| `CoordinatorProofs` | the refinement of `RunState`, the truth of the records and reports, no signal lost before a suspension's last checkpoint, no run stranded | `Coordinator`, `RunStateProofs` |

The intervention chains, one over the other:

| module | what it is | extends |
| --- | --- | --- |
| `ControlledRun` | the document of `RunState`, the immutable documents beside it, one controller at a time, and the runner between two commands | `RunStateLoader` |
| `StageIteration` | ensure the open iteration of the accepted plan's stage | `ControlledRun` |
| `StageTransition` | the transition that enters a stage its plan opened | `StageIteration` |
| `ReplannedStage` | close the replaced generation, open the new one | `StageTransition` |
| `RunPlanCandidate` | construct, verify, publish and record the run plan a planning execution proposes | `StageIteration` |
| `RunPlanHandoff` | `resume-plan`: accept the plan, open its stage, enter it | `RunPlanCandidate`, `ReplannedStage` |
| `ContinueStage` | `continue-stage`: intent, grant, completion, response, next iteration | `StageIteration` |
| `ReviseTask` | `revise-task`: task, intent, closure, response | `RunPlanCandidate` |
| `Interventions` | all of them and `respond` composed over one run | the last three |

The other parts:

| module | what it is | extends |
| --- | --- | --- |
| `ApplyPlan` | trees, the planner, the plan's validation, the walk of a plan against a project, the classification of a step | |
| `ApplyOperation` | the journal with its compare and swap, the package, the lock, the calls | `ApplyPlan` |
| `ApplyPreparation` | observe, probe, plan, publish, seal | `ApplyOperation` |
| `ApplyWriter` | load, lock, walk, the steps with their temps, progress, the end | `ApplyOperation` |
| `ProjectApply` | both, with deaths, failures and the operator | the last two |
| `ProjectApplyProofs` | the order of a plan; what a writer may change or take away, and that it takes no progress back; the journal, the package, the project and the temps agree; a passed preflight holds | `ProjectApply`, TLAPS |
| `PipelineV1Graph` | what the parser, the plan and the engine accept of a version 1 bundle | |
| `PipelineV1State` | the version 1 reducer and validator | |
| `PipelineV1` | the version 1 runner: engine, sessions, store, signals, deadline, finalization | the last two |
| `PipelineV1Proofs` | theorems about the version 1 run and its document | `PipelineV1`, TLAPS |
| `WorkerOperation` | one worker of a run over the helper's HTTP API: create, drains, polls, the claim, the cancel | |
| `WorkerOperationProofs` | theorems about it | `WorkerOperation`, TLAPS |
| `OrchestratorCommand` | one command as the control plane meets it: its fields, what it may print and exit with, what the client makes of it | |
| `ControlPlane` | requests, bindings, children, stops and restarts of the service | `OrchestratorCommand` |
| `ControlPlaneProofs` | theorems about its authority and its answers | `ControlPlane`, TLAPS |

Each `MC...` module holds the constants of the runs of the module it is named for;
`RunDocument`, `ImmutableStore`, `WorkerOperation` and `Interventions` have theirs in the
configurations.

How they meet. A dispatch of `RunDocument` is a command of `RunState`: the former
takes a document for the sequence of dispatches that made it, the latter takes a
dispatch as atomic, and the refinement of `DurableLog` is what justifies it. A
publication of `ControlledRun` is one step that fills a place or finds it filled,
and so is a claim of `ControlPlane`; the refinement of `WriteOnce` justifies both.
`Coordinator` composes with `RunState` directly: each of its dispatches is the
action of that name, and run `coordinator` checks that the composed system still
implements `RunState`'s specification. `ControlledRun` does the same for the
controllers, and takes over where `Coordinator` ends, at the open wait; its own
runner between two commands is the undisturbed part of `Coordinator`.
`WorkerOperation` is the inside of `Coordinator`'s step that runs a worker, and
its outcomes are the ones that step chooses from. A child of `ControlPlane` is one
command, reduced to what it leaves behind.

Some definitions are marked as a *mutant*: the form an operator would have after
a plausible slip (a dropped guard, a missing reset). No action uses them; they
show that the properties can fail.

## 3. Correspondence with the code

### RunState

Variables are fields of `PipelineV2RunState`. Two redundancies of the document
are read from the ledgers instead of being kept: `index` fields equal to the
position and the counters `iteration_count` / `open_iteration` of a generation.
`commit_history` is its length, `revision`. Digests, ids and bodies are members
of small sets. An action is one reducer command under the name of its command;
its guard is the conjunction of the gates before the switch
(`Admitted`: the status gate with its waiting exceptions, the failure gate) and
of the case. The gates of the waiting status are `WaitingAllowed`. A rejected
command throws and leaves the document alone, so it is not a step.

`cleanup_outcomes` are pairs (execution session, tool session); `CleanupFits`
is the consistency rule between a failure's phase, its reason and the pair.
Actions of a wait are a map from action id to target state. `None` is an absent
optional field.

### RunStateLoader

`LoaderAccepts` is the replay of `validatePipelineV2RunState` over executions,
transitions, waits, plans, grants and generations: one cursor walks the
executions, consumes the waits whose boundary it reaches, binds openings and
closures to boundaries and demands the same successor rules the reducer checked
one by one. Field syntax, digests and the profile epoch are not in it. It is
written with RECURSIVE operators, for TLC only.

### RunDocument

A command is a process that goes through `idle`, then `claimed` (fresh: root
made, not yet locked) or `verified` and `probed` (existing: root checked, then the
lock module's own stat of `state.json`), `opening` (lock held), `running` (sink
open), `over` or `dead`. A dispatch goes through the commit protocol:
`queued`, `check` (reduce, re-read the revision), `create`, `temp`, `written`,
`synced`, `renamed`, and settles as `unchanged`, `committed`, `not_committed` or
`durability_unknown`. `visible` is what a read returns now; `survivors` is the set
of what a read may return after a power loss (the page cache and the directory
entry are independent until their fsync). `Torn` is a state file whose bytes did
not reach the disk. The kernel releases a dead process's lock.

Several dispatches of a sink may be outstanding: they wait in the promise chain
and run in the order of their calls.

### Coordinator

`cmd` is the running command: `cmd.pc` names the next synchronous stretch of code
between two awaits, the other fields are the locals the code carries across them
(the session tracking `slot`, the bound worker log, the classified cause, the
`abandoned` and `unfinished` flags, the signal and the cutoff that freezes its
reading). `DispatchOr(command, next, failed)` is one durable write: committed,
renamed with unknown survival (the candidate is adopted, the command goes on as
after a failure), or not committed. `cmd` becomes a report when the command
returns; `Crash` throws it away together with everything that is not in the
document, the helper or on disk.

* `Start` to `SettleAgent` are `executeAgent`, `Evaluate` with `Start` is
  `executeDecision`, `EngineRefuses` and `Current` are the loop of the graph engine.
  A decision's input is prepared before its record, an agent's after it.
* `DeleteSession` is one deletion of the cleanup loop: tool session first, a failed
  deletion does not stop the other. `CreationMisowned` is the session of a foreign
  launcher, which the runtime deletes itself.
* `CommitTransition`, `SuspendPlanReady`, `AttemptWait`, `ContinueEngine` are what
  happens between two states; `ReachTerminal` to `Conclude` are the terminal phase.
* `SuspendPlanReady` and `AttemptWait` look at the signal for the last time
  (`checkSignal`, `pipeline_v2_coordinator.ts:2059`, `2775`, `2825`). What the command
  awaits after that is a step of its own: `VerifyPlanReady` is
  `restorePlanningAcceptanceContext` (2085), `EnterWait` is `attemptStageWaitEntry`
  (1893-1925) and `SuspendWaiting` the return after the wait's commit. A signal may be
  accepted before each of them and no longer counts.
* `FinalizeExecution`, `FinalizeRun`, `FinalizeAgain` are `finalizeFailure` in its
  order: the execution's record, the run's failure, one retry.
* `Window` is `classifyPipelineV2ResumeRecovery`, and the `Recover...` actions are
  the suffixes it selects. `Resume` and `ResumePlan` start a command on the document
  alone; the handoff actions (`AcceptTask` to `CommitHandoff`) are the initial
  planning handoff with everything it has already done left out.
* `live`, `issued` are the helper's; `undeletable` and `orphaned` are history, for
  the properties only.

The model ends at an open wait. An edge from a stage to a control state compiles,
but its iteration stays open and the engine refuses the control state, so such a
run fails as `invalid_graph`; the model has it (`LifecycleFits`) and no property
forbids it.

### ImmutableStore

`kind` chooses between the three publishers of the code, which differ in their
steps: a document (directory made, chmod, candidate written and fsynced, hard link,
directory fsync, temp removed), a blob and a run binding. `final` is the inode the
name leads to, with how much of it was written and whether it was synced; `entry` says
whether the name itself reached the disk. A publisher finds the name taken and
reads it: its own content is adopted, with the fsyncs it needs, another is a
conflict. A binding that exists already is answered without an fsync, as the code
does. A directory another call made, took back because its chmod failed, and made
again is unsynced although a third call saw it ready; `withdrawn` marks these
behaviours and the durability claims exclude them.

### The intervention chains

`published` maps a place to the content of the immutable document there; a digest
is the document it is the digest of. `call` is the controller in progress with the
step it is at and the base snapshot it compares results with; `answer` is how the
last call ended. `Publish` and `Dispatch` are the two ways a step changes anything:
each succeeds, fails with nothing done, fails with the thing done, or the process
dies. `Begin...` is the classification of the document a command starts from, and
the windows of a retry (the code's `c0`, `c1`, ...) are the steps it finds already
recorded. The mutation lock admits one owner, so there is one call at a time.

* A document that was published and never named by the state stays where it is and
  pins its place: a later command with another content is refused
  (`ForeignIntentInert`), the same one adopts it.
* `tryProgressedState`, the controllers' reading of a state that another process
  moved on meanwhile, cannot succeed under the lock and is left out.
* The edge from planning leads to the stage's entry (the compiler demands it), and a
  stage's wait offers `continue_stage` and `revise_task` only
  (`pipeline_v2.ts:319-322`, `697-760`).
* `RespondStep` answers a wait with an action the interventions do not reserve.
* The deep comparisons (`...Equals`) are equality.

### ProjectApply

`tree` is the registered project, `temps` the writer's temporaries in it, `operation`
the journal, `plan` and `sealed` the immutable package. A call holds the journal it
last saw in `calls[c].op`; `current` says whether it still is the stored one, which is
the revision the code compares. `review` is what the operator reviewed: the
baseline, result and project trees.

A step of the plan is a sequence of actions, since the operator takes no lock and a
death may fall between any two system calls. `ExecuteStep` opens the parent, looks at the
path and classifies the step; it changes nothing. The change is an action of its own
(`RemoveLeaf`, `RemoveDirectory`, `CreateDirectory` then `ChmodDirectory`, `OpenForMode`
then `SetMode`, and for a publication the temp's intent, creation, identity and bytes,
then `PublishNew`, or `CheckReplaced` then `PublishReplacement`). It does what the system
call does to whatever stands there by then: `unlinkat` takes any leaf, `renameat`
replaces any leaf, `renameat2` with NOREPLACE and `mkdirat` replace nothing,
`unlinkat(AT_REMOVEDIR)` takes an empty directory only. `Verify` looks again before
`CommitProgress`. Merged into one action are only pairs of which one call changes
nothing and the other decides alone: the emptiness check before the removal of a
directory, the reading of what made a creation fail.

The operator edits the project between any two actions, what he removes going with all
it contains, and may put an object at a temp's name. `edited` holds the paths he edited
since the writer last looked, `removed` the directories he removed since the writer
opened the parent: the writer goes on with a parent that is `Gone`. A temp of the
writer's stays though its directory goes. A publication that fails cleans its temp by
name, also after its rename has freed the name (`Published`): an object the operator puts
there in that moment is removed. A call that waited for the lock with an old copy may find that
another one advanced the journal: where the code adopts the stored document, at the
first commit and at each commit of progress, so does the model.

`lapses` records what the code cannot repair: a death between `mkdirat` and `fchmod` of
a new directory (`bare_directory`), a temp whose identity never became durable
(`unowned_temp`), a read-only temp (`sealed_temp`), and a call that loaded the
journal before it waited for the lock and adopted an advance or progress (`late_call`).
`CompletesUndisturbed` assumes none of them, no edits, and a plan that is `Sound`.

### PipelineV1

`document` (the stored document, the sink's snapshot), `engine` (the walk) and `host`
(the helper's sessions, the result file) are groups of variables beside the runner's
own and the signals'; an action is what the runner does between two awaits. `PipelineV1State` has the reducer as one
operator per command and the validator as `Loads`; `ReducerMeetsLoader` relates the
two. There is no resume in version 1, so a death is the end of the behaviour, and
what holds of `stored` always, holds after it.

### WorkerOperation

A step of the caller is the answer to the exchange in flight with the code up to the
next await. `op` is the daemon's operation; `written`, `evicted` its log; `drain` the
cursor and the flags of the drain; `cause` the claim of `worker_signals.ts` (signal or
deadline, the first one wins); `cancels` the cancels sent. Every exchange may fail
before or after the daemon acted on it. `Pages` lets the daemon drop bytes with or
without flagging it in the page that follows: the code says that an eviction outside the
observed window cannot be proven absent (`worker_operation.ts:70-77`). `missed` are the
bytes it dropped before the sink got them.

### ControlPlane

A slot of `calls` is a request through `received`, `resolved`, `authorised`, `waiting`,
`answered`; `kids` is the child of the slot. `ClaimBinding` has its three ends
(durable, refused, unconfirmed). `Stop` is the shutdown as well as the crash: the
client is given no abort signal, so a child goes on either way and its `ChildCreates`
and `ChildEnds` may come later. `Start` may bring another registry. `CliRun` is a run
made outside the service. `OrchestratorCommand` enumerates the reports a child may
leave, per kind of command, and `Parsed...` what the client accepts of them; the two
output limits of the client are one bit, and `exit_code_mismatch` is folded into
`unexpected_output_shape`.

## 4. The runs

| run | instance | distinct states | properties |
| --- | --- | --- | --- |
| `graph` | two states, two transitions, two waits whose actions lead to both states, agents and decisions, four session ids, no stages | 949 117 | `ExecutionPairing` `RunCoherent` `WaitTriple` `FinalImmutable` `WaitFreezesGraph` |
| `stages` | two plan revisions of one digest, two task revisions, generations and waits, budget 1, extension 1, safe-integer limit 2 | 505 804 | `StageLifecycle` `NeverStuck` `LedgersAppendOnly` `FailureLatched` |
| `document` | three commands, two dispatches each, fair | 83 699 | `DocumentSafe` `AcknowledgedSurvives` `NotCommittedLeavesNoTrace` `NoLostUpdate` `PoisonedSinkIsSilent` `ImplementsLog` `LockIsReleased` |
| `coordinator` | control decision that may repeat, planning, a stage of a decision and an agent, its wait, both endings; four sessions, four transitions; fair | 22 458 | `CoordinatorFits` `NeverRejected` `RecordsTrue` `SignalNeverIgnored` `ImplementsRunState` `CommandReturns` |
| `store` | two publishers with two calls each, two contents, two faults, power loss; fair | 145 232 | `StoreSafe` `ImplementsWriteOnce` `CallReturns` |
| `interventions` | one task with two bodies, two waits, three plans and generations, two faults; fair | 17 061 | `InterventionsSound` `RetriesSound` `InterventionsComplete` |
| `apply` | nine reviews over three paths, two processes, two failures or deaths, one edit | 962 541 | `OperationTrue` `ProjectKept` |
| `apply_completes` | five reviews, two processes, one failure or death; fair | 25 237 | `CompletesUndisturbed` |
| `v1` | eleven bundles, two faults, two signals, one edit; fair | 143 508 | `DocumentSound` `RunHonest` `RunReturns` |
| `worker` | three bytes of log, pages of two, two retained; fair | 385 163 | `OutcomeHonest` `OperationAccounted` `ReturnsUnlessClaimed` |
| `control_plane` | one run id, two projects, two requests, two registries; fair | 505 154 | `AnswersTrue` `BoundAuthority` `RequestsReturn` |
| `control_plane_outcomes` | the same | | violates `OutcomesReachTheCaller`, see 7 |

What the properties say that is not in their names:

* `RunCoherent`: types, session ids unique, cleanup record, ending and replayed cursor agree
  with the ledgers. `StageLifecycle`: one open generation and iteration, budget,
  membership, no iteration across an answered wait, interventions backed by their
  records. `NeverStuck`: some command is acceptable until the run has ended.
* `LedgersAppendOnly`: no record goes or changes place; one that is settled, closed or
  answered never changes; one that is still open only gains fields it lacked, but for its
  phase and a generation's list of iterations, so a repeated command replaces no binding.
* `DocumentSafe`: types, the fresh runner's claim, the holder's snapshot is the file, no
  torn document.
* `CoordinatorFits`: types, no wait is missing before planning, an offer leads where it
  says, no active run is stranded but the known ones (7.5, 7.6). `NeverRejected`: the
  coordinator asks for no command the reducer would refuse.
  `RecordsTrue`: what is recorded of sessions, logs and outputs is so, and what a
  command reports is what it leaves. `SignalNeverIgnored`: a command that accepted a signal
  reports no success and passes no checkpoint into a suspension; after that checkpoint
  the signal is ignored (see 7). `CommandReturns`: a command ends, or stays for ever in
  one call of the helper or the worker.
* `InterventionsSound`: whatever the document names was published before, the chains'
  documents agree with the ledgers, and the loader accepts the document after every
  step of every attempt. `RetriesSound`: the operator's own retry is admitted at every
  prefix, a foreign command changes nothing. `InterventionsComplete`: an accepted
  intervention that is repeated completes; a settled planning execution whose
  proposal fits is handed over.
* `OperationTrue`: the journal is backed by the package on disk; the project is the
  reviewed tree with a prefix of the plan carried out, whatever died; a passed
  preflight whose removals can be reached holds for every step; an applied operation
  whose calls left no lapse leaves no temp.
  `ProjectKept`: a writer changes only the path of the step it is at. It takes an object
  away only by a step that is to replace or remove it, no directory but an empty one, and
  none it did not find as planned unless the operator edited that very path after the
  writer looked: the window of 7. At a temp's name it removes its own object only, up to
  its rename. No progress is taken back.
* `DocumentSound`: every stored v1 document that no failed deletion of an unrecorded
  session marked (7.2) passes the validator. `RunHonest`: sessions are settled,
  progress is earned by a worker, outcome and exit code agree.
* `OutcomeHonest`, `OperationAccounted`: a worker's outcome is the first claim's or the
  daemon's; one cancel exactly when claimed; until a page breaks the contract, a captured
  log has in order and once each byte the daemon had not dropped before it was read. That
  nothing was dropped is not claimed.
* `AnswersTrue`: a 200 with an outcome was stated by the request's own child, a refusal
  of authority started none. `RequestsReturn`: a request in progress is answered, or the
  service stops, or its own child runs for ever. `BoundAuthority`: every child and every document works for
  the project its id is bound to, and no binding changes.

Why the bounds are enough for what each run asks.

* `graph`: two executions is where an id can be reused, a transition mispaired
  and a failure follow a success; four session ids leave the second execution two
  fresh and two used ones. With two waits a cursor can have been moved by none, one or
  both, at one boundary or at two, and two actions make its replay choose.
* `stages`: two of everything that can be replaced; one extension of one and a limit of
  two put the sum at the limit, one over and one under; the second wait separates an
  intervention of its own wait from one recorded by an earlier wait. No guard of the
  reducer compares records more than two apart.
* `document`: one command makes the document, a second one races it and a third
  arrives later; with two dispatches one is in flight while another is queued.
* `coordinator`: four transitions take the run through every role to the stage's
  wait; four sessions are two agents with both sessions, so a failure can hit an
  agent after another was cleaned up; any number of commands, crashes and signals
  follow each other, so a recovery can itself be interrupted and recovered. The offers
  are all pairs of states, so that the choice among them is the coordinator's own.
* `store`: two publishers race, with the same or different contents; the second call
  of one adopts or conflicts; two faults let the repair of a fault fail.
* `interventions`: two waits give continue then revise, revise then continue and each
  twice; two bodies separate a revision from its repeat and from a foreign one; two
  faults hit a step and its retry. Sessions and transitions are as many as two waits consume.
* `apply`: three paths are a directory, a file in it and one beside it, which is every
  nesting the planner orders; the reviews cover creation, removal, replacement in both
  directions, modes, links, a result the operator already has, and operator trees the
  planner refuses or cannot see. Two failures hit a call and the one that recovers it.
  `apply_completes` keeps the reviews whose steps differ in kind.
* `v1`: bundles of one and two agents, well formed ones that end well, badly or in the
  budget, and one for each gate that refuses; a second agent's failure meets a first
  one's records; a second fault hits the handling of the first.
* `worker`: three bytes exceed a page and the retained tail by one each.
* `control_plane`: the races are over one run id; the second slot takes only
  fresh runs, since requests for a bound run meet only in the document, which has its
  own lock. Two registries let a binding outlive its project.

Some configurations are not in the table: each shows one violation that section 7
describes, and is run with `tlc -config <file>.cfg <module>`.

## 5. Assumptions and fairness

* `EntryPersists`: the entry of a freshly made run root in its parent reaches the
  disk with the run root's own fsync. The code relies on it (no fsync of
  `pipeline-runs`); 7.7 shows what happens without it.
* A rename and a link are atomic for readers, and after a power loss a file that was
  never synced may be empty or partial.
* The run root and the stores are not touched by anything but the commands. The
  registered project is: its operator edits it at any time.
* Random names (temps, session ids, claims) are fresh.
* Constants. `None` and `Nothing`, the absent field and the empty place, are none of the
  values that can stand there: ids, logs, intents and numbers (`NoneAssumption`), failure
  reasons (`FailureAssumption`), reports (`ReportAssumption`), projects, origins and
  registries (`NothingAssumption`), contents and outcomes (`AbsentAssumption`). An offered
  wait has an action (`ActionAssumption`), and the offers of a run include what a stage's
  wait offers (`OfferAssumption`). `CompiledAssumption` is what the compiler guarantees of
  a pipeline, `BundleAssumption` the shape a version 1 bundle has once it is read and
  before it is judged. No version 1 document, and no terminal in one, is `None`
  (`DocumentAssumption`). Bounds are naturals, budgets and extensions positive. TLC evaluates each
  of them on the runs.
* `ProjectApply` has process deaths and no power loss.
* Fairness, run by run. `document`: every command's next step; every file system call
  settles and `LOCK_NB` waits for nobody. `coordinator`: the running command's own code
  and file operations (`WF(~Outside /\ Step)`), and no call of the helper or of the
  worker: sessions are created and deleted without a timeout (`docker_helper.ts:22-26`)
  and a worker operation need not return (7.10). `store`: the steps
  of a publisher. `interventions`: a started call goes on, an operator whose command
  failed repeats it (`SF(RetryOwn)`), and so does the automatic continuation of a
  plan-ready run; strong, because other commands come in between; deaths are bounded.
  `apply_completes`: each process's steps, and the interface's operator asks again.
  `v1`: the runner, and a worker ends by itself or is stopped after its deadline.
  `worker`: the caller, whose every exchange has a timeout, and the deadline's timer.
  `control_plane`: the service's handlers only; the client waits for its child without a
  timeout (`control_plane/subprocess_client.ts:1556`), so no child is assumed to end. Signals, crashes, edits,
  faults and the start of a command are never fair. The reducer has no fairness: nothing
  obliges anybody to send a command.
* Deadlock is not checked where a run, a call or a command may end for good.

## 6. The proofs

`RunStateProofs` proves for every value of the constants that satisfies the named
assumptions of `RunState`:

* `TypeCorrect`. One lemma per group of commands.
* `FinalizedForever`: a final status is never left and its document never changes;
  directly from the status gate, which every command's guard contains.
* `FailureLatches`: after a failed execution only the finalization moves the
  document.
* `WaitTripleAlways`: status `waiting`, phase `waiting` and an unanswered last wait
  imply each other, and no other wait is unanswered. Inductive together with
  `TypeOK`.
* `WaitFreezes`: while the run waits, executions, transitions, cursor and ending
  change by the response only.
* `PairingAlways`: the pairing of executions and transitions. It is not inductive:
  the proof strengthens it to `Paired`, which adds what holds of the last, not yet
  bound execution.
* `RunCoherentAlways`: its four parts are inductive only together and only with more.
  Uniqueness of session ids is stated slot by slot (`SlotsUnique`), since a set of ids
  forgets which record holds one. The cleanup record and the ending need `EndingInv`:
  a cleanup record stands only on a settled execution, and a run that publishes outputs
  has recorded them. The replayed state is a choice, the newest answered wait of a
  boundary; `ReplayInv` adds that no wait is recorded ahead of the cursor, so that a later
  command cannot change what an earlier boundary replays to, and that there is a newest
  wait is a greatest element of a finite set.

And of the ledgers and the stages:

* `LedgersAppendOnlyAlways`: every command leaves each ledger, extends it by one record, or
  fills fields that were absent in a record that is still open. `FieldsKept` is the part
  about open records; that no bound field is replaced does not follow from the guards,
  which look at the phase and not at the field: the invariant `SlotsByPhase` says which
  fields an execution of each phase cannot have yet.
  One lemma per ledger and command, position by position.
* `StageLifecycleAlways`. The parts of `StageLifecycle` do not carry themselves. To them
  `StageInv` adds `LifecycleInv`, the order of all boundaries (no opening or closing lies
  ahead of the cursor's count, each opens where or after the last one closed), and
  `RevisionsIntended` and `GrantsBacked`, which trace an intervention to the wait that
  recorded its intent. The budget is a sum over the grants: `GrantSum` restates it as a
  function of positions; that it exists, is a natural number and only grows is shown for
  every length by a least counterexample (`LeastElement`), since the library's induction
  theorems cannot be instantiated.

`RunDocumentProofs` proves, for any number of commands and dispatches:

* `TypeCorrect`, `FreshNeverBusyAlways`, `SinkMirrorsAlways`, `NeverTornAlways`,
  `NoLostUpdateAlways`, and under `EntryPersists` also `AcknowledgedSurvivesAlways`
  and `DocumentImplementsLog`, the refinement of `DurableLog`.
* The inductive invariant is `Inv == TypeOK /\ LockInv /\ SinkInv`. `LockInv`: the
  holder is the one command past the lock, and a command that has claimed a fresh
  root is alone with it. `SinkInv`: among a sink's dispatches at most one is past
  the queue, its candidate extends the sink's snapshot by one entry, and the
  snapshot is the visible document unless that dispatch has just renamed. Without the exclusion the snapshot says nothing about the file, and
  without the promise chain two candidates would extend the same snapshot.
* `Between` (the acknowledged document is a prefix of each survivor, each survivor
  a prefix of the visible document) carries the durability results.
* `PoisonedSinkIsSilentAlways` and `NotCommittedLeavesNoTraceAlways`: what a dispatch
  told its caller. The first adds that a poisoned sink has nothing in flight
  (`PoisonInv`); the second that every dispatch found on disk was renamed or belongs
  to a command that is gone (`TraceInv`).

`ImmutableStoreProofs` proves, for any publishers, contents and bounds:

* `StoreSafeAlways`: `Spec => []StoreSafe`, that is types, whole documents under the
  name, and that who was told is right.
* `StoreImplementsWriteOnce`: `Spec => ImplementsWriteOnce`, the refinement.
* The inductive invariant is `StoreInv`: the types; `DirectoryInv`, what each step of a
  publisher knows of the directory it opened; `CandidateInv`, that an unlinked candidate
  is its publisher's content, written and synced before the link; `NameInv`, that what
  stands under the name was linked whole and synced, and that its entry is on disk only
  in a durable directory; `ToldInv`, that who was told has its content there. The
  directory has to be in the invariant because an entry is only as durable as the
  directory that holds it. One lemma per step, and frame lemmas for the publishers a
  step is not of.

`WorkerOperationProofs` proves, for a log of any length and any bounds of pages and
capture:

* `OutcomeHonestAlways`. The invariant is `WorkerInv`: to the property and the account of
  cancels it adds `ExchangeInv`, what the caller knows at each exchange. Until it returns
  the operation is signalable and no cancel was sent; it cancels only what was claimed;
  and in the chain of drains the status it polled is terminal and still the operation's,
  which is why that chain may report it without asking again.
* `OperationAccountedAlways`: the account of cancels, and that a captured log is what was
  written without what the daemon dropped unread. `LogInv`
  adds what the properties do not say and the drain relies on: as long as no page broke
  the contract the bytes delivered are increasing and end where the cursor stands, and
  the retained chunks concatenate to the end of them. Flattening is a recursive function
  over the chunks; what it is for every number of them is again a least counterexample
  (`FlatExists` and the lemmas after it).

`ControlPlaneProofs` proves, for any runs, projects, requests and registries:

* `BoundAuthorityAlways`. The invariant follows the authority through a request: a claimed
  project is of the registry, an authorised request's is the one its run id is bound to,
  and a child keeps what it was started with. It stays true because a binding that is
  there never changes (`BindingsStay`, shown beside the invariant), whoever else races or
  restarts.
* `AnswersTrueAlways`. `AnswerInv` adds what a slot's child may have said at each phase
  (a report is one its kind of command can leave), that an answered request's child is
  the one the answer was made of, and that a refusal of authority was given to a slot
  without a child. Whether a run id was bound to another project when a conflict was
  answered stays true because of `BindingsStay`.

`CoordinatorProofs` proves, for every compiled pipeline and every bound:

* `CoordinatorImplementsRunState`: `CoordSpec => ImplementsRunState`. Every dispatch, on
  each of its outcomes, is shown to be the reducer command of that name with its guard,
  and everything else leaves the document alone; hence everything proved of `RunState`
  holds of the document under crashes, signals, failed writes and recoveries.
* `CoordTypeCorrect`, `RecordsTrueAlways`: what is recorded of sessions, cleanups, logs and
  outputs is so outside, every session that was created is deleted, tried or orphaned by a
  crash, and a report says what the command leaves behind.
* `CoordinatorFitsAlways`: whatever fails, is signalled or dies, the engine is not entered
  where a stage's wait is missing, a wait's offer leads where it says, and an active run
  that no command works on can be resumed, but for the known ones.
* `SignalNeverIgnoredAlways`: no step of a command that accepted a signal reports success
  or enters a suspension; only what had passed the suspension's last checkpoint returns.
* The inductive invariant is `CoordInv`. `DocumentInv` is what the durable document means
  between commands: the invariants of `RunState` it needs, that each record is one the
  compiled pipeline can start, that its ids were handed out and its artifacts exist.
  `CommandInv` is what the running command may rely on across an await: where it stands
  in the document (`Positions`), what its locals are worth there (`Locals`), which sessions
  it still has to delete and that no live session is anybody else's (`Owned`), and that its
  slots are the execution's as long as no write was abandoned (`Tracks`). Without `Tracks`
  a recovered execution could be settled with the sessions of another; without `Owned` a
  deletion skipped after a failure would go unseen. `DispatchOr` splits each write into
  committed, adopted and not committed, so there is one lemma per action for the command
  and one for the document.
* `CoordinatorFitsAlways` rests on `FitInv`, which is `CoordInv`, the property's parts about
  waits and two facts of the graph: `Walked`, that executions and cursor follow the
  transitions, and `HandedOff`, that a generation of a plan was opened between the planning
  execution that proposed it and its transition. Without them an offer that was right when
  it was made says nothing of where the run stands. A missing wait stays outside the engine
  because the engine is entered from the boundary check alone, on a document that check
  leaves as it is (`EngineEntered`). That only the known runs are stranded needs no more
  than `CoordInv`: what a document can look like between commands is exhausted by the
  recovery windows and those three (`ActiveIsKnown`).

`PipelineV1Proofs` proves, for any bundles, admitted or not, and any number of faults,
signals and edits:

* `DocumentSoundAlways`: every document a run leaves behind loads, but for the one of 7.2,
  and the reducer refuses the runner nothing but the recording of that deletion.
* `RunHonestAlways`: sessions are settled, transitions are earned, and exit code, status
  and reason agree.
* The proof has two halves. The first is about the document alone and needs no run: a
  document at a position between two commands (`Active`: its facts are coherent and its
  journal stands at the `Point` its records say) stays so under every command of the
  reducer, and is one a load takes (`ActiveLoads`); the commands that end a run leave one
  that loads (`SucceedKeeps`, `EndingLoads`). The validator recounts the whole journal, so
  these lemmas follow each count, order and set of stages through one more event.
* The second half is the inductive invariant `RunInv` of the runner: the document present
  and active until the run is over (`Present`, `Kept`); what a failure in flight goes with
  (`Failing`); that the engine's cursor and count are the document's (`Walking`); that the
  record of the activation is at the phase of the runner's point in it (`Flying`); which
  helper session may live (`Hosting`); that a record tells of its session what became of
  it (`Truthful`); and why a command may have been refused (`Refusing`). `Walking` and
  `Flying` are needed because the reducer's guards are about the document and the runner
  decides from its own variables: they are what makes it never ask for a command the
  reducer refuses.

`ProjectApplyProofs` proves, for any paths, reviews, processes, faults and edits:

* `ProjectKeptAlways`: a writer changes only the path of the step it is at; what it takes
  away a step is to replace or remove, and a directory is empty; what it finds there is
  what the plan starts from, unless the operator edited that very path after the writer
  looked; at a temp's name it removes its own object only, until its rename frees the
  name; and no commit takes recorded progress back, unless a call was late.
* The first half is about the plan. `Ordered` puts each step at the number of its
  predecessors, `Place`. That this is one of 1 to the number of steps and different for
  different steps (`PlaceIs`) needs that `Precedes` is a strict total order on the steps
  of a review, hence that two steps of one path and phase are one (`RawStepsDiffer`);
  that every step gets a position is then the surjection of `OrderedIs`. Two steps on one
  path are a removal and the creation that follows it (`RawStepsPair`), which is what
  makes the state a step expects the one the path's last step left (`ModelStateIs`).
* `ApplyInv` is the inductive invariant. `LockExcludes`: one writer inside the lock, and
  nobody preparing meanwhile. `JournalTrue` and `CopyTrue`: the stored document and each
  call's copy of it are valid and name the published plan, and a copy that is current is
  the stored one. `WriterReady`: a writer past its walk has a plan, a count that is
  that of its copy, and a step to do. `TempOurs`: the temp a writer is about to clean,
  write or rename is its own, since the name was free when it created it or the journal
  holds its identity; without it an object the operator put at the name could be
  removed. `PathViewed`: between a look and the change that follows it, the step is of the
  kind its action is for, and its path holds what was seen there or is in `edited`; this
  is what carries the observation over the operator's edits to the change.
  `PlanAdmitted`: what is published was planned. Both invariants are stated at the end of
  `ProjectApply`.
* Every step has the same shape, so each is shown to be `Framed`: it changes one call,
  leaves the copies of the others alone or makes them stale, and keeps the lock.
  `StepKeeps` then carries `ApplyInv` over any framed step whose own call is true again,
  and leaves one lemma per action about that call, the project (`TreeSafe`,
  `TempsSafe`) and the journal (`Onward`).
* `OperationTrueAlways`: all of `OperationTrue`. It needs a second invariant, `OpInv`,
  beside `ApplyInv` (and `NothingMissed`: before the first edit no writer has missed
  any); one lemma per action keeps it (those ending in `Holds`), and `OpStep` joins them:
  * `BaseInv`: the project is a tree, and `PackageInv`: what the journal and every call's
    copy of it say was published is published, also while a call is between publishing
    and recording. A commit that fails leaves the copies true, so overlapping
    preparations need no order.
  * `PlaceInv`, while nobody edits: the project is the reviewed one after some n steps,
    n is at most one ahead of the journal unless a call was late, and every call's count
    and copy stand where they can for that n (`Standing`); or a directory was left
    with the private mode for good and no writer is under way (`Frozen`).
  * `LitterInv`, while nobody edits and no lapse happened: each of the writer's temps is
    the one the journal owns for the frontier step, or belongs to a call about to commit
    its identity. `Frontiers` ties the temp a call works on to the intent in its copy.
* The preflight half of it is about any tree, not about reachable states
  (`WalkReplays`). The walk sees a planned path at its result, where its first step
  starts, or already gone (`WalkSaw`). From there: removals come first and the deepest
  before the others, so what is above a removal is untouched (`RemovalReached`);
  directories are created before anything below them (`CreationReached`); and a
  directory is empty when its removal comes (`RemovedEmpty`), because an unplanned object
  below it would have a lowest removed directory above it whose child on the way is
  either planned, and then lower, or one the walk refuses (`NextGoes`, `NoStray`). The
  paths of the project are closed under going up (`PathsAreClosed`), as a scan's are.

Only model-checked: everything with ENABLED or liveness (`NeverStuck`, `NeverRejected`,
`LockIsReleased`, `CommandReturns`, `CallReturns`,
`InterventionsComplete`, `CompletesUndisturbed`, `RunReturns`, `ReturnsUnlessClaimed`,
`RequestsReturn`), and the loader and with it the intervention chains, since the replay is a
RECURSIVE operator. The safety of `RunState`, `RunDocument`, `ImmutableStore`,
`WorkerOperation`, `ControlPlane`, `PipelineV1` and `ProjectApply` is proved in full, and
that of `Coordinator` but for `NeverRejected`.

## 7. Findings

The first is a run of the project; the others are shown by a configuration of their
own or by the change named.

1. `control_plane_outcomes`: `orchestrator respond --json` prints the wait
   controller's own reasons (`invalid_response`, `wait_conflict`, `wait_storage_failed`),
   which the subprocess client does not accept, so an undeclared action or a wait that
   was already answered reaches the HTTP caller as 502 `unexpected_output_shape`.
   `docs/orchestration-workflow.md:6561-6563` says a correctly received outcome is a
   200.
2. `MCPipelineV1Loads.cfg` (`DocumentLoads`): when a session was created, its record
   failed and its deletion fails too, the run is marked with a reason for which the
   validator wants a recorded session (`pipeline_state.ts:1426-1433` against `884-901`).
   Every later load of the stored document is rejected.
3. `MCControlPlaneAdopts.cfg` (`NeverAdopted`): `run_binding_store.ts` says a run
   created by the command line without a binding "is never adopted". A fresh run posted
   for its id claims the binding before the child refuses; the binding stays, and from
   then on the run is commanded for that project.
4. `MCProjectApplyConflict.cfg` (`ConflictIsClean`): header and
   `docs/orchestration-workflow.md:7153-7154` promise that a divergence before any
   mutation is a conflict that leaves the project byte-identical. A call that loaded the
   operation as `prepared` and waited for the lock while another one carried out steps
   and died adopts the advanced journal but keeps its own count of zero completed
   steps; it starts at the first step, meets what the other call did, and with its
   count at zero records `conflict`
   (`pipeline_v2_project_apply_writer_internal.ts:641`), although the project was
   changed.
5. `MCCoordinatorStageDecision.cfg` (`SettledDecisionRecoverable`):
   `docs/orchestration-workflow.md:435` lists a settled stage execution without its
   transition among the windows `resume` completes and does not exclude decisions; the
   classifier (`pipeline_v2_recovery.ts:355`) covers agents of a stage and control
   decisions, so a crash between a stage decision's record and its transition leaves an
   active run that `resume` refuses for ever.
6. The same configuration with the invariant `PlanReadyChainsOwnPlanning`: the document
   (447) says the plan-ready chains own every settled planning execution without a
   transition. One whose edge leads to a control or terminal state commits its own
   transition; after a crash in between `resume` refuses the run as a planning boundary
   (`pipeline_v2_coordinator.ts:2034`) and `resume-plan` refuses its edge.
7. `RunDocument.cfg` with `EntryPersists = FALSE` violates `AcknowledgedSurvives`:
   `run_snapshot_store.ts` fsyncs the run directory so that a confirmed commit is
   durable, but nobody fsyncs the parent in which the runner has just made the run
   root; on file systems that require it a confirmed first commit can be lost.
8. `MCRunStateLoads.cfg` with `OpeningNeverPrecedesFailure`: the comment at
   `pipeline_v2_state.ts:37` says openings require a settled boundary "so a
   reducer-produced document can never place an opening before the failure it later
   carries". The reducer accepts an opening at a boundary at which an execution is
   started afterwards and fails; the loader rejects the document.
9. `MCRunStateLoads.cfg` (`UnfailedDocumentLoads`): without failures, too, the reducer
   accepts sequences the loader rejects (a second plan revision accepted around a
   generation's opening, 6667). The present controllers take care not to send the
   sequences of 9: `InterventionsSound` shows that what they leave is loadable as long as
   no execution fails. It says nothing on 8, since no execution fails in that run.
10. `WorkerOperationReturns.cfg` (`OperationReturns`): `worker_operation.ts:57-61`
    says a log endpoint that never answers costs its bound once, since the drain then
    stops. In the chain of drains after a terminal status a claim that is already made
    leaves each fetch failing at once (the signal is aborted) without ever marking the
    drain as stopped (514), so the loop never ends.

11. `MCProjectApplyConflict.cfg` with `MaxEdits = 1` and the invariant `PreflightSound`:
    `docs/orchestration-workflow.md:7152-7154` says that at `prepared` the whole plan is
    verified before the first mutation, so that a divergence is a clean conflict. The
    walk takes a path below a missing directory for absent, and so a planned removal
    for done (`pipeline_v2_apply_verify_internal.ts:541-606`); the writer then cannot
    open that directory and refuses the step after earlier ones have changed the
    project. `WalkSound`, which the run `apply` checks and `OperationTrueAlways` proves,
    holds because it asks that what is to be removed can be reached.

Two windows are in the models because they are in the code, and the properties are
stated around them:

* The apply. The operator takes no lock. A writer looks at a path and changes it in
  another system call, so an object the operator puts there in between is unlinked by a
  removal or renamed over by a replacement, and a directory or file is given the step's
  mode (`pipeline_v2_apply_exec_internal.ts:168` and `240`, `331` and `350`, `782` and
  `786`, `831` and `842`). The code and `docs/orchestration-workflow.md:7194-7196` name it as
  a limitation for the rename; it is as open for the other three. `ProjectKept` bounds it: nothing but a
  path edited in that window is concerned, never another path, and a directory goes only
  when it is empty.
* The suspension. A signal that is accepted after the last checkpoint of a command that
  is about to suspend (`pipeline_v2_coordinator.ts:2059`, `2775`, `2825`) and before it returns
  is ignored: the command reports `waiting` or `plan_ready` and exits 0. For the
  committed wait a comment says so (2876-2878, "no signal cutoff").

Smaller observations the models carry and no property judges: the running phase does
not consult `drainStalled`, so a page that does not advance is delivered again, where
the comment at `worker_operation.ts:107-110` says exactly once; an abort listener added to an
already aborted signal never fires; a create answer that is not JSON throws; a status
that cannot be read ends the operation as `worker_failed` without a cancel. The v1
reducer alone would take a second transition of an activation whose edge leads back to its
own state, and the document would not load; the runner never asks for one (the last
conjuncts of `Flying`). In v1 a signal that loses to the deadline is not recorded, a final commit of unknown durability
is answered with exit 1 although a success may be stored, and a session is leaked when
its create answer is unreadable (`launcher.ts:159`). The control plane answers 502 for a
mutation whose child was killed after it printed its success, and compares no parsed
`run_id` with the one it asked for. An apply operation that failed before its plan was
recorded cannot be prepared again; a path left as it is beneath a directory that
becomes a file makes the apply end in `recovery_required`.
`docs/orchestration-workflow.md` contradicts itself on a stage agent whose phase is
`running`: line 265 describes its recovery, line 450 says it is never recovered. The
code, and `Window`, follow line 265.

## 8. What is not modelled

* Syntax of fields, digests, canonical encoding, timestamps, the commit history's
  bodies: data the properties do not tell apart.
* Project copy, provenance comparison, read projections, the compiler and decision
  evaluation: walks and pure functions without state of their own. What they guarantee
  is an assumption here (`EntryState \in StateIds`, the offers of a wait) or a choice
  (the outcome of a decision, the reviewed trees).
* Command line parsing, docker invocation, request bodies and queries, the browser
  interface: I/O whose failures are the faults of the models.
* The runner's read-only preflight (profile, authority, bundle): it refuses before
  anything is written.
* In the apply: extended attributes, hard-link policy, root binding, the read-only
  refusals before the first write, and power loss.
* In v1: the smoke command, the credential and workspace checks beyond their failure,
  the helper's best-effort cancel of a container.
* Which of the hazards have no property, and why, is noted with them in `PROJECT.json`.

## 9. The plan

Done: the run's document and reducer, the immutable store, the coordinator, the
intervention chains with the loader over every document they leave, the apply, v1,
the worker operation and the control plane; the proofs of section 6.

Left, in the order of importance:

1. `RunStateLoader` with recursive functions in place of RECURSIVE operators, so that
   the safety of the intervention chains can be proved.
2. Power loss in `ProjectApply`: the writer fsyncs directories, and the order of these
   fsyncs and the journal's commits is not checked.
3. The phases of the runner before `create_run`, and the decision evaluation as
   operators against a reference definition.

--------------------------- MODULE RunStateLoader ---------------------------
(***************************************************************************)
(* validatePipelineV2RunState: what the loader demands of a document it    *)
(* reads back.  The loader keeps no history: it replays the records from   *)
(* their anchors, boundary after boundary (boundary b lies between the     *)
(* transitions b and b + 1), and inside a boundary lets a worklist find an *)
(* order in which every record anchored there applies.  LoaderAccepts is   *)
(* that predicate over the document's fields; the commit_history replay    *)
(* after it is not part of it.                                             *)
(*                                                                         *)
(* A replay state r holds what the loader's local variables hold:          *)
(*   cursor      replayCursor         plans       planPosition             *)
(*   waits       waitPosition         entered     enteredWaitIndex or 0    *)
(*   gen         openGenerationIndex or 0                                  *)
(*   iteration   openIterationIndex or 0                                   *)
(*   opened, closed    openedGenerations, closedGenerations                *)
(*   positions   iterationPositions   closes      closedCloses             *)
(*   grants      processedGrants      ok          FALSE once it has thrown *)
(***************************************************************************)
EXTENDS RunState

\* Iterations opened strictly before boundary b and not closed up to it.
UnambiguouslyOpen(it, b) ==
  it.opened < b /\ (it.closed # None => it.closed.count > b)
NoneOpenAt(b) ==
  \A g \in DOMAIN generations : \A i \in DOMAIN generations[g].iterations :
    ~UnambiguouslyOpen(generations[g].iterations[i], b)

\* iterationOpenForStart: a wait-bound closure of the boundary precedes every
\* start of the boundary, an ordinary one follows it.
IterationOpenForStart(it, b) ==
  /\ it.opened <= b
  /\ it.closed # None =>
       /\ it.closed.count >= b
       /\ ~(it.closed.count = b /\ it.closed.by \in WaitBoundClose)

ReplayStart ==
  [cursor |-> EntryState, plans |-> 0, waits |-> 0, entered |-> 0, gen |-> 0,
   iteration |-> 0, opened |-> {}, closed |-> {},
   positions |-> [g \in DOMAIN generations |-> 0], closes |-> {},
   grants |-> {}, ok |-> TRUE]

\* A failed planning or control execution that started at b admits no opening.
FailedStartAt(b) ==
  /\ b + 1 \in DOMAIN executions
  /\ executions[b + 1].phase = "failed"
  /\ executions[b + 1].execution_role # "stage"

\* (1) The plan revisions whose origin started at b.
ReplayPlans(r, b) ==
  LET here == {p \in DOMAIN plan_revisions :
                 /\ p > r.plans
                 /\ \A q \in r.plans + 1 .. p :
                      plan_revisions[q].origin_execution = b + 1}
      accepted == /\ b + 1 \in DOMAIN executions
                  /\ executions[b + 1].execution_role = "planning"
                  /\ executions[b + 1].type = "agent"
                  /\ executions[b + 1].phase = "cleanup_completed"
                  /\ NoneOpenAt(b)
  IN  [r EXCEPT !.plans = @ + Cardinality(here),
                !.ok = @ /\ (here # {} => accepted)]

\* The closing record of the open iteration, None when it has none.
OpenClosing(r) ==
  IF r.iteration = 0 THEN None
  ELSE generations[r.gen].iterations[r.iteration].closed
ConsumeClosing(r) ==
  [r EXCEPT !.closes = @ \cup {<<r.gen, r.iteration>>}, !.iteration = 0]

\* (2) The ordinary closure of the open iteration.
ReplayActiveClosure(r, b) ==
  IF /\ OpenClosing(r) # None
     /\ OpenClosing(r).by \in ActiveClose
     /\ OpenClosing(r).count = b
  THEN ConsumeClosing(r) ELSE r

\* (3) The closure of the open generation, once all its iterations were seen.
ReplayGenerationClosure(r, b) ==
  IF /\ r.gen # 0
     /\ generations[r.gen].closed # None
     /\ generations[r.gen].closed.count = b
     /\ r.iteration = 0
     /\ r.positions[r.gen] = Len(generations[r.gen].iterations)
  THEN [r EXCEPT !.closed = @ \cup {r.gen}, !.gen = 0] ELSE r

\* (4) The first generation anchored here that binds the last replayed plan.
ReplayGenerationOpening(r, b) ==
  LET due == {g \in DOMAIN generations :
                /\ generations[g].opened = b
                /\ g \notin r.opened
                /\ r.gen = 0 /\ r.entered = 0
                /\ r.plans # 0
                /\ plan_revisions[r.plans].sha256 = generations[g].plan_sha256}
  IN  IF due = {} THEN r
      ELSE LET g == CHOOSE g \in due : \A h \in due : g <= h IN
           [r EXCEPT !.opened = @ \cup {g}, !.gen = g,
                     !.ok = @ /\ ~FailedStartAt(b)]

\* The budget of generation g out of the grants replayed so far.
ReplayedBudget(r, g) ==
  LET sum[k \in 0..Len(grants)] ==
        IF k = 0 THEN generations[g].initial_budget
        ELSE sum[k - 1] +
             IF k \in r.grants /\ grants[k].generation_index = g
             THEN grants[k].additional ELSE 0
  IN  sum[Len(grants)]

\* (5) The next iteration of the open generation.
ReplayIterationOpening(r, b) ==
  LET next == IF r.gen = 0 THEN 0 ELSE r.positions[r.gen] + 1 IN
  IF /\ r.gen # 0 /\ r.iteration = 0 /\ r.entered = 0
     /\ next \in DOMAIN generations[r.gen].iterations
     /\ generations[r.gen].iterations[next].opened = b
  THEN [r EXCEPT !.iteration = next, !.positions[r.gen] = next,
                 !.ok = /\ @ /\ ~FailedStartAt(b)
                        /\ ReplayedBudget(r, r.gen) <= MaxSafeInteger
                        /\ next <= ReplayedBudget(r, r.gen)]
  ELSE r

\* (6) The next wait of the journal; an open one may only end the history.
ReplayWaitEntry(r, b) ==
  LET w == r.waits + 1 IN
  IF w \notin DOMAIN waits THEN r
  ELSE IF waits[w].transition_count < b THEN [r EXCEPT !.ok = FALSE]
  ELSE IF /\ waits[w].transition_count = b
          /\ waits[w].state_id = r.cursor
          /\ r.entered = 0
  THEN [r EXCEPT
         !.waits = w, !.entered = w,
         !.ok = /\ @
                /\ waits[w].response = None =>
                     /\ w = Len(waits)
                     /\ b = Len(transitions)
                     /\ AllBound
                /\ \A k \in DOMAIN task_revisions :
                     /\ task_revisions[k].revision # 1
                     /\ task_revisions[k].wait_index = w
                     => task_revisions[k].intent = waits[w].intent]
  ELSE r

\* (7) The grants of the entered wait.
ReplayGrants(r, b) ==
  LET due == {k \in DOMAIN grants : /\ r.entered # 0
                                    /\ grants[k].wait_index = r.entered
                                    /\ k \notin r.grants}
  IN  [r EXCEPT !.grants = @ \cup due,
                !.ok = @ /\ \A k \in due :
                              /\ grants[k].generation_index = r.gen
                              /\ grants[k].intent = waits[r.entered].intent]

\* (8) The closure of the open iteration by the entered wait's intervention.
ReplayWaitClosure(r, b) ==
  IF /\ r.entered # 0
     /\ OpenClosing(r) # None
     /\ OpenClosing(r).by \in WaitBoundClose
     /\ OpenClosing(r).wait_index = r.entered
     /\ OpenClosing(r).count = b
  THEN [ConsumeClosing(r) EXCEPT
          !.ok = /\ @ /\ waits[r.entered].intent # None
                 /\ InterventionRecorded(OpenClosing(r).by, r.gen, r.entered)]
  ELSE r

\* (9) The response, after every intervention record of its wait.
ReplayResponse(r, b) ==
  LET wait == waits[r.entered] IN
  IF /\ r.entered # 0
     /\ wait.response # None
     /\ r.iteration = 0
     /\ \A k \in DOMAIN grants :
          grants[k].wait_index = r.entered => k \in r.grants
     /\ \A g \in DOMAIN generations : \A i \in DOMAIN generations[g].iterations :
          LET closed == generations[g].iterations[i].closed IN
          /\ closed # None
          /\ closed.wait_index = r.entered
          /\ closed.count = b
          => <<g, i>> \in r.closes
  THEN [r EXCEPT !.cursor = wait.actions[wait.response], !.entered = 0]
  ELSE r

Round(r, b) ==
  LET r1 == ReplayPlans(r, b)
      r2 == ReplayActiveClosure(r1, b)
      r3 == ReplayGenerationClosure(r2, b)
      r4 == ReplayGenerationOpening(r3, b)
      r5 == ReplayIterationOpening(r4, b)
      r6 == ReplayWaitEntry(r5, b)
      r7 == ReplayGrants(r6, b)
      r8 == ReplayWaitClosure(r7, b)
  IN  ReplayResponse(r8, b)

\* Rounds until one makes no progress.
RECURSIVE Worklist(_, _)
Worklist(r, b) ==
  LET next == Round(r, b) IN
  IF next = r \/ ~next.ok THEN next ELSE Worklist(next, b)

\* The pending pass: no record anchored at b is left behind.
NothingPending(r, b) ==
  /\ r.entered # 0 => waits[r.entered].response = None
  /\ \A w \in DOMAIN waits :
       w = r.waits + 1 /\ waits[w].transition_count = b =>
         waits[w].state_id = r.cursor
  /\ \A g \in DOMAIN generations :
       /\ generations[g].opened = b => g \in r.opened
       /\ generations[g].closed # None /\ generations[g].closed.count = b =>
            g \in r.closed
       /\ \A i \in DOMAIN generations[g].iterations :
            i = r.positions[g] + 1 =>
              generations[g].iterations[i].opened # b

\* The execution that starts at b started inside, or outside, an iteration.
StartReplays(r, b) ==
  b + 1 \in DOMAIN executions =>
    LET e == executions[b + 1] IN
    IF e.execution_role # "stage" THEN NoneOpenAt(b)
    ELSE /\ \E g \in DOMAIN generations :
              /\ e.iteration_index \in DOMAIN generations[g].iterations
              /\ IterationOpenForStart(
                   generations[g].iterations[e.iteration_index], b)
         /\ e.phase = "failed" => r.iteration = e.iteration_index

\* One boundary: the worklist, its checks, and the transition that ends it.
ReplayBoundary(r, b) ==
  LET s == Worklist(r, b)
      final == b = Len(transitions)
  IN  [s EXCEPT
        !.cursor = IF final THEN @ ELSE transitions[b + 1].to,
        !.ok = /\ @ /\ NothingPending(s, b) /\ StartReplays(s, b)
               /\ final \/ transitions[b + 1].from = s.cursor]

RECURSIVE ReplayFrom(_, _)
ReplayFrom(r, b) ==
  IF b > Len(transitions) \/ ~r.ok THEN r
  ELSE ReplayFrom(ReplayBoundary(r, b), b + 1)

\* Every record was consumed and the replayed cursor is the persisted one.
ReplayComplete(r) ==
  /\ r.ok
  /\ r.waits = Len(waits)
  /\ r.grants = DOMAIN grants
  /\ r.plans = Len(plan_revisions)
  /\ r.opened = DOMAIN generations
  /\ \A g \in DOMAIN generations :
       /\ r.positions[g] = Len(generations[g].iterations)
       /\ generations[g].closed # None => g \in r.closed
       /\ \A i \in DOMAIN generations[g].iterations :
            generations[g].iterations[i].closed # None =>
              <<g, i>> \in r.closes
  /\ cursor.current_state = r.cursor
  /\ Len(executions) = Len(transitions) + 1 =>
       LastExecution.state_id = r.cursor

-----------------------------------------------------------------------------
(* The checks before the replay.                                           *)

TaskChains ==
  \A k \in DOMAIN task_revisions :
    LET r == task_revisions[k]
        before == {l \in 1..k - 1 : task_revisions[l].task_id = r.task_id}
    IN  IF r.revision = 1 THEN before = {}
        ELSE /\ before # {}
             /\ task_revisions[CHOOSE l \in before :
                                 \A m \in before : m <= l].revision
                  = r.revision - 1
             /\ r.wait_index \in DOMAIN waits

GrantPairs ==
  \A k, l \in DOMAIN grants :
    /\ grants[k].generation_index = grants[l].generation_index
    /\ grants[k].wait_index = grants[l].wait_index
    => k = l

WaitJournal ==
  /\ status = "waiting" => phase = "waiting" /\ HasOpenWait
  /\ status # "waiting" => phase # "waiting" /\ ~HasOpenWait

\* Each id in at most one of the two slots of the executions.
SlotsUnique ==
  LET ids(e) == {e.execution_session_id, e.tool_session_id} \ {None} IN
  \A e \in DOMAIN executions :
    /\ \A f \in DOMAIN executions :
         e # f => ids(executions[e]) \cap ids(executions[f]) = {}
    /\ executions[e].execution_session_id # None =>
         executions[e].execution_session_id # executions[e].tool_session_id

GraphRecords ==
  /\ Len(transitions) <= MaxTransitions
  /\ SlotsUnique
  /\ \A e \in DOMAIN executions :
       /\ e < Len(executions) => IsSettled(executions[e])
       /\ executions[e].stage_task # None =>
            StageTaskRecorded(executions[e].stage_task)
  /\ \A t \in DOMAIN transitions :
       /\ transitions[t].execution_index = t
       /\ t \in DOMAIN executions
       /\ transitions[t].from = executions[t].state_id
       /\ executions[t].phase = IF executions[t].type = "agent"
                                THEN "cleanup_completed" ELSE "evaluated"
       /\ executions[t].result \in {None, transitions[t].outcome}
  /\ cursor.transition_count = Len(transitions)

\* Grants and wait-bound closures name waits of the journal, the latter at the
\* very boundary of their wait.
WaitReferences ==
  /\ \A k \in DOMAIN grants : grants[k].wait_index \in DOMAIN waits
  /\ \A g \in DOMAIN generations : \A i \in DOMAIN generations[g].iterations :
       LET closed == generations[g].iterations[i].closed IN
       closed # None /\ closed.by \in WaitBoundClose =>
         /\ closed.wait_index \in DOMAIN waits
         /\ closed.count = waits[closed.wait_index].transition_count

-----------------------------------------------------------------------------
(* The checks after the replay.                                            *)

TerminalCoherent ==
  /\ Len(transitions) >= Len(executions) - 1
  /\ terminal # None =>
       /\ terminal.state_id = cursor.current_state
       /\ Len(executions) <= Len(transitions)
       /\ AllSettled
       /\ \A e \in DOMAIN executions :
            executions[e].type = "agent" =>
              executions[e].phase = "cleanup_completed"
       /\ status = "active" => phase \in {"running", "publishing_outputs"}
  /\ run_outputs => terminal # None

FailedTerminalPublished ==
  terminal # None /\ terminal.result = "failed" /\ run_outputs

StatusCoherent ==
  CASE status = "success" ->
         /\ terminal # None /\ terminal.result = "success"
         /\ failure = None /\ phase = "finished" /\ run_outputs
    [] status = "failed" ->
         /\ failure \notin {None, CleanupReason} /\ phase = "finished"
         /\ (failure = TerminalReason) <=> FailedTerminalPublished
         /\ \A e \in DOMAIN executions :
              executions[e].type = "agent" => ~FailedCleanup(executions[e])
    [] status = "cleanup_failed" ->
         /\ failure = CleanupReason /\ phase = "finished"
         /\ terminal = None /\ ~run_outputs
         /\ LastCleanupFailed
    [] status = "waiting" -> Undecided /\ AllSettled /\ AllBound
    [] OTHER ->
         /\ failure = None /\ phase # "finished"
         /\ phase = "publishing_outputs" => terminal # None /\ run_outputs
         /\ run_outputs => phase = "publishing_outputs"

LoaderAccepts ==
  /\ TaskChains /\ GrantPairs /\ WaitJournal /\ GraphRecords /\ WaitReferences
  /\ ReplayComplete(ReplayFrom(ReplayStart, 0))
  /\ TerminalCoherent /\ StatusCoherent

-----------------------------------------------------------------------------
(* What the header of the module and its tests say of every document the   *)
(* reducer produces.  The reducer alone, driven in any legal order, does   *)
(* not keep these; the controllers' order of commands does.                *)

\* "A reducer-produced document can never place an opening before the failure
\* it later carries": no opening shares the start boundary of a failed
\* planning or control execution.
OpeningNeverPrecedesFailure ==
  \A b \in 0..Len(transitions) :
    FailedStartAt(b) =>
      \A g \in DOMAIN generations :
        /\ generations[g].opened # b
        /\ \A i \in DOMAIN generations[g].iterations :
             generations[g].iterations[i].opened # b

\* "The reducer never produces a document the loader rejects", already for the
\* documents without a failed execution.
UnfailedDocumentLoads == LastFailed \/ LoaderAccepts
=============================================================================

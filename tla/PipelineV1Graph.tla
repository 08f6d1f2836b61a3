-------------------------- MODULE PipelineV1Graph --------------------------
(***************************************************************************)
(* A schema version 1 pipeline: what `pipeline.ts` accepts of a bundle,      *)
(* what the multi-state plan narrows it to, and what the engine compiles    *)
(* before it runs.  A state is a terminal with a result or an agent with     *)
(* its transitions in declaration order.  Text, paths and schemas that only *)
(* have to be well formed are left out.                                      *)
(***************************************************************************)
EXTENDS Integers, SequencesExt, FiniteSetsExt

CONSTANTS
  Pipelines,      \* the bundles the operator may name
  MaxRunTimeout   \* the longest timeout a worker run may ask for

ASSUME MaxRunTimeoutAssumption == MaxRunTimeout \in Nat \ {0}

\* What a bundle is read into before any of it is judged: a list of states, each
\* a terminal with a result or an agent with a list of transitions.
ASSUME BundleAssumption ==
  \A p \in Pipelines :
    /\ p.max_transitions \in Int
    /\ p.states \in Seq(Range(p.states))
    /\ \A i \in DOMAIN p.states :
         /\ p.states[i].type \in {"agent", "terminal"}
         /\ p.states[i].type = "terminal" => p.states[i].result \in {"success", "failed"}
         /\ p.states[i].transitions \in Seq(Range(p.states[i].transitions))

\* A reference of a transition to its target, and the two kinds of state.
Transition(outcome, to) == [outcome |-> outcome, to |-> to]
Terminal(id, result) ==
  [id |-> id, type |-> "terminal", result |-> result,
   inputs |-> {}, timeout |-> 0, attempts |-> 0, transitions |-> <<>>]
Agent(id, inputs, timeout, attempts, transitions) ==
  [id |-> id, type |-> "agent", result |-> "none",
   inputs |-> inputs, timeout |-> timeout, attempts |-> attempts,
   transitions |-> transitions]

Ids(p) == {p.states[i].id : i \in DOMAIN p.states}
Agents(p) == {i \in DOMAIN p.states : p.states[i].type = "agent"}
Terminals(p) == DOMAIN p.states \ Agents(p)
Targets(s) == {s.transitions[i].to : i \in DOMAIN s.transitions}
State(p, id) == p.states[CHOOSE i \in DOMAIN p.states : p.states[i].id = id]

OutcomesDistinct(s) ==
  \A i, j \in DOMAIN s.transitions :
    s.transitions[i].outcome = s.transitions[j].outcome => i = j

-----------------------------------------------------------------------------
(* parsePipelineSpec and checkGraph                                          *)

ParsesAgent(s) == s.timeout > 0 /\ s.attempts > 0

Parses(p) ==
  /\ p.max_transitions > 0
  /\ p.states # <<>>
  /\ \A i, j \in DOMAIN p.states : p.states[i].id = p.states[j].id => i = j
  /\ \A i \in Agents(p) : ParsesAgent(p.states[i])

\* The states a walk from the entry visits: the closure of the walk's queue.
Reachable(p) ==
  LET Expand[n \in Nat] ==
        IF n = 0 THEN {p.entry_state}
        ELSE Expand[n - 1] \cup
             UNION {Targets(State(p, id)) : id \in Expand[n - 1] \cap Ids(p)}
  IN Expand[Len(p.states)]

CheckGraphShape(p) ==
  /\ Terminals(p) # {}
  /\ p.entry_state \in Ids(p)
  /\ \A i \in Agents(p) : OutcomesDistinct(p.states[i])
                          /\ Targets(p.states[i]) \subseteq Ids(p)
  /\ \A i \in Agents(p) : p.states[i].id \in Reachable(p)

CheckGraph(p) ==
  CheckGraphShape(p) /\ \A i \in Agents(p) : p.states[i].inputs \subseteq p.inputs

\* planMultiStateExecution: one attempt and one outcome for each agent.
PlanMultiState(p) ==
  \A i \in Agents(p) :
    LET s == p.states[i] IN
      /\ s.attempts = 1
      /\ Len(s.transitions) = 1
      /\ s.transitions[1].outcome = "completed"
      /\ s.timeout <= MaxRunTimeout

LoadPipeline(p) == Parses(p) /\ CheckGraph(p)

\* Every gate runAgentSmoke passes before it makes the run's sink.
Admitted(p) == LoadPipeline(p) /\ PlanMultiState(p)

-----------------------------------------------------------------------------
(* The engine: compileV1Graph and one turn of runCompiledGraph               *)

Prologue(p) == p.states # <<>> /\ p.max_transitions > 0

CompiledStates(p) ==
  /\ \A i, j \in DOMAIN p.states : p.states[i].id = p.states[j].id => i = j
  /\ \A i \in Agents(p) : OutcomesDistinct(p.states[i])

FinishedGraph(p) ==
  /\ p.entry_state \in Ids(p)
  /\ \A i \in Agents(p) : Targets(p.states[i]) \subseteq Ids(p)
  /\ Terminals(p) # {}

Compiles(p) == Prologue(p) /\ CompiledStates(p) /\ FinishedGraph(p)

\* The step an outcome selects, or <<>> when the state declares none.
ResolveTransition(p, id, outcome) ==
  LET s == State(p, id)
      match == {i \in DOMAIN s.transitions : s.transitions[i].outcome = outcome}
  IN IF match = {} THEN <<>>
     ELSE <<[from |-> id, outcome |-> outcome,
             to |-> s.transitions[Min(match)].to, index |-> Min(match)]>>
=============================================================================

---------------------------- MODULE MCCoordinator ----------------------------
(***************************************************************************)
(* A compiled pipeline for TLC: a control decision that may repeat itself, *)
(* then planning, and a stage of a decision and an agent that hands the    *)
(* run back to planning, where it waits; or a successful end inside the    *)
(* stage; or planning without a stage and a failed end.                    *)
(***************************************************************************)
EXTENDS Coordinator

CONSTANTS check, plan, gate, work, report, done, stop

MCStates == {check, plan, gate, work, report, done, stop}
MCKind == [s \in MCStates |->
  CASE s \in {check, gate} -> "decision"
    [] s \in {plan, work, report} -> "agent"
    [] s = done -> "success" [] s = stop -> "failed"]
MCRole == [s \in MCStates \ {done, stop} |->
  CASE s = check -> "control" [] s \in {plan, report} -> "planning"
    [] s \in {gate, work} -> "stage"]
Once(s) == [completed |-> s]
MCEdge == [s \in MCStates \ {done, stop} |->
  CASE s = check -> [go |-> plan, halt |-> report, again |-> check]
    [] s = plan -> Once(gate)
    [] s = gate -> [go |-> work, halt |-> done]
    [] s = work -> Once(plan)
    [] s = report -> Once(stop)]

\* The coordinator's choice among all offers is its own.
MCOffers == {[continue_stage |-> a, revise_task |-> b] : a, b \in MCStates}
=============================================================================

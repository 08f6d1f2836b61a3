---------------------------- MODULE MCRunState ----------------------------
(***************************************************************************)
(* Values of RunState's constants for TLC, for the reducer and its loader: *)
(* two states, one or two session ids per slot, and wait offers whose      *)
(* actions return to the two states.                                       *)
(***************************************************************************)
EXTENDS RunStateLoader, TLC

CONSTANTS s1, s2, x1, x2, x3, x4

\* The two offers of the code's waits: continue where the run stands or go back.
MCActionLists == {[resume |-> s1, revise |-> s2]}
MCOneAction == {[resume |-> s1]}

\* Sessions and plans are only ever compared.
StageSymmetry == Permutations({x1, x2}) \union Permutations({x3, x4})
SessionSymmetry == Permutations({x1, x2, x3, x4})
===========================================================================

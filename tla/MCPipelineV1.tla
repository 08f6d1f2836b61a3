---------------------------- MODULE MCPipelineV1 ----------------------------
(***************************************************************************)
(* Bundles of one and two agents: one that ends well, one that ends badly,  *)
(* one that loops until its budget is spent, and bundles that a gate        *)
(* refuses.                                                                *)
(***************************************************************************)
EXTENDS PipelineV1

Step(id, to) == Agent(id, {"in"}, 1, 1, <<Transition("completed", to)>>)
Bundle(budget, states) ==
  [entry_state |-> states[1].id, max_transitions |-> budget, inputs |-> {"in"},
   states |-> states]

Two == Bundle(2, <<Step("a", "b"), Step("b", "ok"), Terminal("ok", "success")>>)
Bad == Bundle(2, <<Step("a", "no"), Terminal("no", "failed")>>)
Loop == Bundle(1, <<Step("a", "a"), Terminal("ok", "success")>>)
Empty == Bundle(1, <<Terminal("ok", "success")>>)
Dangling == Bundle(2, <<Step("a", "x"), Terminal("ok", "success")>>)
Island == Bundle(2, <<Step("a", "ok"), Step("b", "ok"), Terminal("ok", "success")>>)
Retrying == Bundle(2, <<[Step("a", "ok") EXCEPT !.attempts = 2], Terminal("ok", "success")>>)
Choosing == Bundle(2, <<Agent("a", {}, 1, 1, <<Transition("completed", "ok"), Transition("other", "ok")>>),
                        Terminal("ok", "success")>>)
Renamed == Bundle(2, <<Agent("a", {}, 1, 1, <<Transition("done", "ok")>>), Terminal("ok", "success")>>)
Undeclared == Bundle(2, <<Agent("a", {"x"}, 1, 1, <<Transition("completed", "ok")>>), Terminal("ok", "success")>>)
Slow == Bundle(2, <<Agent("a", {}, 2, 1, <<Transition("completed", "ok")>>), Terminal("ok", "success")>>)

MCPipelines == {Two, Bad, Loop, Empty, Dangling, Island, Retrying, Choosing,
                Renamed, Undeclared, Slow}
=============================================================================

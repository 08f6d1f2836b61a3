--------------------------- MODULE MCControlPlane ---------------------------
(* One run id, two projects and two requests at a time; the service comes  *)
(* back with either project, with both, with and without an apply store.   *)
EXTENDS ControlPlane, TLC

CONSTANTS r1, p1, p2, c1, c2

(* One slot takes every route, the other races it for the run id. *)
MCRoutesOf == (c1 :> Routes) @@ (c2 :> {"fresh_run"})

MCConfigs ==
    {[projects |-> {p1, p2}, applies |-> {p1}, store |-> TRUE],
     [projects |-> {p2}, applies |-> {}, store |-> FALSE]}
=============================================================================

------------------------------ MODULE ApplyPlan ------------------------------
(***************************************************************************)
(* The plan that turns a reviewed result into steps on the operator's       *)
(* project, and what the writer compares the project with: the nodes of a   *)
(* tree, the planner, the plan's own validation, the walk of a whole plan   *)
(* against the project and the classification of one step.                  *)
(***************************************************************************)
EXTENDS Naturals, Sequences, FiniteSets, SequencesExt

CONSTANTS
  PathOrder,      \* the relative paths, as sequences of names, in name order
  None            \* a mode or data a node does not have

ASSUME PathsAreNonEmpty == \A k \in DOMAIN PathOrder : PathOrder[k] # <<>>

Paths == {PathOrder[k] : k \in DOMAIN PathOrder}
Names == UNION {Range(p) : p \in Paths}

ASSUME PathsAreSequences == PathOrder \in Seq(Seq(Names))

\* A scan of a tree lists the directories it goes through.
ASSUME PathsAreClosed == \A p \in Paths : \A n \in 1..Len(p) : SubSeq(p, 1, n) \in Paths

\* A node: data is a file's content or a link's target.
Absent == [kind |-> "absent", mode |-> None, data |-> None]
Directory(mode) == [kind |-> "directory", mode |-> mode, data |-> None]
File(mode, content) == [kind |-> "regular_file", mode |-> mode, data |-> content]
Symlink(target) == [kind |-> "symlink", mode |-> None, data |-> target]

Above(p) == {a \in Paths : IsStrictPrefix(a, p)}
Below(p) == {q \in Paths : IsStrictPrefix(p, q)}
Present(tree) == {p \in Paths : tree[p] # Absent}
IsDirectory(node) == node.kind = "directory"

IsNode(node) ==
  \/ node = Absent
  \/ node = Directory(node.mode) \/ node = File(node.mode, node.data) \/ node = Symlink(node.data)

\* What a directory tree is: every object lies in directories.
IsTree(tree) == \A p \in Present(tree) : \A a \in Above(p) : IsDirectory(tree[a])

-----------------------------------------------------------------------------
(* classifyChanges and the planner's first pass: a changed path is at its    *)
(* baseline (it takes steps), at its result (it is a no-op) or diverged.    *)

Changes(review) == {p \in Paths : review.baseline[p] # review.result[p]}
Transformed(review) == {p \in Changes(review) : review.operator[p] # review.result[p]}
Diverged(review) ==
  {p \in Transformed(review) : review.operator[p] # review.baseline[p]}

\* A directory that goes away contains nothing but paths that go away with it.
Contained(review) ==
  \A p \in Transformed(review) :
    IsDirectory(review.operator[p]) /\ ~IsDirectory(review.result[p])
      => Below(p) \cap Present(review.operator) \subseteq Transformed(review)

-----------------------------------------------------------------------------
(* The steps of one path.                                                  *)

Step(p, kind, before, after) ==
  [path |-> p, kind |-> kind, before |-> before, after |-> after]
RemoveKind(node) == IF IsDirectory(node) THEN "remove_directory" ELSE "remove_leaf"
CreateKind(node) ==
  CASE node.kind = "directory" -> "create_directory"
    [] node.kind = "regular_file" -> "publish_regular_file"
    [] OTHER -> "publish_symlink"

\* Another kind: the old object is removed, then the new one created.
Substitution(p, old, new) ==
  {s \in {Step(p, RemoveKind(old), old, Absent)} : old # Absent /\ old.kind # new.kind}
    \cup
  {s \in {Step(p, CreateKind(new), Absent, new)} : new # Absent /\ old.kind # new.kind}

\* The same kind: a file or link is replaced whole, a mode is changed in place.
Revision(p, old, new) ==
  {s \in {Step(p, CreateKind(new), old, new)} :
     old.kind = new.kind /\ old.data # new.data}
    \cup
  {s \in {Step(p, "set_mode", old, new)} :
     old.kind = new.kind /\ old.data = new.data /\ old.mode # new.mode}

RawSteps(review) ==
  UNION {Substitution(p, review.operator[p], review.result[p])
           \cup Revision(p, review.operator[p], review.result[p])
         : p \in Transformed(review)}

-----------------------------------------------------------------------------
(* The order: removals deepest first, then directories, files, links and     *)
(* modes, shallowest first; paths of one depth in name order.               *)

Phase(step) ==
  CASE step.kind \in {"remove_leaf", "remove_directory"} -> 10
    [] step.kind = "create_directory" -> 30
    [] step.kind = "publish_regular_file" -> 40
    [] step.kind = "publish_symlink" -> 50
    [] step.kind = "set_mode" -> 60

Rank(p) == CHOOSE k \in DOMAIN PathOrder : PathOrder[k] = p

Precedes(s, t) ==
  \/ Phase(s) < Phase(t)
  \/ /\ Phase(s) = Phase(t)
     /\ \/ IF Phase(s) = 10 THEN Len(s.path) > Len(t.path) ELSE Len(s.path) < Len(t.path)
        \/ Len(s.path) = Len(t.path) /\ Rank(s.path) < Rank(t.path)

Place(steps, s) == Cardinality({t \in steps : Precedes(t, s)}) + 1
Ordered(steps) == [k \in 1..Cardinality(steps) |-> CHOOSE s \in steps : Place(steps, s) = k]

-----------------------------------------------------------------------------
(* The projected tree: what the first n steps leave.                        *)

StepsOn(steps, p) == {k \in DOMAIN steps : steps[k].path = p}
LastOf(S) == CHOOSE k \in S : \A l \in S : l <= k
FirstOf(S) == CHOOSE k \in S : \A l \in S : k <= l

After(tree, steps, n) ==
  [p \in Paths |-> LET done == {k \in StepsOn(steps, p) : k <= n}
                   IN  IF done = {} THEN tree[p] ELSE steps[LastOf(done)].after]

\* One step of the projection; a publication does not look at its directories.
Projects(tree, step) ==
  CASE step.kind = "remove_leaf" ->
         tree[step.path] # Absent /\ ~IsDirectory(tree[step.path])
    [] step.kind = "remove_directory" ->
         IsDirectory(tree[step.path]) /\ Below(step.path) \cap Present(tree) = {}
    [] step.kind = "create_directory" ->
         /\ tree[step.path] = Absent
         /\ \A a \in Above(step.path) : IsDirectory(tree[a])
    [] step.kind = "set_mode" -> tree[step.path].kind = step.after.kind
    [] OTHER -> ~IsDirectory(tree[step.path])

Projection(review, steps) ==
  /\ \A k \in DOMAIN steps : Projects(After(review.operator, steps, k - 1), steps[k])
  /\ \A p \in Changes(review) :
       After(review.operator, steps, Len(steps))[p] = review.result[p]

\* planProjectApplySteps refuses, or returns this plan.
Plannable(review) ==
  /\ Diverged(review) = {}
  /\ Contained(review)
  /\ Projection(review, Ordered(RawSteps(review)))

PlanOf(review) ==
  [steps |-> Ordered(RawSteps(review)),
   noops |-> [p \in Changes(review) \ Transformed(review) |-> review.result[p]]]

-----------------------------------------------------------------------------
(* validateApplyPlan: what a stored plan must be.                           *)

ValidStep(step) ==
  CASE step.kind = "remove_leaf" ->
         step.after = Absent /\ step.before # Absent /\ ~IsDirectory(step.before)
    [] step.kind = "remove_directory" -> step.after = Absent /\ IsDirectory(step.before)
    [] step.kind = "create_directory" -> step.before = Absent /\ IsDirectory(step.after)
    [] step.kind = "publish_regular_file" ->
         step.after.kind = "regular_file" /\ ~IsDirectory(step.before)
    [] step.kind = "publish_symlink" -> step.after.kind = "symlink"
    [] step.kind = "set_mode" ->
         /\ step.before.kind = step.after.kind /\ step.after.kind # "symlink"
         /\ step.before.data = step.after.data

\* A path has one step, or a removal and then a creation.
ValidPairing(steps) ==
  \A p \in Paths :
    LET on == StepsOn(steps, p) IN
    \/ Cardinality(on) <= 1
    \/ /\ Cardinality(on) = 2
       /\ Phase(steps[FirstOf(on)]) = 10
       /\ Phase(steps[LastOf(on)]) \in {30, 40, 50}

ValidPlan(plan) ==
  /\ \A k \in DOMAIN plan.steps : ValidStep(plan.steps[k])
  /\ ValidPairing(plan.steps)

\* The payloads: one for every published file, in the order of the changes.
Payloads(plan) ==
  SelectSeq(PathOrder, LAMBDA p : \E k \in StepsOn(plan.steps, p) :
                                    plan.steps[k].kind = "publish_regular_file")

-----------------------------------------------------------------------------
(* observeApplyPath: a path is reached through directories only.            *)

Broken(tree, p) == {a \in Above(p) : ~IsDirectory(tree[a])}
\* The nearest ancestor to the root that is not a directory.
BrokenAt(tree, p) == CHOOSE a \in Broken(tree, p) : \A b \in Broken(tree, p) : Len(a) <= Len(b)

Reachable(tree, p) == Broken(tree, p) = {}
Observed(tree, p) == IF Reachable(tree, p) THEN tree[p] ELSE Absent
\* invalid_ancestor; a planned ancestor makes it a missing one for a planned path.
Invalid(tree, p, planned) ==
  /\ ~Reachable(tree, p)
  /\ tree[BrokenAt(tree, p)] # Absent
  /\ BrokenAt(tree, p) \notin planned

PlannedPaths(plan) == {plan.steps[k].path : k \in DOMAIN plan.steps}
AffectedPaths(plan) == PlannedPaths(plan) \cup DOMAIN plan.noops
FinalState(plan, p) == plan.steps[LastOf(StepsOn(plan.steps, p))].after

-----------------------------------------------------------------------------
(* walkApplyPlanAgainstProject.                                            *)

\* verifyAncestorChainForStep: the directories the plan does not touch are there.
AncestorsThere(tree, plan, p) ==
  \A a \in Above(p) \ AffectedPaths(plan) : IsDirectory(Observed(tree, a))

\* verifyDirectoryContainment: the directory holds no child the plan does not name.
OnlyPlannedChildren(tree, plan, p) ==
  \A q \in Below(p) \cap Present(tree) :
    Len(q) = Len(p) + 1 => \E a \in AffectedPaths(plan) : IsPrefix(q, a)

\* A path is at its final state; or its completed steps' last state is there and
\* it is ready for the next, or some pending step's state is there already.
PathHolds(tree, plan, p, completed, applicable) ==
  LET steps == plan.steps
      node == Observed(tree, p)
      done == {k \in StepsOn(steps, p) : k <= completed}
      pending == StepsOn(steps, p) \ done
      before == IF done # {} THEN steps[LastOf(done)].after
                ELSE steps[FirstOf(pending)].before
  IN  /\ ~Invalid(tree, p, AffectedPaths(plan))
      /\ \/ node = FinalState(plan, p)
         \/ /\ \A k \in done : node = steps[k].after
            /\ pending # {}
            /\ \/ /\ node = before
                  /\ applicable =>
                       /\ AncestorsThere(tree, plan, p)
                       /\ steps[FirstOf(pending)].kind = "remove_directory"
                            => OnlyPlannedChildren(tree, plan, p)
               \/ node # before /\ \E k \in pending : node = steps[k].after

NoopHolds(tree, plan, p) ==
  /\ ~Invalid(tree, p, {})
  /\ Observed(tree, p) = plan.noops[p]

WalkPasses(tree, plan, completed, applicable) ==
  /\ \A p \in PlannedPaths(plan) : PathHolds(tree, plan, p, completed, applicable)
  /\ \A p \in DOMAIN plan.noops : NoopHolds(tree, plan, p)

-----------------------------------------------------------------------------
(* classifyApplyStep, before step k: the path is already where the step or   *)
(* the plan takes it, or it is where the step starts, or it diverged.       *)

\* modelState: what the path's earlier steps leave.
ModelState(plan, k) ==
  LET earlier == {l \in StepsOn(plan.steps, plan.steps[k].path) : l < k} IN
  IF earlier = {} THEN plan.steps[k].before ELSE plan.steps[LastOf(earlier)].after

\* Mutant: a node of another mode is taken for the step's result.
StepDoneButMode(tree, plan, k) ==
  /\ Reachable(tree, plan.steps[k].path)
  /\ \E node \in {FinalState(plan, plan.steps[k].path), plan.steps[k].after} :
       tree[plan.steps[k].path] \in {node, [node EXCEPT !.mode = plan.steps[k].before.mode]}

StepDone(tree, plan, k) ==
  /\ Reachable(tree, plan.steps[k].path)
  /\ tree[plan.steps[k].path] \in {FinalState(plan, plan.steps[k].path), plan.steps[k].after}

StepReady(tree, plan, k) ==
  /\ Reachable(tree, plan.steps[k].path)
  /\ tree[plan.steps[k].path] = ModelState(plan, k)
=============================================================================

--------------------------- MODULE MCProjectApply ---------------------------
(***************************************************************************)
(* Reviews of three paths: a directory, a file in it, a file beside it.     *)
(***************************************************************************)
EXTENDS ProjectApply

D == <<"d">>
X == <<"d", "x">>
E == <<"e">>
MCPathOrder == <<D, X, E>>

Tree(d, x, e) == D :> d @@ X :> x @@ E :> e
Unedited(before, after) == [baseline |-> before, operator |-> before, result |-> after]

Dir == Directory("rwx")
Private == Directory(PrivateMode)
F(content) == File("rw", content)

\* A new directory, and a file that changes.
Grown == Unedited(Tree(Absent, Absent, F(1)), Tree(Dir, Absent, F(2)))
\* A directory goes, with its file; the other file becomes read-only.
Shrunk == Unedited(Tree(Dir, F(1), F(1)), Tree(Absent, Absent, File("r", 1)))
\* A file becomes a directory with a read-only file.
Deepened == Unedited(Tree(F(1), Absent, F(1)), Tree(Private, File("r", 1), F(1)))
\* A directory becomes a file, and the operator removed its content already.
Flattened == [baseline |-> Tree(Dir, F(1), F(1)), operator |-> Tree(Dir, Absent, F(1)),
              result |-> Tree(F(2), Absent, F(1))]
\* A link moves, a directory's mode changes, and the operator has the file already.
Retargeted == [baseline |-> Tree(Private, Symlink("s"), F(1)),
               operator |-> Tree(Private, Symlink("s"), F(2)),
               result |-> Tree(Dir, Symlink("t"), F(2))]
\* The operator put a file where the result has a directory: nothing is planned.
Diverging == [baseline |-> Tree(Absent, Absent, F(1)), operator |-> Tree(F(1), Absent, F(1)),
              result |-> Tree(Dir, F(1), F(1))]

\* A file is added to a directory the plan does not touch.
Added == Unedited(Tree(Dir, Absent, F(1)), Tree(Dir, F(1), F(1)))

\* The operator put a file where the plan does not look: in place of its directory.
Blocked == [baseline |-> Tree(Dir, Absent, F(1)), operator |-> Tree(F(1), Absent, F(1)),
            result |-> Tree(Dir, F(1), F(1))]

\* A file goes, its directory stays, and the other file becomes a link.
Thinned == Unedited(Tree(Dir, F(1), F(1)), Tree(Dir, Absent, Symlink("t")))

\* Those whose steps differ in kind, for the check of progress.
MCKindsOfReview == {Blocked, Grown, Shrunk, Deepened, Retargeted}

MCReviews == {Added, Blocked, Thinned, Grown, Shrunk, Deepened, Flattened, Retargeted, Diverging}
=============================================================================

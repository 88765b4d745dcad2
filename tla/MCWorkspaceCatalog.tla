---- MODULE MCWorkspaceCatalog ----
(* Model checking of WorkspaceCatalog: a repository with a directory in it *)
(* that may be a Project of its own, and a directory without a repository. *)
EXTENDS WorkspaceCatalog, TLC

CONSTANTS main, sub, plain, git, b1, b2

InsideEach == (main :> {main, sub}) @@ (sub :> {sub}) @@ (plain :> {plain})
RepoOfEach == (main :> git) @@ (sub :> git) @@ (plain :> None)

\* Two branch names of which the same directory name is made.
FolderOfBoth == [b \in {b1, b2} |-> "folder"]

Symmetry == Permutations(Clients) \cup Permutations(Branches)
====

------------------------------- MODULE Worktree -------------------------------
(***************************************************************************)
(* The git worktrees of a session (src/src/worktree.rs, /worktree and      *)
(* /project in src/src/main.rs): which ones git knows, where the session   *)
(* works, and what it remembers of the directory it entered one from.  The *)
(* directory of a worktree follows from the top of the repository seen     *)
(* from where the session works, which is a worktree inside of one: paths  *)
(* are sequences of branches, the main tree the empty one.                 *)
(***************************************************************************)
EXTENDS Naturals, Sequences

CONSTANTS
  Branches,   \* branches that are not checked out in the main tree
  MaxNesting, \* bound of the model: worktrees inside of worktrees
  MaxTreeOps  \* bound of the model: commands

ASSUME WorktreeBounds == {MaxNesting, MaxTreeOps} \subseteq Nat

VARIABLES
  trees,    \* the worktrees git knows: [path, branch]
  on_disk,  \* the paths that exist
  place,    \* the path the session works in
  inside,   \* WorktreeSession: <<>>, or <<[root, branch]>>
  treeops

worktreeVars == <<trees, on_disk, place, inside, treeops>>

Main == <<>>
Paths == UNION {[1..n -> Branches] : n \in 0..MaxNesting}
Tree(path, branch) == [path |-> path, branch |-> branch]

\* The session works in a directory that was there, remembers both the root and
\* the branch or neither, git has a branch in one worktree at most, and one it
\* made is named after its branch.
WorktreeTypeOK ==
  /\ trees \subseteq [path : Paths, branch : Branches]
  /\ \A t \in trees : Len(t.path) > 0 /\ t.path[Len(t.path)] = t.branch
  /\ \A t, u \in trees : t.branch = u.branch => t = u
  /\ on_disk \subseteq Paths /\ Main \in on_disk /\ place \in Paths
  /\ Len(inside) <= 1 /\ inside \in Seq([root : Paths, branch : Branches])
  /\ treeops \in 0..MaxTreeOps

WorktreeInit ==
  /\ trees = {} /\ on_disk = {Main} /\ place = Main /\ inside = <<>> /\ treeops = 0

Op == treeops < MaxTreeOps /\ treeops' = treeops + 1

\* worktree_path_for, from the top of the repository seen from path
TreePath(path, branch) == Append(path, branch)

\* create: the path must be free, and git refuses a branch that is checked out in
\* another worktree.
CreateTree ==
  /\ Op /\ place \in on_disk
  /\ \E b \in Branches :
       /\ Len(place) < MaxNesting /\ TreePath(place, b) \notin on_disk
       /\ \A t \in trees : t.branch # b /\ t.path # TreePath(place, b)
       /\ trees' = trees \cup {Tree(TreePath(place, b), b)}
       /\ on_disk' = on_disk \cup {TreePath(place, b)}
  /\ UNCHANGED <<place, inside>>

\* What git removes: a worktree it knows by its path, with those inside of it
\* gone from the disk; it refuses one with changes unless forced.
Under(path) == {q \in on_disk : Len(q) >= Len(path) /\ SubSeq(q, 1, Len(path)) = path}
CanRemove(from, b) ==
  from \in on_disk /\ TreePath(from, b) \in on_disk /\ Tree(TreePath(from, b), b) \in trees
GitRemove(from, b) ==
  /\ trees' = trees \ {Tree(TreePath(from, b), b)}
  /\ on_disk' = on_disk \ Under(TreePath(from, b))

\* /worktree remove, also of the one the session works in
RemoveTree ==
  /\ Op /\ \E b \in Branches : CanRemove(place, b) /\ GitRemove(place, b)
  /\ UNCHANGED <<place, inside>>

\* Somebody deletes the directory of a worktree; git knows it still.
DeleteDirectory ==
  /\ Op /\ \E t \in trees : on_disk' = on_disk \ Under(t.path)
  /\ UNCHANGED <<trees, place, inside>>

\* enter, and the change of directory, which is taken back when it fails
EnterTree ==
  /\ Op /\ inside = <<>> /\ place \in on_disk
  /\ \E t \in trees :
       /\ t.path \in on_disk
       /\ \/ place' = t.path /\ inside' = <<[root |-> place, branch |-> t.branch]>>
          \/ UNCHANGED <<place, inside>>
  /\ UNCHANGED <<trees, on_disk>>

\* exit keep: what was remembered is gone even when the root is.
ExitKeep ==
  /\ Op /\ inside # <<>>
  /\ inside' = <<>>
  /\ place' = IF inside[1].root \in on_disk THEN inside[1].root ELSE place
  /\ UNCHANGED <<trees, on_disk>>

\* exit remove: the root is forgotten before git is asked, so a refusal leaves
\* the session in the worktree without a way back.
ExitRemove ==
  /\ Op /\ inside # <<>>
  /\ inside' = <<>>
  /\ LET root == inside[1].root
     IN \/ /\ CanRemove(root, inside[1].branch) /\ GitRemove(root, inside[1].branch)
           /\ place' = root
        \/ UNCHANGED <<trees, on_disk, place>>

\* /project
ChangeProject ==
  /\ Op /\ place' \in on_disk
  /\ UNCHANGED <<trees, on_disk, inside>>

WorktreeNext ==
  \/ CreateTree \/ RemoveTree \/ DeleteDirectory
  \/ EnterTree \/ ExitKeep \/ ExitRemove \/ ChangeProject
==============================================================================

------------------------------ MODULE WorkTree ------------------------------
(***************************************************************************)
(* The project directory all agents share: the files that write_file       *)
(* (internal/tool/file.go) opens and fills, and the index and last commit  *)
(* of its git repository, which git_commit (internal/tool/git.go) and      *)
(* collectDiff (internal/agent/leo.go) reach by running git.  A git        *)
(* command is atomic: it takes the lock of the index or fails.             *)
(***************************************************************************)
CONSTANTS
  Files,
  Tracked,   \* the files git knows at the start
  Texts,     \* what a file may be meant to hold
  Original,  \* what the tracked files hold at the start
  Empty,     \* the text of no bytes
  Torn,      \* what nobody meant: pieces of texts
  Missing    \* no such file

ASSUME FilesAssumption ==
  /\ Tracked \subseteq Files
  /\ {Original, Empty} \subseteq Texts
  /\ Torn # Missing /\ Texts \cap {Torn, Missing} = {}

Contents == Texts \cup {Torn, Missing}

VARIABLES
  tree,   \* what is on disk
  index,  \* what is staged
  head    \* what the last commit holds

treeVars == <<tree, index, head>>

TreeInit ==
  /\ tree = [f \in Files |-> IF f \in Tracked THEN Original ELSE Missing]
  /\ index = tree
  /\ head = tree

\* A mistake: the file is opened as it is.
Truncate_Kept(f) ==
  /\ tree' = [tree EXCEPT ![f] = IF @ = Missing THEN Empty ELSE @]
  /\ UNCHANGED <<index, head>>

\* os.WriteFile opens and empties the file, or creates it, and then writes.
Truncate(f) == tree' = [tree EXCEPT ![f] = Empty] /\ UNCHANGED <<index, head>>

\* The text goes over the beginning of what is there by now: of a longer text
\* the end stays, which may or may not tell the two apart.
Overlay(x, old) ==
  IF x \in {Empty, old} THEN {old} ELSE IF old = Empty THEN {x} ELSE {x, old, Torn}

Write(f, x) ==
  /\ \E now \in Overlay(x, tree[f]) : tree' = [tree EXCEPT ![f] = now]
  /\ UNCHANGED <<index, head>>

\* Nothing or a part of the text is written.
CutShort(f) ==
  /\ \E now \in {tree[f], Torn} : tree' = [tree EXCEPT ![f] = now]
  /\ UNCHANGED <<index, head>>

GitAdd(S) ==
  /\ index' = [f \in Files |-> IF f \in S /\ tree[f] # Missing THEN tree[f] ELSE index[f]]
  /\ UNCHANGED <<tree, head>>

GitCommit ==
  /\ index # head
  /\ head' = index
  /\ UNCHANGED <<tree, index>>

\* A mistake: the diff of what is staged.
GitDiff_Staged == {f \in Files : index[f] # head[f]}

\* Files git does not know are not shown.
GitDiff == {f \in Files : index[f] # Missing /\ tree[f] # index[f]}
=============================================================================

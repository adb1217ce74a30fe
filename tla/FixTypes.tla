------------------------------ MODULE FixTypes ------------------------------
(***************************************************************************)
(* The data the fix pipeline works on: project files, their contents, and  *)
(* the patches the fix agents propose (core/fix/patch.py).  A patch is the *)
(* full replacement content of the files it touches; a file that does not  *)
(* exist has the content Absent (a snapshot records it as null, a patch    *)
(* proposes it as the empty string, which the applier treats as deletion). *)
(***************************************************************************)
EXTENDS Naturals, FiniteSets

CONSTANTS
  Files,      \* project-relative paths
  Content,    \* contents a file can have
  Absent,     \* the "content" of a file that does not exist
  Original,   \* the tree before any patch: Files -> Content or Absent
  Patches,    \* ids of the patches the fix agents propose
  Change,     \* Patches -> (its files -> proposed content or Absent)
  TestFiles   \* the paths is_test_path recognises as tests

Value == Content \cup {Absent}
Tree  == [Files -> Value]

FilesOf(p) == DOMAIN Change[p]

ASSUME FixAssumption ==
  /\ Original \in Tree
  /\ DOMAIN Change = Patches
  /\ \A p \in Patches : FilesOf(p) \subseteq Files /\ Change[p] \in [FilesOf(p) -> Value]
  /\ TestFiles \subseteq Files

(* tree with the files of part replaced: a completed apply or restore.      *)
Overlay(tree, part) ==
  [f \in DOMAIN tree |-> IF f \in DOMAIN part THEN part[f] ELSE tree[f]]

(* The contents a snapshot of the files in S records.                       *)
Capture(tree, S) == [f \in S |-> tree[f]]

(* should_flag_for_review: a non-empty patch that edits nothing but tests.  *)
TestOnly(p) == FilesOf(p) # {} /\ FilesOf(p) \subseteq TestFiles
=============================================================================

----------------------------- MODULE AtomicTree -----------------------------
(***************************************************************************)
(* What the fix pipeline promises its user: the working tree changes only  *)
(* by whole patches and whole undos.  saved[p] is what p replaced, kept    *)
(* from the moment p is in the tree until p is undone, so every patch in   *)
(* the tree can be taken out again, giving back exactly what it replaced.  *)
(***************************************************************************)
EXTENDS FixTypes

CONSTANT NotSaved    \* saved[p] of a patch that is not in the tree

VARIABLES
  tree,     \* Files -> content
  saved     \* Patches -> contents p replaced, or NotSaved

atomicVars == <<tree, saved>>

AtomicInit ==
  /\ tree = Original
  /\ saved = [p \in Patches |-> NotSaved]

(* A patch goes in as a whole and what it replaced is kept.                 *)
Apply(p) ==
  /\ saved[p] = NotSaved
  /\ tree' = Overlay(tree, Change[p])
  /\ saved' = [saved EXCEPT ![p] = Capture(tree, FilesOf(p))]

(* A patch comes out as a whole.                                            *)
Revert(p) ==
  /\ saved[p] # NotSaved
  /\ tree' = Overlay(tree, saved[p])
  /\ saved' = [saved EXCEPT ![p] = NotSaved]

AtomicNext == \E p \in Patches : Apply(p) \/ Revert(p)

AtomicSpec == AtomicInit /\ [][AtomicNext]_atomicVars
=============================================================================

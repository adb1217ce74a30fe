---------------------------- MODULE MCFixPipeline ---------------------------
(* Instances of FixPipeline.  A patch writes its own id into each file it     *)
(* touches, so a file's content says whose it is.                             *)
EXTENDS FixPipeline, TLC

CONSTANTS f1, f2, p1, p2, p3, orig

MCOriginal == [f \in Files |-> IF f = f1 THEN orig ELSE Absent]
MCContent  == Patches \cup {orig}

(* p1 edits f1 and creates f2, p2 edits f1 (p1's edit too), p3 deletes f1.    *)
Shapes == (p1 :> [f \in {f1, f2} |-> p1]) @@ (p2 :> [f \in {f1} |-> p2])
          @@ (p3 :> [f \in {f1} |-> Absent])
MCChange == [p \in Patches |-> Shapes[p]]

SnapSymmetry == Permutations(SnapIds)
=============================================================================

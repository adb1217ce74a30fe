---------------------------- MODULE MCBrowserPool ---------------------------
(* Instances of BrowserPool.  The tasks do not differ.                        *)
EXTENDS BrowserPool, TLC

CONSTANTS t1, t2, t3

TaskSymmetry == Permutations(Tasks)
=============================================================================

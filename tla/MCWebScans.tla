------------------------------ MODULE MCWebScans ------------------------------
(* Instances of WebScans.                                                     *)
EXTENDS WebScans

CONSTANTS a1, a2, c1, c2
=============================================================================

---------------------------- MODULE MCMemoryStore ---------------------------
(***************************************************************************)
(* Two or three runs of one machine for TLC.                               *)
(***************************************************************************)
EXTENDS MemoryStore, TLC

CONSTANTS r1, r2, r3

\* A run that dies or fails to read leaves one other to take its lock over.
OneAndThree == (r1 :> 1) @@ (r2 :> 3)

OneEach == (r1 :> 1) @@ (r2 :> 1) @@ (r3 :> 1)
=============================================================================

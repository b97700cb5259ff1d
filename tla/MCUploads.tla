------------------------------ MODULE MCUploads ------------------------------
(* A student's file and two of tutors' own, in two schools.                   *)
EXTENDS Uploads, TLC

CONSTANTS f1, f2, f3, p1, A, B

MCParentOf == (f1 :> p1) @@ (f2 :> Library) @@ (f3 :> Library)
MCSchoolOf == (f1 :> A) @@ (f2 :> A) @@ (f3 :> B)
MCSizeOf   == (f1 :> 1) @@ (f2 :> 2) @@ (f3 :> 2)
=============================================================================

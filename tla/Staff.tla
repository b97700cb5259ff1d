-------------------------------- MODULE Staff --------------------------------
(* The members of a school, and the one of them who is its admin.             *)

CONSTANTS Users, Admin

ASSUME StaffAssumption == Admin \in Users
=============================================================================

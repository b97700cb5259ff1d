-------------------------------- MODULE Shelf --------------------------------
(***************************************************************************)
(* What the storage of files promises: a file comes within reach once, in  *)
(* one step, row and bytes together, and only while the student or lesson  *)
(* it belongs to is there; and it goes in one step and for good, by itself *)
(* or with its parent.                                                     *)
(***************************************************************************)
CONSTANTS Files, Parents, ParentOf

VARIABLES
  alive, \* the students and lessons there are
  life   \* file -> "unseen", "shown", "withdrawn"

Init ==
  /\ alive = Parents
  /\ life = [f \in Files |-> "unseen"]

BelongsTo(p) == {f \in Files : ParentOf[f] = p}

Show(f) ==
  /\ life[f] = "unseen"
  /\ life' = [life EXCEPT ![f] = "shown"]
  /\ UNCHANGED alive

\* An upload may also be given up before anybody could open it.
Withdraw(f) ==
  /\ life[f] # "withdrawn"
  /\ life' = [life EXCEPT ![f] = "withdrawn"]
  /\ UNCHANGED alive

RemoveParent(p) ==
  /\ p \in alive
  /\ alive' = alive \ {p}
  /\ life' = [f \in Files |-> IF f \in BelongsTo(p) THEN "withdrawn" ELSE life[f]]

Next ==
  \/ \E f \in Files : Show(f) \/ Withdraw(f)
  \/ \E p \in Parents : RemoveParent(p)

Spec == Init /\ [][Next]_<<alive, life>>
=============================================================================

----------------------------- MODULE MCGradebook -----------------------------
(* Small schools for TLC: the lesson l1 is the group's, every other lesson is *)
(* the student s1's own.                                                      *)
EXTENDS Gradebook

CONSTANTS s1, g1, l1

\* One lesson for the group, any other for s1 alone.
MCAudience == [l \in Lessons |-> IF l = l1 THEN g1 ELSE s1]

\* Everything is on the books already, or nothing but the first student is.
Everything == RowIds
OnlyS1     == {s1}
=============================================================================

------------------------------- MODULE Roster --------------------------------
(***************************************************************************)
(* The rows a school's teaching rests on (students and their paid balance, *)
(* groups and who is in them, lessons and their registers) and every       *)
(* single-statement operation on them: StudentsService, GroupsService and  *)
(* the schedule half of LessonsService.  Each operation is one statement   *)
(* of the database, so each is one action; foreign keys cascade inside the *)
(* statement that deletes the parent row.                                  *)
(*                                                                         *)
(* A row id is used once: unborn, then here, then gone.  Which student or  *)
(* group a lesson id is for is fixed by AudienceOf, since a lesson's       *)
(* studentId and groupId are written when it is booked and never again.    *)
(***************************************************************************)
EXTENDS Integers, FiniteSets

CONSTANTS
  Students, Groups, Lessons,  \* row ids
  AudienceOf,                 \* the student or the group a lesson is booked for
  Seeded,                     \* the rows the database starts with
  SeedBalance,                \* the balance the seeded students start with
  Typed                       \* the balances a tutor types into the student form

RowIds == Students \cup Groups \cup Lessons

ASSUME RosterAssumption ==
  /\ IsFiniteSet(Lessons)
  /\ Students \cap Groups = {}
  /\ Students \cap Lessons = {}
  /\ Groups \cap Lessons = {}
  /\ AudienceOf \in [Lessons -> Students \cup Groups]
  /\ Seeded \subseteq RowIds
  /\ \A l \in Lessons \cap Seeded : AudienceOf[l] \in Seeded
  /\ SeedBalance \in Nat
  /\ Typed \subseteq Nat

AttendanceStatus == {"PRESENT", "LATE", "ABSENT_EXCUSED", "ABSENT_UNEXCUSED"}
LessonStatus     == {"SCHEDULED", "COMPLETED", "CANCELLED"}
CHARGED          == {"PRESENT", "LATE", "ABSENT_UNEXCUSED"}

\* A register cell with no row in it, or a student a payload does not mention.
NoMark == "none"
Cell   == AttendanceStatus \cup {NoMark}
Blank  == [s \in Students |-> NoMark]

VARIABLES
  life,     \* row id -> "unborn", "here" or "gone"
  members,  \* group -> students in it now
  left,     \* student -> paidLessonsLeft
  att,      \* lesson -> student -> the register row's status, or NoMark
  status,   \* lesson -> where it stands in the schedule
  paid,     \* history: student -> lessons bought, by the last figure typed in
  erased    \* history: student -> lessons charged whose register was deleted

rosterVars == <<life, members, left, att, status, paid, erased>>

Here(x) == life[x] = "here"

\* LessonsService.studentIdsFor: the group as it stands now, or the one student.
StudentIdsFor(l) ==
  IF AudienceOf[l] \in Groups THEN members[AudienceOf[l]] ELSE {AudienceOf[l]}

ChargedIn(s) == {l \in Lessons : att[l][s] \in CHARGED}

\* The lessons student s has been charged for, deleted registers included.
Bills(s) == ChargedIn(s) \cup erased[s]

RosterInit ==
  /\ life = [x \in RowIds |-> IF x \in Seeded THEN "here" ELSE "unborn"]
  /\ members = [g \in Groups |->
                  IF g \in Seeded THEN Students \cap Seeded ELSE {}]
  /\ left = [s \in Students |-> SeedBalance]
  /\ att = [l \in Lessons |-> Blank]
  /\ status = [l \in Lessons |-> "SCHEDULED"]
  /\ paid = [s \in Students |-> SeedBalance]
  /\ erased = [s \in Students |-> {}]

-----------------------------------------------------------------------------
(* Students.  The balance is written as an absolute figure, whatever it was. *)

SetBalance(s, n) ==
  /\ left' = [left EXCEPT ![s] = n]
  /\ paid' = [paid EXCEPT ![s] = n + Cardinality(Bills(s))]

CreateStudent(s, n) ==
  /\ life[s] = "unborn"
  /\ life' = [life EXCEPT ![s] = "here"]
  /\ SetBalance(s, n)
  /\ UNCHANGED <<members, att, status, erased>>

UpdateStudent(s, n) ==
  /\ Here(s)
  /\ SetBalance(s, n)
  /\ UNCHANGED <<life, members, att, status, erased>>

(* ON DELETE CASCADE: lessons in doomed go with their registers, and no     *)
(* balance is touched.                                                      *)
CascadeLessons(doomed, departing) ==
  /\ life' = [x \in RowIds |->
                IF x \in doomed \cup departing THEN "gone" ELSE life[x]]
  /\ att' = [l \in Lessons |->
               IF l \in doomed THEN Blank
               ELSE [s \in Students |->
                       IF s \in departing THEN NoMark ELSE att[l][s]]]
  /\ erased' = [s \in Students |-> erased[s] \cup (ChargedIn(s) \cap doomed)]
  /\ UNCHANGED <<left, status, paid>>

LessonsFor(x) == {l \in Lessons : Here(l) /\ AudienceOf[l] = x}

RemoveStudent(s) ==
  /\ Here(s)
  /\ CascadeLessons(LessonsFor(s), {s})
  /\ members' = [g \in Groups |-> members[g] \ {s}]

-----------------------------------------------------------------------------
(* Groups.                                                                   *)

CreateGroup(g) ==
  /\ life[g] = "unborn"
  /\ life' = [life EXCEPT ![g] = "here"]
  /\ UNCHANGED <<members, left, att, status, paid, erased>>

AddMember(g, s) ==
  /\ Here(g)
  /\ Here(s)
  /\ members' = [members EXCEPT ![g] = @ \cup {s}]
  /\ UNCHANGED <<life, left, att, status, paid, erased>>

RemoveMember(g, s) ==
  /\ Here(g)
  /\ members' = [members EXCEPT ![g] = @ \ {s}]
  /\ UNCHANGED <<life, left, att, status, paid, erased>>

RemoveGroup(g) ==
  /\ Here(g)
  /\ CascadeLessons(LessonsFor(g), {g})
  /\ members' = [members EXCEPT ![g] = {}]

-----------------------------------------------------------------------------
(* The schedule.                                                             *)

CreateLesson(l) ==
  /\ life[l] = "unborn"
  /\ Here(AudienceOf[l])
  /\ life' = [life EXCEPT ![l] = "here"]
  /\ UNCHANGED <<members, left, att, status, paid, erased>>

UpdateStatus(l, st) ==
  /\ Here(l)
  /\ status' = [status EXCEPT ![l] = st]
  /\ UNCHANGED <<life, members, left, att, paid, erased>>

RosterTypeOK ==
  /\ life \in [RowIds -> {"unborn", "here", "gone"}]
  /\ members \in [Groups -> SUBSET Students]
  /\ left \in [Students -> Int]
  /\ att \in [Lessons -> [Students -> Cell]]
  /\ status \in [Lessons -> LessonStatus]
  /\ paid \in [Students -> Int]
  /\ erased \in [Students -> SUBSET Lessons]
=============================================================================

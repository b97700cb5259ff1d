------------------------------- MODULE Grades --------------------------------
(***************************************************************************)
(* Marks: the rows GradebookService files against a student or from inside *)
(* a lesson, corrects and removes, while the roster and the registers      *)
(* change under it (Ledger).  A handler reads what it checks, then writes  *)
(* one statement; foreign keys are looked at by that statement.            *)
(***************************************************************************)
EXTENDS Ledger, Progress, Staff

CONSTANTS
  TutorOf,        \* whose each student, group and lesson is
  GradeScaleMax,  \* the school's scale
  MAX_PERCENTAGE,
  Payloads,       \* the marks that are sent
  Filed           \* the marks there are to begin with: id -> row

GradeKind == {"CLASSIC", "PERCENTAGE", "DESCRIPTIVE"}

\* What WriteGradeDto lets through: a number unless the mark is words, and words
\* if it is, though they may be blank.  An absent weight or remark is None.
WriteGradeDto ==
  [kind : {"CLASSIC", "PERCENTAGE"}, value : Nat, comment : {None, "blank", "words"},
   weight : {None} \cup 1 .. 20]
  \cup
  [kind : {"DESCRIPTIVE"}, value : Nat \cup {None}, comment : {"blank", "words"},
   weight : {None} \cup 1 .. 20]

\* The columns of a mark, and the row it is stored in.
Data ==
  [kind : GradeKind, value : Nat \cup {None}, comment : {None, "words"}, weight : 1 .. 20]

Row == [student : Students, lesson : Lessons \cup {None}, author : Users, mark : Data]

OnScale(mark) ==
  IF mark.kind = "DESCRIPTIVE" THEN mark.value = None
  ELSE mark.value \in 0 .. (IF mark.kind = "CLASSIC" THEN GradeScaleMax ELSE 100)

\* What a mark filed in a one-to-one lesson is about.
OfItsLesson(row) ==
  row.lesson # None /\ AudienceOf[row.lesson] \in Students => AudienceOf[row.lesson] = row.student

ASSUME GradesAssumption ==
  /\ None \notin Users \cup RowIds \cup Requests \cup Row
  /\ TutorOf \in [RowIds -> Users]
  /\ GradeScaleMax \in Nat /\ MAX_PERCENTAGE = 100
  /\ Payloads \subseteq WriteGradeDto
  /\ DOMAIN Filed \cap Requests = {}
  /\ \A g \in DOMAIN Filed :
       /\ Filed[g] \in Row /\ OnScale(Filed[g].mark) /\ OfItsLesson(Filed[g])
       /\ {Filed[g].student, Filed[g].lesson} \subseteq Seeded \cup {None}

VARIABLE grade  \* id -> the mark's row, or None; a request's mark has its name

GradeIds == Requests \cup DOMAIN Filed

GradesInit == grade = [g \in GradeIds |-> IF g \in Requests THEN None ELSE Filed[g]]

Filled == {g \in GradeIds : grade[g] # None}

-----------------------------------------------------------------------------
(* Who may reach what.                                                       *)

FindStudent(u, s) == Here(s) /\ (u = Admin \/ TutorOf[s] = u)

FindLesson(u, l) == Here(l) /\ (u = Admin \/ TutorOf[l] = u)

\* The author, or an admin, if the student is theirs to see.
FindWritable(u, g) ==
  /\ grade[g] # None
  /\ FindStudent(u, grade[g].student)
  /\ u \in {grade[g].author, Admin}

\* Whose a mark filed in a lesson is: the lesson's student, or the member named.
ResolveMarked(l, named) ==
  IF AudienceOf[l] \in Students
  THEN IF named \in {None, AudienceOf[l]} THEN {AudienceOf[l]} ELSE {}
  ELSE {named} \cap members[AudienceOf[l]]

-----------------------------------------------------------------------------
(* The mark itself.                                                          *)

CeilingOf(kind) == IF kind = "PERCENTAGE" THEN MAX_PERCENTAGE ELSE GradeScaleMax

ValueInScale(p) == p.kind # "DESCRIPTIVE" => p.value <= CeilingOf(p.kind)

BlankToNull(c) == IF c = "blank" THEN None ELSE c

\* The columns a payload becomes: what its kind has no use for is null.
DataFrom(p) ==
  [kind |-> p.kind,
   value |-> IF p.kind = "DESCRIPTIVE" THEN None ELSE p.value,
   comment |-> BlankToNull(p.comment),
   weight |-> IF p.weight = None THEN 1 ELSE p.weight]

-----------------------------------------------------------------------------
(* Filing, correcting and removing a mark.                                   *)

AddForStudent(r, u, s, p) ==
  /\ At(r, "idle")
  /\ FindStudent(u, s)
  /\ ValueInScale(p)
  /\ Take(r, [student |-> s, lesson |-> None, author |-> u, mark |-> DataFrom(p)], "filing")
  /\ UNCHANGED grade

AddForLesson(r, u, l, named, p) ==
  /\ At(r, "idle")
  /\ FindLesson(u, l)
  /\ ValueInScale(p)
  /\ \E s \in ResolveMarked(l, named) :
       Take(r, [student |-> s, lesson |-> l, author |-> u, mark |-> DataFrom(p)], "filing")
  /\ UNCHANGED grade

\* Refused by a foreign key if the student or the lesson is gone by now.
SaveMark(r) ==
  /\ At(r, "filing")
  /\ grade' = IF Here(input[r].student) /\ (input[r].lesson # None => Here(input[r].lesson))
              THEN [grade EXCEPT ![r] = input[r]] ELSE grade
  /\ Finish(r)

Correct(r, u, g, p) ==
  /\ At(r, "idle")
  /\ FindWritable(u, g)
  /\ ValueInScale(p)
  /\ Take(r, [id |-> g, mark |-> DataFrom(p)], "correcting")
  /\ UNCHANGED grade

\* Mutant: a correction without a number keeps the number there was.
MergeCorrection(r) ==
  LET g == input[r].id
      mark == input[r].mark
  IN
  /\ At(r, "correcting")
  /\ grade' = IF grade[g] = None THEN grade
              ELSE [grade EXCEPT ![g].mark =
                [mark EXCEPT !.value = IF mark.value = None THEN grade[g].mark.value ELSE @]]
  /\ Finish(r)

\* A full replacement; P2025 if the row has been removed.
SaveCorrection(r) ==
  LET g == input[r].id IN
  /\ At(r, "correcting")
  /\ grade' = IF grade[g] = None THEN grade ELSE [grade EXCEPT ![g].mark = input[r].mark]
  /\ Finish(r)

RemoveGrade(r, u, g) ==
  /\ At(r, "idle")
  /\ FindWritable(u, g)
  /\ Take(r, [id |-> g], "removing")
  /\ UNCHANGED grade

DeleteMark(r) ==
  /\ At(r, "removing")
  /\ grade' = [grade EXCEPT ![input[r].id] = None]
  /\ Finish(r)

MarksContinue(r) == SaveMark(r) \/ SaveCorrection(r) \/ DeleteMark(r)

MarksNext(r) ==
  \/ \E u \in Users, p \in Payloads :
       \/ \E s \in Students : AddForStudent(r, u, s, p)
       \/ \E l \in Lessons, named \in Students \cup {None} : AddForLesson(r, u, l, named, p)
       \/ \E g \in GradeIds : Correct(r, u, g, p)
  \/ \E u \in Users, g \in GradeIds : RemoveGrade(r, u, g)
  \/ MarksContinue(r)

\* ON DELETE: a student's marks go with them; a lesson's are kept without it.
Cascade ==
  grade' = [g \in GradeIds |->
    IF grade[g] = None \/ life'[grade[g].student] = "gone" THEN None
    ELSE [grade[g] EXCEPT !.lesson = IF @ # None /\ life'[@] = "gone" THEN None ELSE @]]

GradesTypeOK == grade \in [GradeIds -> {None} \cup Row]

-----------------------------------------------------------------------------
(* Properties.                                                               *)

\* Every mark is, whole, one that was sent, and readable by its kind: a number
\* on its kind's scale, or no number at all.  It belongs to a student who is
\* there, and one filed in a one-to-one lesson to that lesson's student.
MarksAsWritten ==
  \A g \in Filled :
    LET row == grade[g] IN
    /\ row.mark \in {DataFrom(p) : p \in Payloads} \cup {Filed[i].mark : i \in DOMAIN Filed}
    /\ OnScale(row.mark) /\ OfItsLesson(row)
    /\ Here(row.student)
    /\ row.lesson # None => Here(row.lesson)
=============================================================================

------------------------------ MODULE Subjects -------------------------------
(***************************************************************************)
(* What a school teaches (SubjectsService), and the rows that name it:     *)
(* people, that is students and groups, and lessons.  A subject is hidden  *)
(* once nothing current uses it; what reads that and what gives a row its  *)
(* subject are separate statements of separate requests.                   *)
(***************************************************************************)
EXTENDS Requests

CONSTANTS
  First,    \* the subject there is at the start; others are named by the request
  Names,    \* names as typed
  Fold(_),  \* a name without its case
  FirstName,
  People,
  Bookings

\* A row of subjects.
Subject == [name : Names, hidden : BOOLEAN]

ASSUME SubjectsAssumption ==
  /\ First \notin Requests /\ None \notin Requests \cup {First} \cup Subject
  /\ FirstName \in Names
  /\ People \cap Bookings = {}

Ids == Requests \cup {First}
Records == People \cup Bookings

VARIABLES
  subject,   \* id -> [name, hidden], or None
  studies,   \* row -> the subject it names, or None
  lesson,    \* lesson -> "none" while not booked, then where it stands
  twins,     \* history: folded names given by two requests at once
  strained,  \* history: subjects given to a row while being hidden
  revived    \* history: subjects of a cancelled lesson that was put back

subjectVars == <<subject, studies, lesson, twins, strained, revived>>

SubjectsInit ==
  /\ subject = [i \in Ids |-> IF i = First
                  THEN [name |-> FirstName, hidden |-> FALSE] ELSE None]
  /\ studies = [x \in Records |-> None]
  /\ lesson = [l \in Bookings |-> "none"]
  /\ twins = {}
  /\ strained = {}
  /\ revived = {}

-----------------------------------------------------------------------------
(* Names.                                                                    *)

\* Mutant: looked up as typed.
FindExactly(n) == {i \in Ids : subject[i] # None /\ subject[i].name = n}

\* Without regard to case, hidden subjects included.
FindByName(n) == {i \in Ids : subject[i] # None /\ Fold(subject[i].name) = Fold(n)}

\* The unique index, which does regard case.
Indexed(i, n) == \E j \in Ids \ {i} : subject[j] # None /\ subject[j].name = n

Create(r, n) ==
  /\ At(r, "idle")
  /\ FindByName(n) = {}
  /\ Take(r, [id |-> r, name |-> n], "naming")
  /\ UNCHANGED subjectVars

\* findFirst picks one of those there are, and may pick the subject itself.
Rename(r, i, n) ==
  /\ At(r, "idle")
  /\ subject[i] # None
  /\ subject[i].name # n
  /\ FindByName(n) # {} => i \in FindByName(n)
  /\ Take(r, [id |-> i, name |-> n], "naming")
  /\ UNCHANGED subjectVars

\* The insert or the update; P2002 if the index has the very same name.
SaveName(r) ==
  LET i == input[r].id
      n == input[r].name
  IN
  /\ At(r, "naming")
  /\ subject' = IF Indexed(i, n) THEN subject
                ELSE [subject EXCEPT ![i] =
                  [name |-> n, hidden |-> subject[i] # None /\ subject[i].hidden]]
  /\ twins' = IF \E q \in OthersAt(r, "naming") : Fold(input[q].name) = Fold(n)
              THEN twins \cup {Fold(n)} ELSE twins
  /\ Finish(r)
  /\ UNCHANGED <<studies, lesson, strained, revived>>

-----------------------------------------------------------------------------
(* Hiding.  The reads of the usage report share a transaction but, at READ   *)
(* COMMITTED, not a moment.  The answer is settled once the subject is       *)
(* hidden already or somebody studies it.                                    *)

CountPeople(r, i) ==
  /\ At(r, "idle")
  /\ subject[i] # None
  /\ Take(r, [id |-> i, settled |-> subject[i].hidden \/ \E x \in People : studies[x] = i],
             "reporting")
  /\ UNCHANGED subjectVars

StillAhead(i) == \E l \in Bookings : studies[l] = i /\ lesson[l] = "upcoming"

CountLessons(r) ==
  /\ At(r, "reporting")
  /\ IF input[r].settled \/ StillAhead(input[r].id)
     THEN Finish(r) ELSE Goto(r, "hiding")
  /\ UNCHANGED subjectVars

GivenBy(r) == {input[q].id : q \in OthersAt(r, "giving")}

Hide(r) ==
  /\ At(r, "hiding")
  /\ subject' = [subject EXCEPT ![input[r].id].hidden = TRUE]
  /\ strained' = strained \cup (GivenBy(r) \cap {input[r].id})
  /\ Finish(r)
  /\ UNCHANGED <<studies, lesson, twins, revived>>

Restore(i) ==
  /\ subject[i] # None
  /\ subject[i].hidden
  /\ subject' = [subject EXCEPT ![i].hidden = FALSE]
  /\ UNCHANGED <<pc, input, studies, lesson, twins, strained, revived>>

-----------------------------------------------------------------------------
(* Giving a row its subject.                                                 *)

\* Mutant: the form may offer what it likes.
ResolveAny(i, current) == subject[i] # None

\* Offered still, or what the row points at already.
Resolve(i, current) == subject[i] # None /\ (subject[i].hidden => i = current)

\* A student or group is created or edited, or a lesson is booked.
Give(r, x, i) ==
  /\ At(r, "idle")
  /\ x \in Bookings => lesson[x] = "none" /\ \A q \in OthersAt(r, "giving") : input[q].row # x
  /\ Resolve(i, studies[x])
  /\ Take(r, [row |-> x, id |-> i], "giving")
  /\ UNCHANGED subjectVars

BeingHidden(r) ==
  {input[q].id : q \in OthersAt(r, "reporting") \cup OthersAt(r, "hiding")}

SaveRow(r) ==
  LET x == input[r].row IN
  /\ At(r, "giving")
  /\ studies' = [studies EXCEPT ![x] = input[r].id]
  /\ lesson' = IF x \in Bookings THEN [lesson EXCEPT ![x] = "upcoming"] ELSE lesson
  /\ strained' = strained \cup (BeingHidden(r) \cap {input[r].id})
  /\ Finish(r)
  /\ UNCHANGED <<subject, twins, revived>>

\* A student's subject is cleared, or the row is deleted.
Release(x) ==
  /\ studies[x] # None
  /\ studies' = [studies EXCEPT ![x] = None]
  /\ UNCHANGED <<pc, input, subject, lesson, twins, strained, revived>>

\* updateStatus, which does not look at the subject; and time.
MoveLesson(l) ==
  /\ \/ lesson[l] = "upcoming" /\ lesson' \in {[lesson EXCEPT ![l] = p] : p \in {"cancelled", "past"}}
     \/ lesson[l] = "cancelled" /\ lesson' \in {[lesson EXCEPT ![l] = p] : p \in {"upcoming", "past"}}
  /\ revived' = IF lesson'[l] = "upcoming" THEN revived \cup {studies[l]} ELSE revived
  /\ UNCHANGED <<pc, input, subject, studies, twins, strained>>

-----------------------------------------------------------------------------

SubjectsContinue(r) == SaveName(r) \/ CountLessons(r) \/ Hide(r) \/ SaveRow(r)

SubjectsNext(r) ==
  \/ \E n \in Names : Create(r, n) \/ \E i \in Ids : Rename(r, i, n)
  \/ \E i \in Ids : CountPeople(r, i) \/ \E x \in Records : Give(r, x, i)
  \/ SubjectsContinue(r)

SubjectsAlone ==
  \/ \E i \in Ids : Restore(i)
  \/ \E x \in People : Release(x)
  \/ \E l \in Bookings : MoveLesson(l)

SubjectsTypeOK ==
  /\ subject \in [Ids -> {None} \cup Subject]
  /\ studies \in [Records -> Ids \cup {None}]
  /\ lesson \in [Bookings -> {"none", "upcoming", "cancelled", "past"}]
  /\ strained \cup revived \in SUBSET Ids

-----------------------------------------------------------------------------
(* Properties.                                                               *)

\* Nothing current studies a hidden subject, except where a row was given the
\* subject while it was being hidden, or a cancelled lesson was put back.
HiddenIsUnused ==
  \A i \in Ids \ (strained \cup revived) :
    subject[i] # None /\ subject[i].hidden =>
      ~StillAhead(i) /\ \A x \in People : studies[x] # i

\* A school has one subject of a name, in whatever case it is typed, unless two
\* requests were giving the name at once; and never two spelled alike.
OneOfAName ==
  \A i, j \in Ids : i # j /\ subject[i] # None /\ subject[j] # None =>
    /\ subject[i].name # subject[j].name
    /\ Fold(subject[i].name) = Fold(subject[j].name) => Fold(subject[i].name) \in twins
=============================================================================

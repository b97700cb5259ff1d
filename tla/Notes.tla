-------------------------------- MODULE Notes --------------------------------
(***************************************************************************)
(* Notes on a student and on a lesson (NotesService): what a handler       *)
(* checked about the student, the lesson or the note may have gone by the  *)
(* time it writes.                                                         *)
(***************************************************************************)
EXTENDS Grades

CONSTANT Kept  \* the notes there are to begin with: id -> row

\* What a note is about: one student, or one lesson.
About == Students \cup Lessons

NoteRow == [about : About, author : Users]

ASSUME NotesAssumption ==
  /\ None \notin NoteRow
  /\ DOMAIN Kept \cap Requests = {}
  /\ \A n \in DOMAIN Kept : Kept[n] \in NoteRow /\ Kept[n].about \in Seeded

VARIABLES
  note,      \* id -> the note's row, or None; a request's note has its name
  taken,     \* history: id -> the row as it was written
  removedBy  \* history: id -> who removed it, or None

noteVars == <<note, taken, removedBy>>

NoteIds == Requests \cup DOMAIN Kept

NotesInit(kept) ==
  /\ taken \in {[n \in NoteIds |-> IF n \in DOMAIN k THEN k[n] ELSE None] : k \in kept}
  /\ note = taken
  /\ removedBy = [n \in NoteIds |-> None]

\* Each question is answered where students and lessons are.
MayReach(u, x) == IF x \in Students THEN FindStudent(u, x) ELSE FindLesson(u, x)

ListNotes(u, x) == {n \in NoteIds : note[n] # None /\ MayReach(u, x) /\ note[n].about = x}

AddNote(r, u, x) ==
  /\ At(r, "idle")
  /\ MayReach(u, x)
  /\ Take(r, [about |-> x, author |-> u], "writing")
  /\ UNCHANGED noteVars

\* Refused by a foreign key if what it is about has gone.
SaveNote(r) ==
  /\ At(r, "writing")
  /\ note' = IF Here(input[r].about) THEN [note EXCEPT ![r] = input[r]] ELSE note
  /\ taken' = [taken EXCEPT ![r] = note'[r]]
  /\ Finish(r)
  /\ UNCHANGED removedBy

\* Reachable first; then its author, or an admin.
RemoveNote(r, u, n) ==
  /\ At(r, "idle")
  /\ note[n] # None
  /\ MayReach(u, note[n].about)
  /\ u \in {note[n].author, Admin}
  /\ Take(r, [id |-> n, by |-> u], "erasing")
  /\ UNCHANGED noteVars

\* P2025 if it is gone already.
EraseNote(r) ==
  LET n == input[r].id IN
  /\ At(r, "erasing")
  /\ note' = [note EXCEPT ![n] = None]
  /\ removedBy' = [removedBy EXCEPT ![n] = IF note[n] = None THEN @ ELSE input[r].by]
  /\ Finish(r)
  /\ UNCHANGED taken

NotesContinue(r) == SaveNote(r) \/ EraseNote(r)

NotesNext(r) ==
  \/ \E u \in Users, x \in About : AddNote(r, u, x)
  \/ \E u \in Users, n \in NoteIds : RemoveNote(r, u, n)
  \/ NotesContinue(r)

\* ON DELETE: a note goes with what it is about.
CascadeNotes ==
  /\ note' = [n \in NoteIds |->
       IF note[n] # None /\ life'[note[n].about] = "gone" THEN None ELSE note[n]]
  /\ UNCHANGED <<taken, removedBy>>

NotesTypeOK ==
  /\ {note, taken} \subseteq [NoteIds -> {None} \cup NoteRow]
  /\ removedBy \in [NoteIds -> Users \cup {None}]

-----------------------------------------------------------------------------
(* Properties.                                                               *)

\* A note reads as it was written, by all who may see the student or the lesson it
\* is about, for as long as those are there; it ends with them, or by the hand of
\* its author or an admin.
NotesBelong ==
  \A n \in NoteIds :
    LET row == taken[n] IN
    /\ note[n] \in {None, row}
    /\ row # None /\ Here(row.about) =>
         IF removedBy[n] = None
         THEN \A u \in {Admin, TutorOf[row.about]} : n \in ListNotes(u, row.about)
         ELSE removedBy[n] \in {row.author, Admin}
    /\ row # None /\ ~Here(row.about) => note[n] = None

\* What tutors file, marks and notes alike, keeps to what it is about.
FiledAsWritten == MarksAsWritten /\ NotesBelong
=============================================================================

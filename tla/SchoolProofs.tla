----------------------------- MODULE SchoolProofs -----------------------------
(***************************************************************************)
(* What tutors file and what the school reads about itself, proved of      *)
(* Server's specification for any roster, any marks and notes and any      *)
(* number of requests; with it, the types of the whole server.             *)
(***************************************************************************)
EXTENDS ServerProofs, SumFacts

-----------------------------------------------------------------------------
(* The roster.  Rows keep their types, and a row that is gone stays gone.    *)

LEMMA BillsAreFinite ==
  ASSUME RosterTypeOK, NEW s \in Students
  PROVE  Cardinality(Bills(s)) \in Nat
<1>1. Bills(s) \subseteq Lessons
  BY DEF Bills, ChargedIn, RosterTypeOK
<1> QED BY <1>1, RosterAssumption, FS_Subset, FS_CardinalityType

LEMMA BalanceTyped ==
  ASSUME RosterTypeOK, NEW s \in Students, NEW n \in Typed, SetBalance(s, n)
  PROVE  left' \in [Students -> Int] /\ paid' \in [Students -> Int]
BY BillsAreFinite, RosterAssumption DEF SetBalance, RosterTypeOK

LEMMA CascadeTyped ==
  ASSUME RosterTypeOK, NEW doomed, NEW departing, CascadeLessons(doomed, departing)
  PROVE  /\ life' \in [RowIds -> {"unborn", "here", "gone"}]
         /\ att' \in [Lessons -> [Students -> Cell]]
         /\ erased' \in [Students -> SUBSET Lessons]
         /\ UNCHANGED <<left, status, paid>>
BY DEF CascadeLessons, RosterTypeOK, Cell, Blank, ChargedIn

LEMMA RosterTyped ==
  ASSUME RosterTypeOK, RosterNext
  PROVE  RosterTypeOK'
<1> USE DEF RosterTypeOK
<1>1. ASSUME NEW s \in Students, NEW n \in Typed, CreateStudent(s, n) \/ UpdateStudent(s, n)
      PROVE  RosterTypeOK'
  BY <1>1, BalanceTyped DEF CreateStudent, UpdateStudent
<1>2. ASSUME NEW s \in Students, RemoveStudent(s)
      PROVE  RosterTypeOK'
  BY <1>2, CascadeTyped DEF RemoveStudent
<1>3. ASSUME NEW g \in Groups, CreateGroup(g) \/ RemoveGroup(g)
      PROVE  RosterTypeOK'
  BY <1>3, CascadeTyped DEF CreateGroup, RemoveGroup
<1>4. ASSUME NEW g \in Groups, NEW s \in Students, AddMember(g, s) \/ RemoveMember(g, s)
      PROVE  RosterTypeOK'
  BY <1>4 DEF AddMember, RemoveMember
<1>5. ASSUME NEW l \in Lessons, CreateLesson(l)
      PROVE  RosterTypeOK'
  BY <1>5 DEF CreateLesson
<1>6. ASSUME NEW l \in Lessons, NEW st \in LessonStatus, UpdateStatus(l, st)
      PROVE  RosterTypeOK'
  BY <1>6 DEF UpdateStatus
<1> QED BY <1>1, <1>2, <1>3, <1>4, <1>5, <1>6 DEF RosterNext

\* Rows are born once: what is here stays or goes, and what is gone stays gone.
Onwards ==
  \A x \in RowIds : /\ Here(x) => life'[x] \in {"here", "gone"}
                    /\ life[x] = "gone" => life'[x] = "gone"

LEMMA CascadeOnwards ==
  ASSUME RosterTypeOK, NEW doomed, NEW departing, CascadeLessons(doomed, departing)
  PROVE  Onwards
BY DEF CascadeLessons, Onwards, Here, RosterTypeOK

LEMMA RosterOnwards ==
  ASSUME RosterTypeOK, RosterNext
  PROVE  Onwards
<1>1. ASSUME NEW x, life[x] = "unborn", life' = [life EXCEPT ![x] = "here"]
      PROVE  Onwards
  BY <1>1 DEF RosterTypeOK, Onwards, Here
<1>2. ASSUME UNCHANGED life
      PROVE  Onwards
  BY <1>2 DEF Onwards, Here
<1>3. \A s \in Students : RemoveStudent(s) => Onwards
  BY CascadeOnwards DEF RemoveStudent
<1>4. \A g \in Groups : RemoveGroup(g) => Onwards
  BY CascadeOnwards DEF RemoveGroup
<1> QED BY <1>1, <1>2, <1>3, <1>4
        DEF RosterNext, CreateStudent, UpdateStudent, CreateGroup, AddMember, RemoveMember,
            CreateLesson, UpdateStatus

LEMMA WrittenUp ==
  ASSUME RosterTypeOK, NEW l \in Lessons, NEW ms \in [Students -> Cell], WriteUp(l, ms, Unstated)
  PROVE  RosterTypeOK' /\ Onwards
<1>1. att' \in [Lessons -> [Students -> Cell]]
  BY DEF WriteUp, Register, RosterTypeOK
<1>2. left' \in [Students -> Int]
  <2>1. \A m : Bill(m) \in {0, 1}
    BY DEF Bill
  <2>2. \A s \in Students : left[s] + Bill(att[l][s]) - Bill(Register(l, ms)[s]) \in Int
    BY <2>1 DEF RosterTypeOK
  <2> QED BY <2>2 DEF WriteUp
<1>3. status' \in [Lessons -> LessonStatus]
  BY DEF WriteUp, RosterTypeOK, Verdict, StatusFromRegister, LessonStatus
<1> QED BY <1>1, <1>2, <1>3 DEF WriteUp, RosterTypeOK, Onwards, Here

LEMMA ChangeKeeps ==
  ASSUME RosterTypeOK, RowsCome \/ AnyChange
  PROVE  RosterTypeOK' /\ Onwards
<1>1. CASE RosterNext
  BY <1>1, RosterTyped, RosterOnwards
<1>2. RowsCome => RosterNext
  BY DEF RowsCome, RosterNext
<1>3. ASSUME NEW l \in Lessons, NEW ms \in [Students -> Marks \cup {NoMark}], WriteUp(l, ms, Unstated)
      PROVE  RosterTypeOK' /\ Onwards
  <2>1. ms \in [Students -> Cell]
    BY ReportsAssumption DEF Cell
  <2> QED BY <1>3, <2>1, WrittenUp
<1> QED BY <1>1, <1>2, <1>3 DEF AnyChange

-----------------------------------------------------------------------------
(* Requests about what is filed and what is read: what each holds was        *)
(* checked when it was taken up, and what it checked cannot become false but *)
(* by a row's going, which its statement looks at.                           *)

\* The statements a request may be about to run when the topic is not the office.
Teaching ==
  {"idle", "over", "filing", "correcting", "removing", "writing", "erasing",
   "report", "debtors", "reported", "listed"}

RequestsTyped ==
  /\ pc \in [Requests -> Teaching]
  /\ input = [r \in Requests |-> input[r]]

\* The marks that were sent, or were there to begin with.
SentMarks ==
  {mark \in Data : OnScale(mark) /\ mark \in {DataFrom(p) : p \in Payloads} \cup {Filed[i].mark : i \in DOMAIN Filed}}

Filings == {row \in Row : row.mark \in SentMarks /\ OfItsLesson(row)}

MarkFits(r) ==
  /\ At(r, "filing") => input[r] \in Filings
  /\ At(r, "correcting") => input[r].id \in GradeIds /\ input[r].mark \in SentMarks

\* Who erases a note may; a request has written none before its turn.
NoteFits(r) ==
  /\ At(r, "writing") => input[r] \in NoteRow
  /\ At(r, "erasing") =>
       /\ input[r].id \in NoteIds /\ input[r].by \in Users
       /\ taken[input[r].id] # None /\ input[r].by \in {taken[input[r].id].author, Admin}
  /\ pc[r] \in {"idle", "writing"} => taken[r] = None /\ note[r] = None /\ removedBy[r] = None

\* What a note was written about had been there.
NotesHadSubject == \A n \in NoteIds : taken[n] # None => life[taken[n].about] # "unborn"

FiledInv ==
  /\ ReportsTypeOK /\ NotesTypeOK
  /\ MarksAsWritten /\ NotesBelong /\ NotesHadSubject
  /\ topic # "office" => RequestsTyped /\ \A r \in Requests : MarkFits(r) /\ NoteFits(r)

LEMMA TakesUp ==
  ASSUME RequestsTyped, NEW r \in Requests, NEW value, NEW p \in Teaching, Take(r, value, p)
  PROVE  /\ RequestsTyped'
         /\ pc'[r] = p /\ input'[r] = value
         /\ \A q \in Requests \ {r} : pc'[q] = pc[q] /\ input'[q] = input[q]
BY DEF RequestsTyped, Take

LEMMA Finishes ==
  ASSUME RequestsTyped, NEW r \in Requests, Finish(r)
  PROVE  /\ RequestsTyped'
         /\ pc'[r] = "over"
         /\ \A q \in Requests \ {r} : pc'[q] = pc[q] /\ input'[q] = input[q]
BY TakesUp DEF Finish, Teaching

\* What becomes of a mark that was sent and is on its scale.
LEMMA DataIsSent ==
  ASSUME NEW p \in Payloads, ValueInScale(p)
  PROVE  DataFrom(p) \in SentMarks
<1>1. p \in WriteGradeDto
  BY GradesAssumption
<1>2. DataFrom(p) \in Data
  BY <1>1 DEF WriteGradeDto, DataFrom, Data, GradeKind, BlankToNull
<1>3. OnScale(DataFrom(p))
  BY <1>1, GradesAssumption DEF WriteGradeDto, DataFrom, OnScale, ValueInScale, CeilingOf
<1> QED BY <1>2, <1>3 DEF SentMarks

LEMMA MarkedIsStudent ==
  ASSUME RosterTypeOK, NEW l \in Lessons, NEW named, NEW s \in ResolveMarked(l, named)
  PROVE  s \in Students /\ (AudienceOf[l] \in Students => AudienceOf[l] = s)
BY RosterAssumption DEF ResolveMarked, RosterTypeOK

\* A step of one request that files nothing leaves the others as they were.
LEMMA OthersFit ==
  ASSUME NEW r \in Requests, \A q \in Requests : MarkFits(q) /\ NoteFits(q),
         \A q \in Requests \ {r} : pc'[q] = pc[q] /\ input'[q] = input[q],
         UNCHANGED <<note, taken, removedBy>>,
         MarkFits(r)', NoteFits(r)'
  PROVE  \A q \in Requests : MarkFits(q)' /\ NoteFits(q)'
BY DEF MarkFits, NoteFits, At

-----------------------------------------------------------------------------
(* Marks.                                                                    *)

LEMMA MarkTaken ==
  ASSUME FiledInv, topic # "office", UNCHANGED topic, NEW r \in Requests,
         NEW value, NEW p \in {"filing", "correcting", "removing"},
         At(r, "idle"), Take(r, value, p),
         p = "filing" => value \in Filings,
         p = "correcting" => value.id \in GradeIds /\ value.mark \in SentMarks,
         UNCHANGED <<schoolVars, noteVars>>
  PROVE  FiledInv'
<1>1. /\ RequestsTyped'
      /\ pc'[r] = p /\ input'[r] = value
      /\ \A q \in Requests \ {r} : pc'[q] = pc[q] /\ input'[q] = input[q]
  BY TakesUp DEF FiledInv, Teaching
<1>2. MarkFits(r)' /\ NoteFits(r)'
  BY <1>1 DEF MarkFits, NoteFits, At
<1>3. \A q \in Requests : MarkFits(q)' /\ NoteFits(q)'
  BY <1>1, <1>2, OthersFit DEF FiledInv, noteVars
<1>4. ReportsTypeOK' /\ NotesTypeOK' /\ MarksAsWritten' /\ NotesBelong' /\ NotesHadSubject'
  BY DEF FiledInv, schoolVars, rosterVars, noteVars, ReportsTypeOK, RosterTypeOK, GradesTypeOK,
         NotesTypeOK, MarksAsWritten, Filled, Here, NotesBelong, NotesHadSubject, ListNotes,
         MayReach, FindStudent, FindLesson
<1> QED BY <1>1, <1>3, <1>4 DEF FiledInv

LEMMA MarkStored ==
  ASSUME FiledInv, topic # "office", UNCHANGED topic, NEW r \in Requests, Finish(r),
         GradesTypeOK', MarksAsWritten',
         UNCHANGED <<rosterVars, writes, fresh, owing, noteVars>>
  PROVE  FiledInv'
<1>1. /\ RequestsTyped'
      /\ pc'[r] = "over"
      /\ \A q \in Requests \ {r} : pc'[q] = pc[q] /\ input'[q] = input[q]
  BY Finishes DEF FiledInv
<1>2. MarkFits(r)' /\ NoteFits(r)'
  BY <1>1 DEF MarkFits, NoteFits, At
<1>3. \A q \in Requests : MarkFits(q)' /\ NoteFits(q)'
  BY <1>1, <1>2, OthersFit DEF FiledInv, noteVars
<1>4. ReportsTypeOK' /\ NotesTypeOK' /\ NotesBelong' /\ NotesHadSubject'
  BY DEF FiledInv, rosterVars, noteVars, ReportsTypeOK, RosterTypeOK,
         NotesTypeOK, Here, NotesBelong, NotesHadSubject, ListNotes,
         MayReach, FindStudent, FindLesson
<1> QED BY <1>1, <1>3, <1>4 DEF FiledInv

LEMMA MarksKeep ==
  ASSUME FiledInv, topic # "office", UNCHANGED topic, NEW r \in Requests, MarksNext(r),
         UNCHANGED <<rosterVars, writes, fresh, owing, noteVars>>
  PROVE  FiledInv'
<1>1. ASSUME NEW u \in Users, NEW s \in Students, NEW p \in Payloads, AddForStudent(r, u, s, p)
      PROVE  FiledInv'
  <2> DEFINE row == [student |-> s, lesson |-> None, author |-> u, mark |-> DataFrom(p)]
  <2>1. At(r, "idle") /\ Take(r, row, "filing") /\ UNCHANGED grade /\ DataFrom(p) \in SentMarks
    BY <1>1, DataIsSent DEF AddForStudent
  <2>2. row \in Filings
    BY <2>1 DEF Filings, Row, SentMarks, OfItsLesson
  <2> HIDE DEF row
  <2> QED BY <2>1, <2>2, MarkTaken DEF schoolVars
<1>2. ASSUME NEW u \in Users, NEW l \in Lessons, NEW named, NEW p \in Payloads,
             AddForLesson(r, u, l, named, p)
      PROVE  FiledInv'
  <2>1. PICK s \in ResolveMarked(l, named) :
          Take(r, [student |-> s, lesson |-> l, author |-> u, mark |-> DataFrom(p)], "filing")
    BY <1>2 DEF AddForLesson
  <2> DEFINE row == [student |-> s, lesson |-> l, author |-> u, mark |-> DataFrom(p)]
  <2>2. At(r, "idle") /\ UNCHANGED grade /\ DataFrom(p) \in SentMarks
    BY <1>2, DataIsSent DEF AddForLesson
  <2>3. row \in Filings
    BY <2>2, MarkedIsStudent DEF Filings, Row, SentMarks, OfItsLesson, FiledInv, ReportsTypeOK
  <2> HIDE DEF row
  <2>4. Take(r, row, "filing")
    BY <2>1 DEF row
  <2> QED BY <2>2, <2>3, <2>4, MarkTaken DEF schoolVars
<1>3. ASSUME NEW u \in Users, NEW g \in GradeIds, NEW p \in Payloads, Correct(r, u, g, p)
      PROVE  FiledInv'
  <2> DEFINE value == [id |-> g, mark |-> DataFrom(p)]
  <2>1. At(r, "idle") /\ Take(r, value, "correcting") /\ UNCHANGED grade
    BY <1>3 DEF Correct
  <2>2. value.id \in GradeIds /\ value.mark \in SentMarks
    BY <1>3, DataIsSent DEF Correct
  <2> HIDE DEF value
  <2> QED BY <2>1, <2>2, MarkTaken DEF schoolVars
<1>4. ASSUME NEW u \in Users, NEW g \in GradeIds, RemoveGrade(r, u, g)
      PROVE  FiledInv'
  BY <1>4, MarkTaken DEF RemoveGrade, schoolVars
<1>5. CASE SaveMark(r)
  <2>1. input[r] \in Filings
    BY <1>5 DEF FiledInv, SaveMark, MarkFits
  <2>2. CASE UNCHANGED grade
    BY <1>5, <2>2, MarkStored
       DEF SaveMark, FiledInv, ReportsTypeOK, GradesTypeOK, MarksAsWritten, Filled, Here, rosterVars
  <2>3. CASE /\ grade' = [grade EXCEPT ![r] = input[r]]
             /\ Here(input[r].student) /\ (input[r].lesson # None => Here(input[r].lesson))
    <3>1. GradesTypeOK'
      BY <2>1, <2>3 DEF Filings, FiledInv, ReportsTypeOK, GradesTypeOK
    <3>2. \A g \in GradeIds : grade'[g] = IF g = r THEN input[r] ELSE grade[g]
      BY <2>3 DEF FiledInv, ReportsTypeOK, GradesTypeOK
    <3>3. MarksAsWritten'
      BY <2>1, <2>3, <3>2
         DEF FiledInv, Filings, SentMarks, MarksAsWritten, Filled, Here, rosterVars
    <3> QED BY <1>5, <3>1, <3>3, MarkStored DEF SaveMark
  <2> QED BY <1>5, <2>2, <2>3 DEF SaveMark
<1>6. CASE SaveCorrection(r)
  <2> DEFINE id == input[r].id
             mark == input[r].mark
  <2>1. id \in GradeIds /\ mark \in SentMarks
    BY <1>6 DEF FiledInv, SaveCorrection, MarkFits
  <2>2. CASE UNCHANGED grade
    BY <1>6, <2>2, MarkStored
       DEF SaveCorrection, FiledInv, ReportsTypeOK, GradesTypeOK, MarksAsWritten, Filled, Here, rosterVars
  <2>3. CASE grade[id] # None /\ grade' = [grade EXCEPT ![id].mark = mark]
    <3>1. grade[id] \in Row /\ mark \in Data
      BY <2>1, <2>3 DEF FiledInv, ReportsTypeOK, GradesTypeOK, SentMarks
    <3>2. /\ grade'[id] \in Row /\ grade'[id].mark = mark
          /\ grade'[id].student = grade[id].student /\ grade'[id].lesson = grade[id].lesson
      BY <2>1, <2>3, <3>1 DEF Row, FiledInv, ReportsTypeOK, GradesTypeOK
    <3>3. \A g \in GradeIds \ {id} : grade'[g] = grade[g]
      BY <2>3 DEF FiledInv, ReportsTypeOK, GradesTypeOK
    <3> HIDE DEF id, mark
    <3>4. GradesTypeOK'
      BY <2>3, <3>2, <3>3 DEF FiledInv, ReportsTypeOK, GradesTypeOK
    <3>5. MarksAsWritten'
      BY <2>1, <2>3, <3>2, <3>3
         DEF FiledInv, SentMarks, OfItsLesson, MarksAsWritten, Filled, Here, rosterVars
    <3> QED BY <1>6, <3>4, <3>5, MarkStored DEF SaveCorrection
  <2> QED BY <1>6, <2>2, <2>3 DEF SaveCorrection
<1>7. CASE DeleteMark(r)
  <2>1. \A g \in GradeIds : grade'[g] \in {None, grade[g]}
    BY <1>7 DEF DeleteMark, FiledInv, ReportsTypeOK, GradesTypeOK
  <2>2. GradesTypeOK'
    BY <1>7 DEF DeleteMark, FiledInv, ReportsTypeOK, GradesTypeOK
  <2>3. MarksAsWritten'
    BY <2>1 DEF FiledInv, MarksAsWritten, Filled, Here, rosterVars
  <2> QED BY <1>7, <2>2, <2>3, MarkStored DEF DeleteMark
<1> QED BY <1>1, <1>2, <1>3, <1>4, <1>5, <1>6, <1>7 DEF MarksNext, MarksContinue

-----------------------------------------------------------------------------
(* Notes.                                                                    *)

\* A note is listed to those who may see what it is about while it is there.
LEMMA SeenByAll ==
  ASSUME NotesTypeOK, NEW n \in NoteIds, taken[n] # None, Here(taken[n].about)
  PROVE  (\A u \in {Admin, TutorOf[taken[n].about]} : n \in ListNotes(u, taken[n].about))
           <=> note[n] # None /\ note[n].about = taken[n].about
BY DEF ListNotes, MayReach, FindStudent, FindLesson, Here

\* The same of a single note.
NoteBelongs(n) ==
  /\ note[n] \in {None, taken[n]}
  /\ taken[n] # None =>
       /\ life[taken[n].about] # "unborn"
       /\ ~Here(taken[n].about) => note[n] = None
       /\ Here(taken[n].about) =>
            IF removedBy[n] = None THEN note[n] = taken[n]
            ELSE removedBy[n] \in {taken[n].author, Admin}

AllBelong == \A n \in NoteIds : NoteBelongs(n)

LEMMA NotesOneByOne ==
  ASSUME NotesTypeOK
  PROVE  AllBelong <=> NotesBelong /\ NotesHadSubject
<1> USE DEF AllBelong
<1>1. ASSUME NEW n \in NoteIds
      PROVE  note[n] \in {None} \cup NoteRow /\ taken[n] \in {None} \cup NoteRow
  BY DEF NotesTypeOK
<1>2. ASSUME \A n \in NoteIds : NoteBelongs(n)
      PROVE  NotesBelong /\ NotesHadSubject
  <2>1. NotesHadSubject
    BY <1>2 DEF NoteBelongs, NotesHadSubject
  <2>2. NotesBelong
    BY <1>2, SeenByAll DEF NoteBelongs, NotesBelong
  <2> QED BY <2>1, <2>2
<1>3. ASSUME NotesBelong, NotesHadSubject, NEW n \in NoteIds
      PROVE  NoteBelongs(n)
  <2>1. note[n] \in {None, taken[n]}
    BY <1>3 DEF NotesBelong
  <2>2. ASSUME taken[n] # None, Here(taken[n].about), removedBy[n] = None
        PROVE  note[n] = taken[n]
    BY <1>3, <2>1, <2>2, SeenByAll DEF NotesBelong
  <2> QED BY <1>3, <2>1, <2>2 DEF NotesBelong, NotesHadSubject, NoteBelongs
<1> QED BY <1>2, <1>3

LEMMA NoteTaken ==
  ASSUME FiledInv, topic # "office", UNCHANGED topic, NEW r \in Requests,
         NEW value, NEW p \in {"writing", "erasing"},
         At(r, "idle"), Take(r, value, p),
         p = "writing" => value \in NoteRow,
         p = "erasing" => /\ value.id \in NoteIds /\ value.by \in Users
                          /\ taken[value.id] # None
                          /\ value.by \in {taken[value.id].author, Admin},
         UNCHANGED <<schoolVars, noteVars>>
  PROVE  FiledInv'
<1>1. /\ RequestsTyped'
      /\ pc'[r] = p /\ input'[r] = value
      /\ \A q \in Requests \ {r} : pc'[q] = pc[q] /\ input'[q] = input[q]
  BY TakesUp DEF FiledInv, Teaching
<1>2. MarkFits(r)' /\ NoteFits(r)'
  BY <1>1 DEF FiledInv, MarkFits, NoteFits, At, noteVars
<1>3. \A q \in Requests : MarkFits(q)' /\ NoteFits(q)'
  BY <1>1, <1>2, OthersFit DEF FiledInv, noteVars
<1>4. ReportsTypeOK' /\ NotesTypeOK' /\ MarksAsWritten' /\ NotesBelong' /\ NotesHadSubject'
  BY DEF FiledInv, schoolVars, rosterVars, noteVars, ReportsTypeOK, RosterTypeOK, GradesTypeOK,
         NotesTypeOK, MarksAsWritten, Filled, Here, NotesBelong, NotesHadSubject, ListNotes,
         MayReach, FindStudent, FindLesson
<1> QED BY <1>1, <1>3, <1>4 DEF FiledInv

LEMMA NotesKeep ==
  ASSUME FiledInv, topic # "office", UNCHANGED topic, NEW r \in Requests, NotesNext(r),
         UNCHANGED schoolVars
  PROVE  FiledInv'
<1>1. /\ NotesTypeOK /\ \A n \in NoteIds : NoteBelongs(n)
      /\ \A n \in NoteIds : note[n] \in {None} \cup NoteRow /\ taken[n] \in {None} \cup NoteRow
  BY NotesOneByOne DEF FiledInv, NotesTypeOK, AllBelong
<1>2. ReportsTypeOK' /\ MarksAsWritten' /\ \A x : Here(x)' = Here(x)
  BY DEF FiledInv, schoolVars, rosterVars, ReportsTypeOK, RosterTypeOK, GradesTypeOK,
         MarksAsWritten, Filled, Here
<1>3. ASSUME NEW u \in Users, NEW x \in About, AddNote(r, u, x)
      PROVE  FiledInv'
  <2>1. [about |-> x, author |-> u] \in NoteRow
    BY DEF NoteRow
  <2> QED BY <1>3, <2>1, NoteTaken DEF AddNote
<1>4. ASSUME NEW u \in Users, NEW n \in NoteIds, RemoveNote(r, u, n)
      PROVE  FiledInv'
  <2>1. taken[n] # None /\ u \in {taken[n].author, Admin}
    BY <1>1, <1>4 DEF RemoveNote, NoteBelongs
  <2> QED BY <1>4, <2>1, NoteTaken DEF RemoveNote
<1>5. ASSUME SaveNote(r) \/ EraseNote(r), NotesTypeOK', \A n \in NoteIds : NoteBelongs(n)',
             \A q \in Requests \ {r} : NoteFits(q)'
      PROVE  FiledInv'
  <2>1. /\ RequestsTyped'
        /\ pc'[r] = "over"
        /\ \A q \in Requests \ {r} : pc'[q] = pc[q] /\ input'[q] = input[q]
    BY <1>5, Finishes DEF FiledInv, SaveNote, EraseNote
  <2>2. \A q \in Requests : MarkFits(q)'
    BY <2>1 DEF FiledInv, MarkFits, At
  <2>3. NoteFits(r)'
    BY <2>1 DEF NoteFits, At
  <2>4. NotesBelong' /\ NotesHadSubject'
    <3>1. NotesTypeOK' => (AllBelong' <=> NotesBelong' /\ NotesHadSubject')
      BY NotesOneByOne, PTL
    <3> QED BY <1>5, <3>1 DEF AllBelong
  <2> QED BY <1>2, <1>5, <2>1, <2>2, <2>3, <2>4 DEF FiledInv
<1>6. CASE SaveNote(r)
  <2>1. /\ input[r] \in NoteRow /\ r \in NoteIds
        /\ taken[r] = None /\ note[r] = None /\ removedBy[r] = None
    BY <1>6 DEF SaveNote, FiledInv, NoteFits, At, NoteIds
  <2>2. /\ \A n \in NoteIds \ {r} : note'[n] = note[n] /\ taken'[n] = taken[n]
        /\ note'[r] = (IF Here(input[r].about) THEN input[r] ELSE None)
        /\ taken'[r] = note'[r] /\ UNCHANGED removedBy
    BY <1>1, <1>6, <2>1 DEF SaveNote, NotesTypeOK
  <2>3. NotesTypeOK'
    BY <1>1, <1>6, <2>1 DEF SaveNote, NotesTypeOK
  <2>4. \A n \in NoteIds : NoteBelongs(n)'
    BY <1>1, <1>2, <2>1, <2>2 DEF NoteBelongs, Here, schoolVars, rosterVars
  <2>5. \A q \in Requests \ {r} : NoteFits(q)'
    <3>1. \A q \in Requests \ {r} : pc'[q] = pc[q] /\ input'[q] = input[q]
      BY <1>6, Finishes DEF FiledInv, SaveNote
    <3>2. \A q \in Requests \ {r} : NoteFits(q) /\ q \in NoteIds
      BY DEF FiledInv, NoteIds
    <3> QED BY <2>1, <2>2, <3>1, <3>2 DEF NoteFits, At
  <2> QED BY <1>5, <1>6, <2>3, <2>4, <2>5
<1>7. CASE EraseNote(r)
  <2>0. PICK id \in NoteIds : id = input[r].id
    BY <1>7 DEF EraseNote, FiledInv, NoteFits
  <2>1. /\ id = input[r].id /\ input[r].by \in Users
        /\ taken[id] # None /\ input[r].by \in {taken[id].author, Admin}
    BY <1>7, <2>0 DEF EraseNote, FiledInv, NoteFits
  <2>2. /\ \A n \in NoteIds \ {id} : note'[n] = note[n] /\ removedBy'[n] = removedBy[n]
        /\ note'[id] = None
        /\ removedBy'[id] = (IF note[id] = None THEN removedBy[id] ELSE input[r].by)
        /\ UNCHANGED taken
    BY <1>1, <1>7, <2>1 DEF EraseNote, NotesTypeOK
  <2>3. NotesTypeOK'
    BY <1>1, <1>7, <2>1 DEF EraseNote, NotesTypeOK
  <2>4. \A n \in NoteIds : NoteBelongs(n)'
    <3>1. \A n \in NoteIds \ {id} : NoteBelongs(n)'
      BY <1>1, <1>2, <2>2 DEF NoteBelongs, Here, schoolVars, rosterVars
    <3>2. input[r].by # None
      BY <2>1, GradesAssumption
    <3>3. NoteBelongs(id)
      BY <1>1, <2>1
    <3>4. Here(taken[id].about) => removedBy'[id] \in {taken[id].author, Admin} /\ removedBy'[id] # None
      BY <2>1, <2>2, <3>2, <3>3 DEF NoteBelongs
    <3>5. NoteBelongs(id)'
      BY <1>2, <2>2, <3>3, <3>4 DEF NoteBelongs, schoolVars, rosterVars
    <3> QED BY <3>1, <3>5
  <2>5. \A q \in Requests \ {r} : NoteFits(q)'
    <3>1. \A q \in Requests \ {r} : pc'[q] = pc[q] /\ input'[q] = input[q]
      BY <1>7, Finishes DEF FiledInv, EraseNote
    <3>2. \A q \in Requests \ {r} : NoteFits(q) /\ q \in NoteIds
      BY DEF FiledInv, NoteIds
    <3>3. \A n \in NoteIds : note[n] = None => note'[n] = None /\ removedBy'[n] = removedBy[n]
      BY <2>2
    <3> QED BY <2>2, <3>1, <3>2, <3>3 DEF NoteFits, At
  <2> QED BY <1>5, <1>7, <2>3, <2>4, <2>5
<1> QED BY <1>3, <1>4, <1>6, <1>7 DEF NotesNext, NotesContinue

-----------------------------------------------------------------------------
(* Reading files nothing, and a change of the school takes what it takes.    *)

ReadingAt == {"report", "debtors", "reported", "listed"}

LEMMA ReaderMoves ==
  ASSUME RequestsTyped, NEW r \in Requests, ReportsNext(r) \/ DebtorsNext(r)
  PROVE  /\ RequestsTyped'
         /\ pc'[r] \in ReadingAt
         /\ \A q \in Requests \ {r} : pc'[q] = pc[q] /\ input'[q] = input[q]
         /\ UNCHANGED <<rosterVars, grade, writes>>
         /\ \/ UNCHANGED <<fresh, owing>>
            \/ fresh' = fresh \cup {r} /\ owing' = [owing EXCEPT ![r] = InDebt]
<1> USE DEF ReadingAt
<1>1. ASSUME NEW value, NEW p \in {"report", "debtors"}, Ask(r, value, p)
      PROVE  /\ RequestsTyped'
             /\ pc'[r] \in ReadingAt
             /\ \A q \in Requests \ {r} : pc'[q] = pc[q] /\ input'[q] = input[q]
             /\ UNCHANGED <<rosterVars, grade, writes>>
             /\ fresh' = fresh \cup {r} /\ owing' = [owing EXCEPT ![r] = InDebt]
  BY <1>1, TakesUp DEF Ask, Teaching
<1>2. ASSUME NEW field, NEW value, pc[r] \in ReadingAt, Read(r, field, value)
      PROVE  /\ RequestsTyped'
             /\ pc'[r] \in ReadingAt
             /\ \A q \in Requests \ {r} : pc'[q] = pc[q] /\ input'[q] = input[q]
             /\ UNCHANGED <<rosterVars, grade, writes, fresh, owing>>
  BY <1>2 DEF Read, RequestsTyped, schoolVars
<1>3. ASSUME NEW value, NEW p \in {"reported", "listed"}, Take(r, value, p), UNCHANGED schoolVars
      PROVE  /\ RequestsTyped'
             /\ pc'[r] \in ReadingAt
             /\ \A q \in Requests \ {r} : pc'[q] = pc[q] /\ input'[q] = input[q]
             /\ UNCHANGED <<rosterVars, grade, writes, fresh, owing>>
  BY <1>3, TakesUp DEF Teaching, schoolVars
<1>4. ASSUME NEW u \in Users, NEW q \in Queries, AskReport(r, u, q)
      PROVE  \E value : Ask(r, value, "report")
  BY <1>4 DEF AskReport
<1>5. ASSUME NEW u \in Users, NEW q \in Queries, NEW t \in Thresholds, AskDebtors(r, u, q, t)
      PROVE  \E value : Ask(r, value, "debtors")
  BY <1>5 DEF AskDebtors
<1>6. ASSUME ReadLessons(r) \/ ReadRegister(r) \/ ReadGrades(r) \/ CountStudentsTaught(r)
      PROVE  pc[r] \in ReadingAt /\ \E field, value : Read(r, field, value)
  BY <1>6 DEF ReadLessons, ReadRegister, ReadGrades, CountStudentsTaught, At
<1>7. ASSUME ReadStudents(r) \/ CountOwn(r) \/ CountInGroups(r) \/ ReadLastTaught(r)
      PROVE  pc[r] \in ReadingAt /\ \E field, value : Read(r, field, value)
  BY <1>7 DEF ReadStudents, CountOwn, CountInGroups, ReadLastTaught, ReadPerStudent, At
<1>8. ASSUME AnswerReport(r)
      PROVE  UNCHANGED schoolVars /\ \E value : Take(r, value, "reported")
  BY <1>8 DEF AnswerReport
<1>9. ASSUME AnswerDebtors(r) \/ AnswerNobody(r)
      PROVE  UNCHANGED schoolVars /\ \E value : Take(r, value, "listed")
  BY <1>9 DEF AnswerDebtors, AnswerNobody
<1> QED BY <1>1, <1>2, <1>3, <1>4, <1>5, <1>6, <1>7, <1>8, <1>9
        DEF ReportsNext, ReportsContinue, DebtorsNext, DebtorsContinue

LEMMA ReadingKeeps ==
  ASSUME FiledInv, topic # "office", UNCHANGED topic, NEW r \in Requests,
         ReportsNext(r) \/ DebtorsNext(r), UNCHANGED noteVars
  PROVE  FiledInv'
<1>1. /\ RequestsTyped'
      /\ pc'[r] \in ReadingAt
      /\ \A q \in Requests \ {r} : pc'[q] = pc[q] /\ input'[q] = input[q]
      /\ UNCHANGED <<rosterVars, grade, writes>>
      /\ \/ UNCHANGED <<fresh, owing>>
         \/ fresh' = fresh \cup {r} /\ owing' = [owing EXCEPT ![r] = InDebt]
  BY ReaderMoves DEF FiledInv
<1>2. MarkFits(r)' /\ NoteFits(r)'
  BY <1>1 DEF MarkFits, NoteFits, At, ReadingAt
<1>3. \A q \in Requests : MarkFits(q)' /\ NoteFits(q)'
  BY <1>1, <1>2, OthersFit DEF FiledInv, noteVars
<1>4. InDebt \in SUBSET Students
  BY DEF InDebt
<1>5. ReportsTypeOK'
  BY <1>1, <1>4 DEF FiledInv, rosterVars, ReportsTypeOK, RosterTypeOK, GradesTypeOK
<1>6. NotesTypeOK' /\ MarksAsWritten' /\ NotesBelong' /\ NotesHadSubject'
  BY <1>1
     DEF FiledInv, rosterVars, noteVars, NotesTypeOK, MarksAsWritten, Filled, Here, NotesBelong,
         NotesHadSubject, ListNotes, MayReach, FindStudent, FindLesson
<1> QED BY <1>1, <1>3, <1>5, <1>6 DEF FiledInv

\* ON DELETE: a mark goes with its student and outlives its lesson; it is
\* otherwise what it was.
LEMMA CascadeMarks ==
  ASSUME ReportsTypeOK, MarksAsWritten, Onwards, Cascade
  PROVE  GradesTypeOK' /\ MarksAsWritten'
<1> DEFINE lessonOf(g) == IF grade[g].lesson # None /\ life'[grade[g].lesson] = "gone"
                          THEN None ELSE grade[g].lesson
<1>1. ASSUME NEW g \in GradeIds, grade'[g] # None
      PROVE  /\ grade[g] # None /\ grade[g] \in Row
             /\ life'[grade[g].student] # "gone"
             /\ grade'[g] = [grade[g] EXCEPT !.lesson = lessonOf(g)]
  BY <1>1 DEF Cascade, ReportsTypeOK, GradesTypeOK
<1>2. ASSUME NEW g \in GradeIds, grade'[g] # None
      PROVE  /\ grade'[g] \in Row
             /\ grade'[g].mark = grade[g].mark /\ grade'[g].student = grade[g].student
             /\ grade'[g].lesson = lessonOf(g)
  <2>1. PICK row \in Row : row = grade[g]
    BY <1>1, <1>2
  <2>2. lessonOf(g) \in Lessons \cup {None}
    BY <2>1 DEF Row
  <2> HIDE DEF lessonOf
  <2>3. grade'[g] = [row EXCEPT !.lesson = lessonOf(g)]
    BY <1>1, <1>2, <2>1
  <2>4. [row EXCEPT !.lesson = lessonOf(g)] =
          [student |-> row.student, lesson |-> lessonOf(g), author |-> row.author, mark |-> row.mark]
    BY DEF Row
  <2> QED BY <2>1, <2>2, <2>3, <2>4 DEF Row
<1>3. GradesTypeOK'
  <2>1. grade' = [g \in GradeIds |-> grade'[g]]
    BY DEF Cascade
  <2>2. \A g \in GradeIds : grade'[g] \in {None} \cup Row
    BY <1>2
  <2> QED BY <2>1, <2>2 DEF GradesTypeOK
<1>4. ASSUME NEW g \in GradeIds, grade'[g] # None
      PROVE  /\ g \in Filled
             /\ life'[grade'[g].student] = "here"
             /\ grade'[g].lesson # None =>
                  life'[grade'[g].lesson] = "here" /\ grade'[g].lesson = grade[g].lesson
             /\ OfItsLesson(grade[g]) => OfItsLesson(grade'[g])
  <2>1. g \in Filled
    BY <1>1, <1>4 DEF Filled
  <2>2. grade[g].student \in RowIds /\ (grade[g].lesson # None => grade[g].lesson \in RowIds)
    BY <1>1, <1>4 DEF Row, RowIds
  <2>3. Here(grade[g].student) /\ (grade[g].lesson # None => Here(grade[g].lesson))
    BY <2>1 DEF MarksAsWritten
  <2>4. life'[grade[g].student] = "here"
    BY <1>1, <1>4, <2>2, <2>3 DEF Onwards
  <2>5. grade'[g].lesson # None =>
          life'[grade'[g].lesson] = "here" /\ grade'[g].lesson = grade[g].lesson
    BY <1>2, <1>4, <2>2, <2>3 DEF Onwards
  <2>6. OfItsLesson(grade[g]) => OfItsLesson(grade'[g])
    BY <1>2, <1>4, <2>5 DEF OfItsLesson
  <2> QED BY <1>2, <1>4, <2>1, <2>4, <2>5, <2>6
<1>5. MarksAsWritten'
  BY <1>1, <1>2, <1>4 DEF MarksAsWritten, Filled, Here
<1> QED BY <1>3, <1>5

LEMMA CascadeBelongs ==
  ASSUME RosterTypeOK, NotesTypeOK, NotesBelong, NotesHadSubject, Onwards, CascadeNotes
  PROVE  NotesTypeOK' /\ NotesBelong' /\ NotesHadSubject'
<1>1. AllBelong /\ \A n \in NoteIds : taken[n] # None => taken[n].about \in RowIds
  <2>1. \A n \in NoteIds : taken[n] # None => taken[n].about \in About
    BY DEF NotesTypeOK, NoteRow
  <2> QED BY <2>1, NotesOneByOne DEF About, RowIds
<1>2. NotesTypeOK'
  BY DEF CascadeNotes, NotesTypeOK
<1>3. ASSUME NEW n \in NoteIds
      PROVE  NoteBelongs(n)'
  <2>1. NoteBelongs(n)
    BY <1>1 DEF AllBelong
  <2>2. /\ UNCHANGED <<taken, removedBy>>
        /\ note'[n] = IF note[n] # None /\ life'[note[n].about] = "gone" THEN None ELSE note[n]
    BY DEF CascadeNotes
  <2>3. CASE taken[n] = None
    BY <2>1, <2>2, <2>3 DEF NoteBelongs
  <2>4. CASE taken[n] # None
    <3>1. /\ life[taken[n].about] \in {"here", "gone"}
          /\ life'[taken[n].about] \in {"here", "gone"}
          /\ life[taken[n].about] = "gone" => life'[taken[n].about] = "gone"
      BY <1>1, <2>1, <2>4 DEF NoteBelongs, Onwards, Here, RosterTypeOK
    <3> QED BY <2>1, <2>2, <2>4, <3>1 DEF NoteBelongs, Here
  <2> QED BY <2>3, <2>4
<1>4. NotesTypeOK' => (AllBelong' <=> NotesBelong' /\ NotesHadSubject')
  BY NotesOneByOne, PTL
<1> QED BY <1>2, <1>3, <1>4 DEF AllBelong

LEMMA ChangeFits ==
  ASSUME FiledInv, UNCHANGED topic, Write(RowsCome) \/ Write(AnyChange), CascadeNotes
  PROVE  FiledInv'
<1>1. /\ RowsCome \/ AnyChange
      /\ Cascade /\ writes < MaxWrites /\ writes' = writes + 1 /\ fresh' = {}
      /\ owing' = [r \in Requests |-> IF r \in Reading THEN owing[r] \cap InDebt' ELSE owing[r]]
      /\ UNCHANGED <<pc, input>>
  BY DEF Write
<1>2. RosterTypeOK' /\ Onwards
  BY <1>1, ChangeKeeps DEF FiledInv, ReportsTypeOK
<1>3. GradesTypeOK' /\ MarksAsWritten'
  BY <1>1, <1>2, CascadeMarks DEF FiledInv
<1>4. NotesTypeOK' /\ NotesBelong' /\ NotesHadSubject'
  BY <1>2, CascadeBelongs DEF FiledInv, ReportsTypeOK
<1>5. ReportsTypeOK'
  <2>1. writes' \in 0 .. MaxWrites
    BY <1>1, ReportsAssumption DEF FiledInv, ReportsTypeOK
  <2>2. owing' \in [Requests -> SUBSET Students]
    BY <1>1 DEF FiledInv, ReportsTypeOK
  <2> QED BY <1>1, <1>2, <1>3, <2>1, <2>2 DEF ReportsTypeOK
<1>6. ASSUME topic # "office"
      PROVE  RequestsTyped' /\ \A r \in Requests : MarkFits(r)' /\ NoteFits(r)'
  <2>1. RequestsTyped' /\ \A r \in Requests : MarkFits(r)'
    BY <1>1, <1>6 DEF FiledInv, RequestsTyped, MarkFits, At
  <2>2. UNCHANGED <<taken, removedBy>> /\ \A n \in NoteIds : note[n] = None => note'[n] = None
    BY DEF CascadeNotes
  <2>3. \A r \in Requests : NoteFits(r) /\ r \in NoteIds
    BY <1>6 DEF FiledInv, NoteIds
  <2>4. \A r \in Requests : NoteFits(r)'
    BY <1>1, <2>2, <2>3 DEF NoteFits, At
  <2> QED BY <2>1, <2>4
<1> QED BY <1>2, <1>3, <1>4, <1>5, <1>6 DEF FiledInv

LEMMA FiledStays ==
  ASSUME FiledInv, UNCHANGED <<topic, schoolVars, noteVars>>,
         topic = "office" \/ UNCHANGED <<pc, input>>
  PROVE  FiledInv'
<1>1. ReportsTypeOK' /\ NotesTypeOK' /\ MarksAsWritten' /\ NotesBelong' /\ NotesHadSubject'
  BY DEF FiledInv, schoolVars, rosterVars, noteVars, ReportsTypeOK, RosterTypeOK, GradesTypeOK,
         NotesTypeOK, MarksAsWritten, Filled, Here, NotesBelong, NotesHadSubject, ListNotes,
         MayReach, FindStudent, FindLesson
<1>2. topic # "office" => RequestsTyped' /\ \A r \in Requests : MarkFits(r)' /\ NoteFits(r)'
  BY DEF FiledInv, RequestsTyped, MarkFits, NoteFits, At, noteVars
<1> QED BY <1>1, <1>2 DEF FiledInv

LEMMA FiledInit ==
  ASSUME Init
  PROVE  FiledInv
<1>1. RequestsInit /\ ReportsInit /\ NotesInit(For("notes", {Kept}, <<>>))
  BY DEF Init
<1>2. ReportsTypeOK
  <2>1. RosterTypeOK
    BY <1>1, RosterAssumption
       DEF ReportsInit, RosterInit, RosterTypeOK, Blank, Cell, LessonStatus, RowIds
  <2>2. GradesTypeOK
    BY <1>1, GradesAssumption DEF ReportsInit, GradesInit, GradesTypeOK, GradeIds
  <2> QED BY <1>1, <2>1, <2>2, ReportsAssumption DEF ReportsInit, ReportsTypeOK
<1>3. MarksAsWritten
  <2>1. ASSUME NEW g \in Filled
        PROVE  g \in DOMAIN Filed /\ grade[g] = Filed[g]
    BY <1>1 DEF ReportsInit, GradesInit, Filled, GradeIds
  <2>2. \A x \in RowIds : x \in Seeded => Here(x)
    BY <1>1 DEF ReportsInit, RosterInit, Here
  <2>3. ASSUME NEW g \in DOMAIN Filed
        PROVE  /\ Filed[g].student \in Students /\ Filed[g].student \in Seeded
               /\ Filed[g].lesson # None => Filed[g].lesson \in Lessons /\ Filed[g].lesson \in Seeded
    BY GradesAssumption DEF Row, RowIds
  <2> QED BY <2>1, <2>2, <2>3, GradesAssumption DEF MarksAsWritten, RowIds
<1>4. \A n \in NoteIds :
        /\ note[n] = taken[n] /\ removedBy[n] = None
        /\ taken[n] # None => n \notin Requests /\ taken[n] \in NoteRow /\ taken[n].about \in Seeded
  BY <1>1, NotesAssumption DEF NotesInit, For
<1>5. NotesTypeOK
  BY <1>1, <1>4 DEF NotesInit, NotesTypeOK
<1>6. AllBelong
  BY <1>1, <1>4, RosterAssumption DEF ReportsInit, RosterInit, Here, AllBelong, NoteBelongs
<1>7. RequestsTyped /\ \A r \in Requests : MarkFits(r) /\ NoteFits(r)
  <2>1. \A r \in Requests : pc[r] = "idle" /\ r \in NoteIds
    BY <1>1 DEF RequestsInit, NoteIds
  <2>2. \A r \in Requests : taken[r] = None /\ note[r] = None /\ removedBy[r] = None
    BY <1>4, <2>1
  <2> QED BY <1>1, <2>1, <2>2
          DEF RequestsInit, RequestsTyped, Teaching, MarkFits, NoteFits, At
<1> QED BY <1>2, <1>3, <1>5, <1>6, <1>7, NotesOneByOne DEF FiledInv

LEMMA FiledNext ==
  ASSUME FiledInv, [Next]_vars
  PROVE  FiledInv'
<1>1. CASE InOffice /\ UNCHANGED topic
  BY <1>1, FiledStays DEF InOffice
<1>2. CASE (InSettings \/ AtBoot \/ AtTheDoor) /\ UNCHANGED topic
  BY <1>2, FiledStays DEF InSettings, AtBoot, AtTheDoor
<1>3. CASE School /\ UNCHANGED topic
  BY <1>3, ChangeFits DEF School
<1>4. ASSUME NEW r \in Requests, Mark(r), UNCHANGED topic
      PROVE  FiledInv'
  BY <1>4, MarksKeep DEF Mark
<1>5. ASSUME NEW r \in Requests, Remark(r), UNCHANGED topic
      PROVE  FiledInv'
  BY <1>5, NotesKeep DEF Remark
<1>6. ASSUME NEW r \in Requests, Reader(r), UNCHANGED topic
      PROVE  FiledInv'
  BY <1>6, ReadingKeeps DEF Reader
<1>7. CASE UNCHANGED vars
  BY <1>7, FiledStays DEF vars
<1> QED BY <1>1, <1>2, <1>3, <1>4, <1>5, <1>6, <1>7 DEF Next

\* The inductive invariant of what tutors file.
THEOREM FiledInvariant == Spec => []FiledInv
<1>1. Init => FiledInv
  BY FiledInit
<1>2. FiledInv /\ [Next]_vars => FiledInv'
  BY FiledNext
<1> QED BY <1>1, <1>2, PTL DEF Spec

\* A mark is, whole, one that was sent, on its scale and its student's; a note reads
\* as it was written to all who may see what it is about, and ends only with that
\* or by its author's or an admin's hand (GradebookService, NotesService).
THEOREM FiledAsSent == Spec => []FiledAsWritten
<1>1. FiledInv => FiledAsWritten
  BY DEF FiledInv, FiledAsWritten
<1> QED BY <1>1, FiledInvariant, PTL

-----------------------------------------------------------------------------
(* Debtors.  What was read of a student is what they still have while the    *)
(* school stands still; and who has owed lessons all along was already there *)
(* to be read.                                                               *)

DebtorFields == {"scope", "atOrBelow", "students", "own", "inGroups", "lastTaught"}

WantedBy(seen) ==
  {s \in Students : Here(s) /\ Counts(seen.scope, TutorOf[s]) /\ left[s] <= seen.atOrBelow}

OwnLessons(s) == {l \in Lessons : Upcoming(l) /\ AudienceOf[l] = s}

GroupLessons(s) ==
  {l \in Lessons : Upcoming(l) /\ AudienceOf[l] \in Groups /\ s \in members[AudienceOf[l]]}

\* The students were read before anything else was.
StudentsRead(seen, r) ==
  /\ seen.students = [s \in DOMAIN seen.students |-> seen.students[s]]
  /\ \A s \in DOMAIN seen.students :
       s \in Students /\ seen.students[s] \in Int /\ Counts(seen.scope, TutorOf[s])
  /\ seen.atOrBelow >= 0 =>
       \A s \in owing[r] :
         Counts(seen.scope, TutorOf[s]) => s \in DOMAIN seen.students /\ seen.students[s] < 0
  /\ r \in fresh =>
       /\ DOMAIN seen.students = WantedBy(seen)
       /\ \A s \in DOMAIN seen.students : seen.students[s] = left[s]

OwnRead(seen, r) ==
  /\ seen.students # None
  /\ \A s \in DOMAIN seen.students :
       seen.own[s] \in Nat /\ (r \in fresh => seen.own[s] = Cardinality(OwnLessons(s)))

GroupsRead(seen, r) ==
  /\ seen.students # None
  /\ \A s \in DOMAIN seen.students :
       seen.inGroups[s] \in Nat /\ (r \in fresh => seen.inGroups[s] = Cardinality(GroupLessons(s)))

SoFar(seen, r) ==
  /\ seen = [f \in DebtorFields |-> seen[f]]
  /\ seen.atOrBelow \in Int
  /\ seen.students # None => StudentsRead(seen, r)
  /\ seen.own # None => OwnRead(seen, r)
  /\ seen.inGroups # None => GroupsRead(seen, r)

ToCome(s) == OwnLessons(s) \cup GroupLessons(s)

\* DebtorsAgree, of one answer.
Agrees(answer, r) ==
  /\ answer.atOrBelow >= 0 =>
       \A s \in owing[r] : s \in Students /\ Counts(answer.scope, TutorOf[s]) =>
         s \in DOMAIN answer.rows /\ answer.rows[s].lessonsOwed > 0
  /\ r \in fresh =>
       /\ DOMAIN answer.rows = {s \in WantedBy(answer) : left[s] < 0 \/ ToCome(s) # {}}
       /\ \A s \in DOMAIN answer.rows : answer.rows[s].lessonsBooked = Cardinality(ToCome(s))

DebtorFits(r) ==
  /\ \A seen : seen = input[r] =>
       /\ At(r, "debtors") => SoFar(seen, r)
       /\ At(r, "listed") => Agrees(seen, r)
  /\ pc[r] \in {"report", "debtors"} => owing[r] \subseteq InDebt

DebtorsInv == \A r \in Requests : DebtorFits(r)

LEMMA MaxWithZero ==
  ASSUME NEW n \in Int
  PROVE  Max({0, n}) \in Int /\ (Max({0, n}) > 0 <=> n > 0)
<1>1. \E x \in {0, n} : \A y \in {0, n} : x >= y
  OBVIOUS
<1>2. PICK m \in {0, n} : m = Max({0, n}) /\ \A y \in {0, n} : m >= y
  BY <1>1 DEF Max
<1> QED BY <1>2

\* The lessons to come are a student's own and their groups', none of them both.
LEMMA LessonsCounted ==
  ASSUME RosterTypeOK, NEW s \in Students
  PROVE  /\ Cardinality(OwnLessons(s)) \in Nat /\ Cardinality(GroupLessons(s)) \in Nat
         /\ Cardinality(ToCome(s)) = Cardinality(OwnLessons(s)) + Cardinality(GroupLessons(s))
         /\ Cardinality(ToCome(s)) > 0 <=> ToCome(s) # {}
         /\ ToCome(s) = {l \in LessonsWith(s) : status[l] = "SCHEDULED" /\ Day[l] >= Today}
<1>1. OwnLessons(s) \cup GroupLessons(s) \subseteq Lessons /\ OwnLessons(s) \cap GroupLessons(s) = {}
  BY RosterAssumption DEF OwnLessons, GroupLessons
<1>2. /\ IsFiniteSet(OwnLessons(s)) /\ IsFiniteSet(GroupLessons(s)) /\ IsFiniteSet(ToCome(s))
  BY <1>1, RosterAssumption, FS_Subset DEF ToCome
<1>3. Cardinality(OwnLessons(s)) \in Nat /\ Cardinality(GroupLessons(s)) \in Nat
  BY <1>2, FS_CardinalityType
<1>4. Cardinality(ToCome(s)) \in Nat /\ (Cardinality(ToCome(s)) = 0 <=> ToCome(s) = {})
  BY <1>2, FS_CardinalityType, FS_EmptySet
<1>5. Cardinality(ToCome(s)) = Cardinality(OwnLessons(s)) + Cardinality(GroupLessons(s))
  <2>1. Cardinality(ToCome(s)) =
          Cardinality(OwnLessons(s)) + Cardinality(GroupLessons(s)) - Cardinality({})
    BY <1>1, <1>2, FS_Union DEF ToCome
  <2>2. Cardinality({}) = 0
    BY FS_EmptySet
  <2> QED BY <1>3, <2>1, <2>2
<1>6. Cardinality(ToCome(s)) > 0 <=> ToCome(s) # {}
  BY <1>4
<1>7. ToCome(s) = {l \in LessonsWith(s) : status[l] = "SCHEDULED" /\ Day[l] >= Today}
  BY RosterAssumption DEF ToCome, OwnLessons, GroupLessons, Upcoming, LessonsWith, StudentIdsFor
<1> QED BY <1>3, <1>5, <1>6, <1>7

LEMMA StillSo ==
  ASSUME NEW r \in Requests, NEW seen,
         UNCHANGED rosterVars, r \in fresh' => r \in fresh, owing'[r] = owing[r]
  PROVE  /\ SoFar(seen, r) => SoFar(seen, r)'
         /\ Agrees(seen, r) => Agrees(seen, r)'
         /\ InDebt' = InDebt
<1>1. /\ \A s : OwnLessons(s)' = OwnLessons(s) /\ GroupLessons(s)' = GroupLessons(s)
      /\ WantedBy(seen)' = WantedBy(seen) /\ InDebt' = InDebt /\ left' = left
  BY DEF rosterVars, OwnLessons, GroupLessons, Upcoming, Here, WantedBy, InDebt
<1>2. \A s : ToCome(s)' = ToCome(s)
  BY <1>1 DEF ToCome
<1>3. SoFar(seen, r) => SoFar(seen, r)'
  BY <1>1 DEF SoFar, StudentsRead, OwnRead, GroupsRead
<1>4. Agrees(seen, r) => Agrees(seen, r)'
  <2>1. {s \in WantedBy(seen)' : left'[s] < 0 \/ ToCome(s)' # {}} =
          {s \in WantedBy(seen) : left[s] < 0 \/ ToCome(s) # {}}
    BY <1>1, <1>2
  <2> QED BY <1>2, <2>1 DEF Agrees
<1> QED BY <1>1, <1>3, <1>4

\* What one request reads is nothing to another.
LEMMA DebtorStays ==
  ASSUME NEW r \in Requests, DebtorFits(r), pc'[r] = pc[r], input'[r] = input[r],
         UNCHANGED rosterVars, r \in fresh' => r \in fresh, owing'[r] = owing[r]
  PROVE  DebtorFits(r)'
<1>1. PICK seen : seen = input[r]
  OBVIOUS
<1> QED BY <1>1, StillSo DEF DebtorFits, At

\* Once the school changes, an answer is held only to those who owe throughout.
LEMMA DebtorOutlives ==
  ASSUME NEW r \in Requests, DebtorFits(r), ReportsTypeOK, NEW change, Write(change)
  PROVE  DebtorFits(r)'
<1>1. PICK seen : seen = input[r]
  OBVIOUS
<1>2. /\ pc'[r] = pc[r] /\ input'[r] = input[r] /\ fresh' = {}
      /\ owing'[r] = IF r \in Reading THEN owing[r] \cap InDebt' ELSE owing[r]
  BY DEF Write
<1>3. owing'[r] \subseteq owing[r] /\ (pc[r] \in {"report", "debtors"} => owing'[r] \subseteq InDebt')
  BY <1>2 DEF Reading
<1>4. SoFar(seen, r) => SoFar(seen, r)'
  BY <1>2, <1>3 DEF SoFar, StudentsRead, OwnRead, GroupsRead
<1>5. Agrees(seen, r) => Agrees(seen, r)'
  BY <1>2, <1>3 DEF Agrees
<1> QED BY <1>1, <1>2, <1>3, <1>4, <1>5 DEF DebtorFits, At

\* A request that has asked, and one that has read nothing but its question.
LEMMA AskedFits ==
  ASSUME NEW r \in Requests, RequestsTyped, ReportsTypeOK,
         NEW u \in Users, NEW q \in Queries, NEW t \in Thresholds, AskDebtors(r, u, q, t)
  PROVE  DebtorFits(r)'
<1>1. PICK seen : seen = [scope |-> TutorScope(u, q),
                          atOrBelow |-> IF t = None THEN DEFAULT_AT_OR_BELOW ELSE t,
                          students |-> None, own |-> None, inGroups |-> None, lastTaught |-> None]
  OBVIOUS
<1>2. /\ pc'[r] = "debtors" /\ input'[r] = seen /\ owing'[r] = InDebt
      /\ UNCHANGED rosterVars
  BY <1>1, TakesUp DEF AskDebtors, Ask, Teaching, ReportsTypeOK
<1>3. seen.atOrBelow \in Int /\ seen = [f \in DebtorFields |-> seen[f]]
  BY <1>1, DebtorsAssumption DEF DebtorFields
<1>4. SoFar(seen, r)'
  BY <1>1, <1>3 DEF SoFar
<1>5. owing'[r] \subseteq InDebt'
  BY <1>2 DEF InDebt, Here, rosterVars
<1> QED BY <1>2, <1>4, <1>5 DEF DebtorFits, At

\* One statement fills in one field.
LEMMA FieldRead ==
  ASSUME NEW r \in Requests, RequestsTyped, DebtorFits(r), At(r, "debtors"),
         NEW field \in DebtorFields, NEW value, Read(r, field, value),
         NEW before, before = input[r],
         NEW seen, seen = [f \in DebtorFields |-> IF f = field THEN value ELSE before[f]]
  PROVE  /\ before[field] = None /\ SoFar(before, r) /\ owing[r] \subseteq InDebt
         /\ SoFar(seen, r) => DebtorFits(r)'
<1>1. /\ before[field] = None /\ SoFar(before, r) /\ owing[r] \subseteq InDebt
      /\ pc[r] = "debtors"
  BY DEF Read, DebtorFits, At
<1>2. before = [f \in DebtorFields |-> before[f]]
  BY <1>1 DEF SoFar
<1>3. input'[r] = seen /\ UNCHANGED <<pc, rosterVars, fresh, owing>>
  <2>1. r \in DOMAIN input /\ input' = [input EXCEPT ![r][field] = value]
    BY DEF Read, RequestsTyped
  <2>2. input'[r] = [before EXCEPT ![field] = value]
    BY <2>1
  <2> QED BY <1>2, <2>2 DEF Read, schoolVars
<1>4. ASSUME SoFar(seen, r)
      PROVE  DebtorFits(r)'
  <2>1. SoFar(seen, r)' /\ InDebt' = InDebt
    BY <1>3, <1>4, StillSo
  <2> QED BY <1>1, <1>3, <2>1 DEF DebtorFits, At
<1> QED BY <1>1, <1>4

LEMMA StudentsFit ==
  ASSUME NEW r \in Requests, RequestsTyped, ReportsTypeOK, DebtorFits(r), ReadStudents(r)
  PROVE  DebtorFits(r)'
<1> DEFINE value == [s \in Wanted(r) |-> left[s]]
           before == input[r]
           seen == [f \in DebtorFields |-> IF f = "students" THEN value ELSE before[f]]
<1>1. /\ before.students = None /\ SoFar(before, r) /\ owing[r] \subseteq InDebt
      /\ SoFar(seen, r) => DebtorFits(r)'
  <2>1. At(r, "debtors") /\ Read(r, "students", value)
    BY DEF ReadStudents
  <2> HIDE DEF value
  <2> QED BY <2>1, FieldRead DEF DebtorFields
<1>2. /\ seen.scope = before.scope /\ seen.atOrBelow = before.atOrBelow /\ seen.students = value
      /\ seen.own = None /\ seen.inGroups = None
  BY <1>1 DEF SoFar, OwnRead, GroupsRead, DebtorFields
<1>3. WantedBy(seen) = Wanted(r) /\ WantedBy(seen) \subseteq Students
  BY <1>2 DEF WantedBy, Wanted
<1>4. \A s \in owing[r] : s \in Students /\ Here(s) /\ left[s] \in Int /\ left[s] < 0
  BY <1>1 DEF InDebt, ReportsTypeOK, RosterTypeOK
<1>5. StudentsRead(seen, r)
  <2>1. \A s \in WantedBy(seen) : s \in Students /\ left[s] \in Int /\ Counts(seen.scope, TutorOf[s])
    BY DEF WantedBy, ReportsTypeOK, RosterTypeOK
  <2>2. ASSUME seen.atOrBelow >= 0, NEW s \in owing[r], Counts(seen.scope, TutorOf[s])
        PROVE  s \in WantedBy(seen) /\ left[s] < 0
    <3>1. seen.atOrBelow \in Int
      BY <1>1, <1>2 DEF SoFar
    <3>2. left[s] <= seen.atOrBelow
      BY <1>4, <2>2, <3>1
    <3> QED BY <1>4, <2>2, <3>2 DEF WantedBy
  <2>3. DOMAIN seen.students = WantedBy(seen) /\ \A s \in WantedBy(seen) : seen.students[s] = left[s]
    BY <1>2, <1>3
  <2>4. seen.students = [s \in DOMAIN seen.students |-> seen.students[s]]
    BY <1>2
  <2> HIDE DEF seen, value
  <2> QED BY <2>1, <2>2, <2>3, <2>4 DEF StudentsRead
<1>6. seen = [f \in DebtorFields |-> seen[f]] /\ seen.atOrBelow \in Int
  BY <1>1, <1>2 DEF SoFar
<1> HIDE DEF seen, value
<1> QED BY <1>1, <1>2, <1>5, <1>6 DEF SoFar

\* A count is read for those who were wanted.
LEMMA CountsFit ==
  ASSUME NEW r \in Requests, RequestsTyped, ReportsTypeOK, DebtorFits(r),
         CountOwn(r) \/ CountInGroups(r) \/ ReadLastTaught(r)
  PROVE  DebtorFits(r)'
<1> DEFINE before == input[r]
           own == Restrict([s \in Students |-> Cardinality(OwnLessons(s))], DOMAIN before.students)
           inGroups == Restrict([s \in Students |-> Cardinality(GroupLessons(s))], DOMAIN before.students)
           Filling(field, value) == [f \in DebtorFields |-> IF f = field THEN value ELSE before[f]]
<1>1. ASSUME NEW field \in {"own", "inGroups", "lastTaught"}, NEW value, NEW seen, seen = Filling(field, value),
             At(r, "debtors"), before.students # None, Read(r, field, value),
             field = "own" => value = own, field = "inGroups" => value = inGroups
      PROVE  DebtorFits(r)'
  <2>1. /\ before[field] = None /\ SoFar(before, r)
        /\ SoFar(seen, r) => DebtorFits(r)'
    BY <1>1, FieldRead DEF DebtorFields
  <2>2. /\ seen.scope = before.scope /\ seen.atOrBelow = before.atOrBelow
        /\ seen.students = before.students /\ seen = [f \in DebtorFields |-> seen[f]]
        /\ seen.own = IF field = "own" THEN own ELSE before.own
        /\ seen.inGroups = IF field = "inGroups" THEN inGroups ELSE before.inGroups
    BY <1>1 DEF DebtorFields
  <2>3. StudentsRead(before, r) /\ (before.own # None => OwnRead(before, r))
          /\ (before.inGroups # None => GroupsRead(before, r)) /\ before.atOrBelow \in Int
    BY <1>1, <2>1 DEF SoFar
  <2>4. StudentsRead(seen, r)
    BY <2>2, <2>3 DEF StudentsRead, WantedBy
  <2>5. \A s \in DOMAIN before.students :
          /\ own[s] = Cardinality(OwnLessons(s)) /\ inGroups[s] = Cardinality(GroupLessons(s))
          /\ own[s] \in Nat /\ inGroups[s] \in Nat
    <3>1. \A s \in DOMAIN before.students : s \in Students
      BY <2>3 DEF StudentsRead
    <3> QED BY <3>1, LessonsCounted DEF Restrict, ReportsTypeOK
  <2>6. seen.own # None => OwnRead(seen, r)
    BY <1>1, <2>2, <2>3, <2>5 DEF OwnRead
  <2>7. seen.inGroups # None => GroupsRead(seen, r)
    BY <1>1, <2>2, <2>3, <2>5 DEF GroupsRead
  <2> QED BY <2>1, <2>2, <2>3, <2>4, <2>6, <2>7 DEF SoFar
<1>2. CASE CountOwn(r)
  <2>1. At(r, "debtors") /\ before.students # None /\ Read(r, "own", own)
    BY <1>2 DEF CountOwn, ReadPerStudent, OwnLessons
  <2> HIDE DEF own
  <2> QED BY <1>1, <2>1
<1>3. CASE CountInGroups(r)
  <2>1. At(r, "debtors") /\ before.students # None /\ Read(r, "inGroups", inGroups)
    BY <1>3 DEF CountInGroups, ReadPerStudent, GroupLessons
  <2> HIDE DEF inGroups
  <2> QED BY <1>1, <2>1
<1>4. CASE ReadLastTaught(r)
  <2>1. PICK value : At(r, "debtors") /\ before.students # None /\ Read(r, "lastTaught", value)
    BY <1>4 DEF ReadLastTaught, ReadPerStudent
  <2> QED BY <1>1, <2>1
<1> QED BY <1>2, <1>3, <1>4

LEMMA AnswerFits ==
  ASSUME NEW r \in Requests, RequestsTyped, ReportsTypeOK, DebtorFits(r),
         AnswerDebtors(r) \/ AnswerNobody(r)
  PROVE  DebtorFits(r)'
<1> DEFINE seen == input[r]
<1>1. SoFar(seen, r) /\ StudentsRead(seen, r) /\ seen.atOrBelow \in Int
  BY DEF AnswerDebtors, AnswerNobody, DebtorFits, SoFar
<1>2. ASSUME NEW answer, Take(r, answer, "listed"), UNCHANGED schoolVars, Agrees(answer, r)
      PROVE  DebtorFits(r)'
  <2>1. pc'[r] = "listed" /\ input'[r] = answer
    BY <1>2, TakesUp DEF Teaching
  <2>2. UNCHANGED <<rosterVars, fresh, owing>>
    BY <1>2 DEF schoolVars
  <2>3. Agrees(answer, r)'
    BY <1>2, <2>2, StillSo
  <2> QED BY <2>1, <2>3 DEF DebtorFits, At
<1>3. \A answer : answer.scope = seen.scope /\ answer.atOrBelow = seen.atOrBelow =>
        WantedBy(answer) = WantedBy(seen)
  BY DEF WantedBy
<1>4. ASSUME AnswerDebtors(r)
      PROVE  DebtorFits(r)'
  <2> DEFINE rows == [s \in DOMAIN seen.students |-> Debtor(seen, s)]
             answer == [scope |-> seen.scope, atOrBelow |-> seen.atOrBelow,
                        rows |-> Restrict(rows, {s \in DOMAIN rows : Listed(rows[s])})]
  <2>1. Take(r, answer, "listed") /\ UNCHANGED schoolVars
    BY <1>4 DEF AnswerDebtors
  <2>2. OwnRead(seen, r) /\ GroupsRead(seen, r)
    BY <1>1, <1>4 DEF AnswerDebtors, SoFar
  <2>3. ASSUME NEW s \in DOMAIN seen.students
        PROVE  /\ s \in Students /\ seen.students[s] \in Int
               /\ seen.own[s] \in Nat /\ seen.inGroups[s] \in Nat
    BY <1>1, <2>2 DEF StudentsRead, OwnRead, GroupsRead
  <2>4. ASSUME NEW s \in DOMAIN seen.students
        PROVE  /\ rows[s].lessonsOwed > 0 <=> seen.students[s] < 0
               /\ rows[s].lessonsBooked = seen.own[s] + seen.inGroups[s]
    <3>1. rows[s].lessonsOwed = Max({0, -seen.students[s]})
           /\ rows[s].lessonsBooked = seen.own[s] + seen.inGroups[s]
      BY DEF Debtor
    <3>2. -seen.students[s] \in Int /\ (-seen.students[s] > 0 <=> seen.students[s] < 0)
      BY <2>3
    <3> QED BY <3>1, <3>2, MaxWithZero
  <2>5. /\ answer.scope = seen.scope /\ answer.atOrBelow = seen.atOrBelow
        /\ DOMAIN answer.rows = {s \in DOMAIN seen.students : Listed(rows[s])}
        /\ \A s \in DOMAIN answer.rows : answer.rows[s] = rows[s]
    BY DEF Restrict
  <2>6. WantedBy(answer) = WantedBy(seen)
    BY <1>3, <2>5
  <2>7. ASSUME answer.atOrBelow >= 0, NEW s \in owing[r], Counts(answer.scope, TutorOf[s])
        PROVE  s \in DOMAIN answer.rows /\ answer.rows[s].lessonsOwed > 0
    <3>1. s \in DOMAIN seen.students /\ seen.students[s] < 0
      BY <1>1, <2>5, <2>7 DEF StudentsRead
    <3>2. rows[s].lessonsOwed > 0
      BY <2>4, <3>1
    <3> HIDE DEF rows, answer
    <3> QED BY <2>5, <3>1, <3>2 DEF Listed
  <2>8. ASSUME r \in fresh, NEW s \in DOMAIN seen.students
        PROVE  /\ rows[s].lessonsBooked = Cardinality(ToCome(s))
               /\ Listed(rows[s]) <=> left[s] < 0 \/ ToCome(s) # {}
    <3>1. seen.students[s] = left[s] /\ seen.own[s] = Cardinality(OwnLessons(s))
            /\ seen.inGroups[s] = Cardinality(GroupLessons(s))
      BY <1>1, <2>2, <2>8 DEF StudentsRead, OwnRead, GroupsRead
    <3>2. /\ Cardinality(ToCome(s)) = Cardinality(OwnLessons(s)) + Cardinality(GroupLessons(s))
          /\ Cardinality(ToCome(s)) > 0 <=> ToCome(s) # {}
      BY <2>3, LessonsCounted DEF ReportsTypeOK
    <3>3. rows[s].lessonsBooked = Cardinality(ToCome(s))
      BY <2>4, <3>1, <3>2
    <3>4. Listed(rows[s]) <=> left[s] < 0 \/ Cardinality(ToCome(s)) > 0
      BY <2>4, <3>1, <3>3 DEF Listed
    <3> QED BY <3>2, <3>3, <3>4
  <2>9. ASSUME r \in fresh
        PROVE  /\ DOMAIN answer.rows = {s \in WantedBy(answer) : left[s] < 0 \/ ToCome(s) # {}}
               /\ \A s \in DOMAIN answer.rows : answer.rows[s].lessonsBooked = Cardinality(ToCome(s))
    <3>1. DOMAIN seen.students = WantedBy(answer)
      BY <1>1, <2>6, <2>9 DEF StudentsRead
    <3> HIDE DEF rows, answer
    <3> QED BY <2>5, <2>8, <2>9, <3>1
  <2> HIDE DEF rows, answer
  <2>10. Agrees(answer, r)
    BY <2>7, <2>9 DEF Agrees
  <2> QED BY <1>2, <2>1, <2>10
<1>5. ASSUME AnswerNobody(r)
      PROVE  DebtorFits(r)'
  <2> DEFINE answer == [scope |-> seen.scope, atOrBelow |-> seen.atOrBelow, rows |-> seen.students]
  <2>1. Take(r, answer, "listed") /\ UNCHANGED schoolVars /\ DOMAIN seen.students = {}
    BY <1>5 DEF AnswerNobody
  <2>2. WantedBy(answer) = WantedBy(seen)
    BY <1>3
  <2>3. Agrees(answer, r)
    BY <1>1, <2>1, <2>2 DEF StudentsRead, Agrees
  <2> HIDE DEF answer
  <2> QED BY <1>2, <2>1, <2>3
<1> QED BY <1>4, <1>5

\* A report is no list of debtors.
LEMMA ReportFits ==
  ASSUME NEW r \in Requests, RequestsTyped, ReportsTypeOK, DebtorFits(r), ReportsNext(r)
  PROVE  DebtorFits(r)'
<1>1. ASSUME NEW u \in Users, NEW q \in Queries, AskReport(r, u, q)
      PROVE  DebtorFits(r)'
  <2>1. PICK value : Ask(r, value, "report")
    BY <1>1 DEF AskReport
  <2>2. pc'[r] = "report" /\ owing'[r] = InDebt /\ UNCHANGED rosterVars
    BY <2>1, TakesUp DEF Ask, Teaching, ReportsTypeOK
  <2>3. owing'[r] \subseteq InDebt'
    BY <2>2 DEF InDebt, Here, rosterVars
  <2> QED BY <2>2, <2>3 DEF DebtorFits, At
<1>2. ASSUME ReadLessons(r) \/ ReadRegister(r) \/ ReadGrades(r) \/ CountStudentsTaught(r)
      PROVE  DebtorFits(r)'
  <2>1. pc[r] = "report" /\ UNCHANGED <<pc, schoolVars>>
    BY <1>2 DEF ReadLessons, ReadRegister, ReadGrades, CountStudentsTaught, Read, At
  <2>2. owing'[r] = owing[r] /\ InDebt' = InDebt
    BY <2>1 DEF schoolVars, rosterVars, InDebt, Here
  <2> QED BY <2>1, <2>2 DEF DebtorFits, At
<1>3. CASE AnswerReport(r)
  <2>1. PICK value : Take(r, value, "reported")
    BY <1>3 DEF AnswerReport
  <2>2. pc'[r] = "reported"
    BY <2>1, TakesUp DEF Teaching
  <2> QED BY <2>2 DEF DebtorFits, At
<1> QED BY <1>1, <1>2, <1>3 DEF ReportsNext, ReportsContinue

\* Nor is anything that files.
LEMMA FilersMove ==
  ASSUME RequestsTyped, NEW r \in Requests, MarksNext(r) \/ NotesNext(r)
  PROVE  /\ pc'[r] \notin ReadingAt
         /\ \A q \in Requests \ {r} : pc'[q] = pc[q] /\ input'[q] = input[q]
<1> DEFINE files == {"over", "filing", "correcting", "removing", "writing", "erasing"}
<1>1. ASSUME NEW value, NEW p \in files, Take(r, value, p)
      PROVE  /\ pc'[r] \notin ReadingAt
             /\ \A q \in Requests \ {r} : pc'[q] = pc[q] /\ input'[q] = input[q]
  BY <1>1, TakesUp DEF Teaching, ReadingAt
<1>2. ASSUME NEW u \in Users, NEW p \in Payloads, NEW s \in Students, AddForStudent(r, u, s, p)
      PROVE  \E value : Take(r, value, "filing")
  BY <1>2 DEF AddForStudent
<1>3. ASSUME NEW u \in Users, NEW p \in Payloads, NEW l \in Lessons, NEW named, AddForLesson(r, u, l, named, p)
      PROVE  \E value : Take(r, value, "filing")
  BY <1>3 DEF AddForLesson
<1>4. ASSUME NEW u \in Users, NEW p \in Payloads, NEW g \in GradeIds, Correct(r, u, g, p)
      PROVE  \E value : Take(r, value, "correcting")
  BY <1>4 DEF Correct
<1>5. ASSUME NEW u \in Users, NEW g \in GradeIds, RemoveGrade(r, u, g)
      PROVE  \E value : Take(r, value, "removing")
  BY <1>5 DEF RemoveGrade
<1>6. ASSUME NEW u \in Users, NEW x \in About, AddNote(r, u, x)
      PROVE  \E value : Take(r, value, "writing")
  BY <1>6 DEF AddNote
<1>7. ASSUME NEW u \in Users, NEW n \in NoteIds, RemoveNote(r, u, n)
      PROVE  \E value : Take(r, value, "erasing")
  BY <1>7 DEF RemoveNote
<1>8. ASSUME MarksContinue(r) \/ NotesContinue(r)
      PROVE  \E value : Take(r, value, "over")
  BY <1>8 DEF MarksContinue, SaveMark, SaveCorrection, DeleteMark, NotesContinue, SaveNote, EraseNote, Finish
<1>9. \E p \in files : \E value : Take(r, value, p)
  BY <1>2, <1>3, <1>4, <1>5, <1>6, <1>7, <1>8 DEF MarksNext, NotesNext
<1> QED BY <1>1, <1>9

LEMMA DebtorsInit ==
  ASSUME Init
  PROVE  DebtorsInv
BY DEF Init, RequestsInit, ReportsInit, DebtorsInv, DebtorFits, At

LEMMA DebtorsKeep ==
  ASSUME DebtorsInv, FiledInv, OfficeHolds', [Next]_vars
  PROVE  DebtorsInv'
<1>1. CASE topic = "office"
  <2>1. \A r \in Requests : pc'[r] \in Statements
    <3>1. topic' = "office"
      BY <1>1, OfficeApart
    <3>2. RequestsFit'
      BY <3>1 DEF OfficeHolds, OfficeInv
    <3> QED BY <3>2 DEF RequestsFit
  <2>2. \A p \in Statements : p \notin {"report", "debtors", "listed"}
    BY Zenon DEF Statements, AtMembers, AtDevices, AtSubjects, AtSupport
  <2>3. ASSUME NEW r \in Requests
        PROVE  DebtorFits(r)'
    BY <2>1, <2>2 DEF DebtorFits, At
  <2> QED BY <2>3 DEF DebtorsInv
<1>2. ASSUME topic # "office"
      PROVE  RequestsTyped /\ ReportsTypeOK
  BY <1>2 DEF FiledInv
<1>3. ASSUME UNCHANGED <<pc, input, schoolVars>>
      PROVE  DebtorsInv'
  BY <1>3, DebtorStays DEF DebtorsInv, schoolVars
<1>4. CASE School
  BY <1>4, DebtorOutlives DEF School, FiledInv, DebtorsInv
<1>5. ASSUME topic # "office", NEW r \in Requests, Mark(r) \/ Remark(r)
      PROVE  DebtorsInv'
  <2>1. /\ pc'[r] \notin ReadingAt
        /\ \A q \in Requests \ {r} : pc'[q] = pc[q] /\ input'[q] = input[q]
    BY <1>2, <1>5, FilersMove DEF Mark, Remark
  <2>2. UNCHANGED <<rosterVars, fresh, owing>>
    BY <1>5 DEF Mark, Remark, schoolVars
  <2>3. DebtorFits(r)'
    BY <2>1 DEF DebtorFits, At, ReadingAt
  <2> QED BY <2>1, <2>2, <2>3, DebtorStays DEF DebtorsInv
<1>6. ASSUME topic # "office", NEW r \in Requests, Reader(r)
      PROVE  DebtorsInv'
  <2>1. ReportsNext(r) \/ DebtorsNext(r)
    BY <1>6 DEF Reader
  <2>2. /\ \A q \in Requests \ {r} : pc'[q] = pc[q] /\ input'[q] = input[q]
        /\ UNCHANGED rosterVars
        /\ \/ UNCHANGED <<fresh, owing>>
           \/ fresh' = fresh \cup {r} /\ owing' = [owing EXCEPT ![r] = InDebt]
    BY <1>2, <1>6, <2>1, ReaderMoves
  <2>3. \A q \in Requests \ {r} : (q \in fresh' => q \in fresh) /\ owing'[q] = owing[q]
    BY <1>2, <1>6, <2>2 DEF ReportsTypeOK
  <2>4. DebtorFits(r)'
    BY <1>2, <1>6, <2>1, AskedFits, StudentsFit, CountsFit, AnswerFits, ReportFits
       DEF DebtorsNext, DebtorsContinue, DebtorsInv
  <2> QED BY <2>2, <2>3, <2>4, DebtorStays DEF DebtorsInv
<1>7. CASE InSettings \/ AtBoot \/ AtTheDoor \/ UNCHANGED vars
  BY <1>3, <1>7 DEF InSettings, AtBoot, AtTheDoor, vars
<1>8. CASE InOffice
  BY <1>1, <1>8 DEF InOffice
<1> QED BY <1>1, <1>4, <1>5, <1>6, <1>7, <1>8 DEF Next

\* The inductive invariant of who has run out of paid lessons.
THEOREM DebtorsInvariant == Spec => []DebtorsInv
<1>1. Init => DebtorsInv
  BY DebtorsInit
<1>2. DebtorsInv /\ FiledInv /\ OfficeHolds' /\ [Next]_vars => DebtorsInv'
  BY DebtorsKeep
<1> QED BY <1>1, <1>2, FiledInvariant, OfficeInvariant, PTL DEF Spec

ComingOf(ls) == {l \in ls : status[l] = "SCHEDULED" /\ Day[l] >= Today}

\* A page that leaves out a lesson to come is full, of lessons no older than it.
LEMMA PageShows ==
  ASSUME NEW s \in Students, NEW page \in FindForStudent(s)
  PROVE  \/ ComingOf(page) = ComingOf(LessonsWith(s))
         \/ /\ Cardinality(page) = HISTORY_LIMIT
            /\ \A l \in page : Day[l] >= Today
<1> DEFINE all == LessonsWith(s)
<1>1. /\ page \subseteq all
      /\ Cardinality(page) = Min({Cardinality(all), HISTORY_LIMIT})
      /\ \A l \in page, k \in all \ page : Day[k] <= Day[l]
  BY DEF FindForStudent
<1>2. all \subseteq Lessons /\ IsFiniteSet(all)
  BY RosterAssumption, FS_Subset DEF LessonsWith
<1>3. Cardinality(page) = Cardinality(all) \/ Cardinality(page) = HISTORY_LIMIT
  <2>1. Cardinality(all) \in Nat /\ HISTORY_LIMIT \in Nat
    BY <1>2, FS_CardinalityType, ReportsAssumption
  <2>2. \E x \in {Cardinality(all), HISTORY_LIMIT} :
          \A y \in {Cardinality(all), HISTORY_LIMIT} : x <= y
    BY <2>1
  <2>3. Min({Cardinality(all), HISTORY_LIMIT}) \in {Cardinality(all), HISTORY_LIMIT}
    BY <2>2 DEF Min
  <2> QED BY <1>1, <2>3
<1>4. CASE page = all
  BY <1>4
<1>5. CASE page # all
  <2>1. Cardinality(page) = HISTORY_LIMIT
    BY <1>1, <1>2, <1>3, <1>5, FS_Subset
  <2>2. ASSUME ComingOf(page) # ComingOf(all), NEW l \in page
        PROVE  Day[l] >= Today
    <3>1. PICK k \in all \ page : Day[k] >= Today
      BY <1>1, <2>2 DEF ComingOf
    <3>2. Day[k] \in Int /\ Day[l] \in Int /\ Day[k] <= Day[l]
      BY <1>1, <1>2, ReportsAssumption
    <3> QED BY <3>1, <3>2, ReportsAssumption
  <2> QED BY <2>1, <2>2
<1> QED BY <1>4, <1>5

\* Whoever owed lessons all the while is on the list; with the school standing still
\* it is exactly who has run out, each with all their lessons to come, which their
\* page shows as far as it goes (DebtorsService.list, LessonsService.findForStudent).
THEOREM DebtorsListed == Spec => []DebtorsAgree
<1>1. DebtorsInv /\ FiledInv => DebtorsAgree
  <2> SUFFICES ASSUME DebtorsInv, FiledInv, NEW r \in Requests, At(r, "listed")
               PROVE  LET rows    == input[r].rows
                          covered == {s \in Students : Counts(input[r].scope, TutorOf[s])}
                      IN
                      /\ input[r].atOrBelow >= 0 =>
                           \A s \in owing[r] \cap covered : s \in DOMAIN rows /\ rows[s].lessonsOwed > 0
                      /\ r \in fresh =>
                           /\ DOMAIN rows = {s \in covered : /\ Here(s)
                                                             /\ left[s] <= input[r].atOrBelow
                                                             /\ left[s] < 0 \/ ComingOf(LessonsWith(s)) # {}}
                           /\ \A s \in DOMAIN rows :
                                /\ rows[s].lessonsBooked = Cardinality(ComingOf(LessonsWith(s)))
                                /\ \A page \in FindForStudent(s) :
                                     \/ rows[s].lessonsBooked = Cardinality(ComingOf(page))
                                     \/ /\ Cardinality(page) = HISTORY_LIMIT
                                        /\ \A l \in page : Day[l] >= Today
    BY DEF DebtorsAgree, ComingOf
  <2>1. Agrees(input[r], r)
    BY DEF DebtorsInv, DebtorFits
  <2>2. \A s \in Students : ToCome(s) = ComingOf(LessonsWith(s))
    BY LessonsCounted DEF FiledInv, ReportsTypeOK, ComingOf
  <2>3. ASSUME r \in fresh, NEW s \in DOMAIN input[r].rows
        PROVE  /\ input[r].rows[s].lessonsBooked = Cardinality(ComingOf(LessonsWith(s)))
               /\ \A page \in FindForStudent(s) :
                    \/ input[r].rows[s].lessonsBooked = Cardinality(ComingOf(page))
                    \/ /\ Cardinality(page) = HISTORY_LIMIT
                       /\ \A l \in page : Day[l] >= Today
    <3>1. s \in Students /\ input[r].rows[s].lessonsBooked = Cardinality(ComingOf(LessonsWith(s)))
      BY <2>1, <2>2, <2>3 DEF Agrees, WantedBy
    <3> QED BY <3>1, PageShows
  <2> QED BY <2>1, <2>2, <2>3 DEF Agrees, WantedBy
<1> QED BY <1>1, DebtorsInvariant, FiledInvariant, PTL

-----------------------------------------------------------------------------
(* Reports.  What was read is of the lessons and marks asked about, as they  *)
(* are while the school stands still; an answer adds up whether it does or   *)
(* not.                                                                      *)

ReportFields == {"scope", "window", "lessons", "marks", "grades", "people"}

\* What a report is about, as the school stands.
LessonsOf(question) == LessonsIn(question.scope, question.window)

MarksOf(question) ==
  {g \in Filled : Counts(question.scope, grade[g].author) /\ Within(g, question.window)}

InWords(gs) == {g \in gs : grade[g].mark.kind = "DESCRIPTIVE"}

LessonsRead(seen, r) ==
  /\ \A l \in DOMAIN seen.lessons : l \in Lessons /\ seen.lessons[l].status \in LessonStatus
  /\ r \in fresh => DOMAIN seen.lessons = LessonsOf(seen)

RegisterRead(seen, r) ==
  /\ DOMAIN seen.marks \subseteq Lessons \X Students
  /\ \A c \in DOMAIN seen.marks : seen.marks[c] \in AttendanceStatus
  /\ r \in fresh => DOMAIN seen.marks = RegisterOf(LessonsOf(seen))

MarksRead(seen, r) ==
  /\ \A g \in DOMAIN seen.grades :
       g \in GradeIds /\ seen.grades[g] \in Data /\ OnScale(seen.grades[g])
  /\ r \in fresh =>
       /\ DOMAIN seen.grades = MarksOf(seen)
       /\ \A g \in DOMAIN seen.grades : seen.grades[g] = grade[g].mark

ReadSoFar(seen, r) ==
  /\ seen = [f \in ReportFields |-> seen[f]]
  /\ seen.lessons # None => LessonsRead(seen, r)
  /\ seen.marks # None => RegisterRead(seen, r)
  /\ seen.grades # None => MarksRead(seen, r)

\* What holds of an answer if nothing has happened meanwhile.
Current(report) ==
  /\ report.lessons.total = Cardinality(LessonsOf(report))
  /\ report.attendance.marked = Cardinality(RegisterOf(LessonsOf(report)))
  /\ report.grades.count = Cardinality(MarksOf(report))
  /\ report.grades.descriptiveCount = Cardinality(InWords(MarksOf(report)))

ReportHolds(r) ==
  /\ pc[r] \in {"report", "reported"} => topic = "reading"
  /\ \A seen : seen = input[r] =>
       /\ At(r, "report") => ReadSoFar(seen, r)
       /\ At(r, "reported") => AddsUp(seen) /\ (r \in fresh => Current(seen))

\* A register's row is of a lesson and a student that are there.
RegisterBelongs == \A l \in Lessons, s \in Students : att[l][s] # NoMark => Here(l) /\ Here(s)

ReportsInv == RegisterBelongs /\ \A r \in Requests : ReportHolds(r)

-----------------------------------------------------------------------------

LEMMA TotalOfIs ==
  ASSUME NEW f
  PROVE  TotalOf(f) = Total(f, DOMAIN f)
BY DEF TotalOf, Total, MapThenSumSet, MapThenFoldSet

\* A mean of numbers up to most, in hundredths and rounded, is up to most.
LEMMA RoundedMean ==
  ASSUME NEW n \in Nat, NEW d \in Nat \ {0}, NEW most \in Nat, n <= most * d
  PROVE  Round2(n, d) <= 100 * most
<1>1. PICK a \in Nat, b \in Nat \ {0}, c \in Nat : a = 200 * n + d /\ b = 2 * d /\ c = 100 * most
  OBVIOUS
<1>2. a < b * (c + 1)
  <2>1. PICK p \in Nat : p = most * d
    OBVIOUS
  <2>2. b * (c + 1) = 200 * p + 2 * d
    BY <1>1, <2>1
  <2> QED BY <1>1, <2>1, <2>2
<1>3. a \div b <= c
  <2>1. PICK q \in Int, m \in 0 .. b - 1 : q = a \div b /\ a = b * q + m
    OBVIOUS
  <2>2. SUFFICES ASSUME q >= c + 1
                 PROVE  FALSE
    BY <2>1
  <2>3. b * q >= b * (c + 1)
    BY <2>1, <2>2
  <2> QED BY <1>2, <2>1, <2>3
<1> QED BY <1>1, <1>3 DEF Round2

LEMMA AverageIsOf ==
  ASSUME NEW rows, IsFiniteSet(DOMAIN rows), NEW most \in Nat,
         \A g \in DOMAIN rows : /\ rows[g].weight \in Nat
                                /\ rows[g].value # None => rows[g].value \in 0 .. most
  PROVE  LET mean == AverageOf(rows) IN
         /\ mean # None => mean.average <= 100 * most
         /\ (IF mean = None THEN 0 ELSE mean.count) \in 0 .. Cardinality(DOMAIN rows)
<1> DEFINE counted == {g \in DOMAIN rows : rows[g].value # None /\ rows[g].weight > 0}
           weights == [g \in counted |-> rows[g].weight]
           values == [g \in counted |-> rows[g].value * rows[g].weight]
           weight == TotalOf(weights)
           weighted == TotalOf(values)
           full == [average |-> Round2(weighted, weight), count |-> Cardinality(counted)]
<1>1. AverageOf(rows) = IF weight = 0 THEN None ELSE full
  BY DEF AverageOf
<1>2. IsFiniteSet(counted) /\ Cardinality(counted) \in 0 .. Cardinality(DOMAIN rows)
      /\ Cardinality(DOMAIN rows) \in Nat
  BY FS_Subset, FS_CardinalityType
<1>3. weights \in [counted -> Nat] /\ values \in [counted -> Nat]
  OBVIOUS
<1>4. \A g \in counted : values[g] <= most * weights[g]
  OBVIOUS
<1>5. weight = Total(weights, counted) /\ weighted = Total(values, counted)
  BY TotalOfIs
<1>6. weight \in Nat /\ weighted \in Nat /\ weighted <= most * weight
  <2> HIDE DEF counted, weights, values, weight, weighted
  <2> QED BY <1>2, <1>3, <1>4, <1>5, TotalNat, TotalBounded
<1>7. full.average = Round2(weighted, weight) /\ full.count = Cardinality(counted)
  OBVIOUS
<1> HIDE DEF counted, weights, values, weight, weighted, full
<1>8. weight # 0 => full.average <= 100 * most
  BY <1>6, <1>7, RoundedMean
<1> QED BY <1>1, <1>2, <1>7, <1>8

\* Kinds of mark do not overlap, and the average of each stays on its scale.
LEMMA KindsApart ==
  ASSUME NEW rows, IsFiniteSet(DOMAIN rows), \A g \in DOMAIN rows : rows[g] \in Data /\ OnScale(rows[g])
  PROVE  LET gs == SummariseGrades(rows) IN
         /\ gs.count >= gs.descriptiveCount
              + (IF gs.classic = None THEN 0 ELSE gs.classic.count)
              + (IF gs.percentage = None THEN 0 ELSE gs.percentage.count)
         /\ gs.classic # None => gs.classic.average <= 100 * GradeScaleMax
         /\ gs.percentage # None => gs.percentage.average <= 100 * MAX_PERCENTAGE
<1> DEFINE OfThe(kind) == {g \in DOMAIN rows : rows[g].kind = kind}
<1>1. \A T \in SUBSET DOMAIN rows : IsFiniteSet(T) /\ Cardinality(T) \in Nat
  BY FS_Subset, FS_CardinalityType
<1>2. PICK cs, ps, ds : cs = OfThe("CLASSIC") /\ ps = OfThe("PERCENTAGE") /\ ds = OfThe("DESCRIPTIVE")
  OBVIOUS
<1>3. /\ {cs, ps, ds, cs \cup ps, (cs \cup ps) \cup ds} \subseteq SUBSET DOMAIN rows
      /\ cs \cap ps = {} /\ (cs \cup ps) \cap ds = {}
  BY <1>2
<1>4. Cardinality(cs) + Cardinality(ps) + Cardinality(ds) <= Cardinality(DOMAIN rows)
  <2>1. Cardinality(cs \cup ps) = Cardinality(cs) + Cardinality(ps)
    BY <1>1, <1>3, CountApart
  <2>2. Cardinality((cs \cup ps) \cup ds) = Cardinality(cs \cup ps) + Cardinality(ds)
    BY <1>1, <1>3, CountApart
  <2>3. Cardinality((cs \cup ps) \cup ds) <= Cardinality(DOMAIN rows)
    BY <1>3, FS_Subset
  <2> QED BY <2>1, <2>2, <2>3
<1>5. ASSUME NEW kind \in {"CLASSIC", "PERCENTAGE"}, NEW these, these = OfThe(kind),
             NEW most \in Nat, most = IF kind = "CLASSIC" THEN GradeScaleMax ELSE 100,
             NEW mean, mean = AverageOf(OfKind(rows, kind))
      PROVE  /\ mean # None => mean.average <= 100 * most
             /\ (IF mean = None THEN 0 ELSE mean.count) \in 0 .. Cardinality(these)
  <2>1. PICK f : f = OfKind(rows, kind)
    OBVIOUS
  <2>2. DOMAIN f = these /\ \A g \in these : f[g] = rows[g]
    BY <1>5, <2>1 DEF OfKind, Restrict
  <2>3. \A g \in these : rows[g].weight \in Nat /\ (rows[g].value # None => rows[g].value \in 0 .. most)
    BY <1>5 DEF Data, OnScale
  <2>4. IsFiniteSet(DOMAIN f)
    BY <1>1, <1>5, <2>2
  <2> QED BY <1>5, <2>1, <2>2, <2>3, <2>4, AverageIsOf
<1>6. PICK classic, percentage :
        classic = AverageOf(OfKind(rows, "CLASSIC")) /\ percentage = AverageOf(OfKind(rows, "PERCENTAGE"))
  OBVIOUS
<1>7. DOMAIN OfKind(rows, "DESCRIPTIVE") = ds
  BY <1>2 DEF OfKind, Restrict
<1>8. /\ classic # None => classic.average <= 100 * GradeScaleMax
      /\ percentage # None => percentage.average <= 100 * MAX_PERCENTAGE
      /\ (IF classic = None THEN 0 ELSE classic.count) \in 0 .. Cardinality(cs)
      /\ (IF percentage = None THEN 0 ELSE percentage.count) \in 0 .. Cardinality(ps)
  <2>1. GradeScaleMax \in Nat /\ MAX_PERCENTAGE = 100
    BY GradesAssumption
  <2> HIDE DEF OfThe
  <2>2. /\ classic # None => classic.average <= 100 * GradeScaleMax
        /\ (IF classic = None THEN 0 ELSE classic.count) \in 0 .. Cardinality(cs)
    BY <1>2, <1>5, <1>6, <2>1
  <2>3. /\ percentage # None => percentage.average <= 100 * MAX_PERCENTAGE
        /\ (IF percentage = None THEN 0 ELSE percentage.count) \in 0 .. Cardinality(ps)
    BY <1>2, <1>5, <1>6, <2>1
  <2> QED BY <2>2, <2>3
<1>9. /\ Cardinality(cs) \in Nat /\ Cardinality(ps) \in Nat /\ Cardinality(ds) \in Nat
      /\ Cardinality(DOMAIN rows) \in Nat
  BY <1>1, <1>3
<1>10. PICK gs : gs = SummariseGrades(rows)
  OBVIOUS
<1>11. /\ gs.count = Cardinality(DOMAIN rows) /\ gs.descriptiveCount = Cardinality(ds)
       /\ gs.classic = classic /\ gs.percentage = percentage
  BY <1>6, <1>7, <1>10 DEF SummariseGrades
<1> HIDE DEF OfThe
<1> QED BY <1>4, <1>8, <1>9, <1>10, <1>11

\* Every row of a register is of one status, and who was there was marked.
LEMMA AttendanceCounted ==
  ASSUME NEW marks, IsFiniteSet(DOMAIN marks), \A c \in DOMAIN marks : marks[c] \in AttendanceStatus
  PROVE  LET marked == SummariseAttendance(marks) IN
         /\ marked.marked =
              marked.present + marked.late + marked.absentExcused + marked.absentUnexcused
         /\ marked.rate # None => marked.rate <= 100
<1>1. PICK p, t, e, u : /\ p = {c \in DOMAIN marks : marks[c] = "PRESENT"}
                        /\ t = {c \in DOMAIN marks : marks[c] = "LATE"}
                        /\ e = {c \in DOMAIN marks : marks[c] = "ABSENT_EXCUSED"}
                        /\ u = {c \in DOMAIN marks : marks[c] = "ABSENT_UNEXCUSED"}
  OBVIOUS
<1>2. /\ {p, t, e, u} \subseteq SUBSET DOMAIN marks
      /\ p \cap t = {} /\ (p \cup t) \cap e = {} /\ ((p \cup t) \cup e) \cap u = {}
      /\ DOMAIN marks = ((p \cup t) \cup e) \cup u
  BY <1>1 DEF AttendanceStatus
<1>3. IsFiniteSet(p) /\ IsFiniteSet(t) /\ IsFiniteSet(e) /\ IsFiniteSet(u)
  BY <1>2, FS_Subset
<1>4. /\ IsFiniteSet(p \cup t) /\ Cardinality(p) \in Nat /\ Cardinality(t) \in Nat
      /\ Cardinality(p \cup t) = Cardinality(p) + Cardinality(t)
  BY <1>2, <1>3, CountApart
<1>5. /\ IsFiniteSet((p \cup t) \cup e) /\ Cardinality(e) \in Nat
      /\ Cardinality((p \cup t) \cup e) = Cardinality(p \cup t) + Cardinality(e)
  BY <1>2, <1>3, <1>4, CountApart
<1>6. /\ Cardinality(u) \in Nat
      /\ Cardinality(DOMAIN marks) = Cardinality((p \cup t) \cup e) + Cardinality(u)
  BY <1>2, <1>3, <1>5, CountApart
<1>7. PICK there, all \in Nat :
        there = Cardinality(p) + Cardinality(t) /\ all = Cardinality(DOMAIN marks) /\ there <= 1 * all
  BY <1>4, <1>5, <1>6
<1>8. all # 0 => Round2(there, all) <= 100
  BY <1>7, RoundedMean
<1>9. PICK marked : marked = SummariseAttendance(marks)
  OBVIOUS
<1>10. /\ marked.marked = all
       /\ marked.present = Cardinality(p) /\ marked.late = Cardinality(t)
       /\ marked.absentExcused = Cardinality(e) /\ marked.absentUnexcused = Cardinality(u)
       /\ marked.rate = IF all = 0 THEN None ELSE Round2(there, all)
  BY <1>1, <1>7, <1>9 DEF SummariseAttendance, HowMany
<1> QED BY <1>4, <1>5, <1>6, <1>7, <1>8, <1>9, <1>10

\* The rows by a key, each with what its lessons come to.
LEMMA RowsTogether ==
  ASSUME NEW ls, ls \in SUBSET Lessons, NEW KeyOf
  PROVE  LET rows == RowsBy(ls, KeyOf)
             K    == DOMAIN rows
         IN
         /\ IsFiniteSet(K)
         /\ \A k \in K : rows[k].lessons \in Nat /\ rows[k].minutes \in Nat \ {0}
         /\ Total([k \in K |-> rows[k].lessons], K) = Cardinality(ls)
         /\ Total([k \in K |-> rows[k].minutes], K) = Total(Minutes, ls)
<1> DEFINE K == {KeyOf[l] : l \in ls}
           Of(k) == {l \in ls : KeyOf[l] = k}
           key == [l \in ls |-> KeyOf[l]]
           minutes == [l \in ls |-> Minutes[l]]
<1>1. IsFiniteSet(ls)
  BY RosterAssumption, FS_Subset
<1>2. key \in [ls -> K] /\ IsFiniteSet(K)
  <2>1. key \in Surjection(ls, K)
    BY DEF Surjection
  <2> HIDE DEF key, K
  <2> QED BY <1>1, <2>1, FS_Surjection DEF Surjection
<1>3. /\ minutes \in [ls -> Nat] /\ (\A l \in ls : minutes[l] > 0)
      /\ Total(minutes, ls) = Total(Minutes, ls)
  <2>1. \A l \in ls : Minutes[l] \in Nat \ {0} /\ minutes[l] = Minutes[l]
    BY ReportsAssumption
  <2>2. minutes \in [ls -> Nat] /\ (\A l \in ls : minutes[l] > 0)
    BY <2>1
  <2> HIDE DEF minutes
  <2> QED BY <1>1, <2>1, <2>2, TotalSame
<1>4. PICK rows : rows = RowsBy(ls, KeyOf)
  OBVIOUS
<1>5. /\ DOMAIN rows = K
      /\ \A k \in K : /\ rows[k].lessons = Cardinality(Of(k))
                      /\ rows[k].minutes = TotalOf(Restrict(Minutes, Of(k)))
  BY <1>4 DEF RowsBy
<1>6. ASSUME NEW k \in K
      PROVE  /\ Of(k) \in SUBSET ls /\ Of(k) # {} /\ IsFiniteSet(Of(k)) /\ Cardinality(Of(k)) \in Nat
             /\ TotalOf(Restrict(Minutes, Of(k))) = Total(minutes, Of(k))
             /\ Total(minutes, Of(k)) \in Nat \ {0}
             /\ Of(k) = {l \in ls : key[l] = k}
  <2>1. Of(k) \in SUBSET ls /\ Of(k) # {} /\ Of(k) = {l \in ls : key[l] = k}
    OBVIOUS
  <2>2. PICK those : those = Of(k)
    OBVIOUS
  <2>3. IsFiniteSet(those) /\ Cardinality(those) \in Nat
    BY <1>1, <2>1, <2>2, FS_Subset, FS_CardinalityType
  <2>4. TotalOf(Restrict(Minutes, those)) = Total(minutes, those)
    <3>1. PICK f : f = Restrict(Minutes, those)
      OBVIOUS
    <3>2. DOMAIN f = those /\ \A l \in those : f[l] = minutes[l]
      BY <2>1, <2>2, <3>1 DEF Restrict
    <3> HIDE DEF minutes
    <3> QED BY <2>3, <3>1, <3>2, TotalOfIs, TotalSame
  <2>5. Total(minutes, those) \in Nat \ {0}
    <3>1. PICK x \in those : TRUE
      BY <2>1, <2>2
    <3>2. minutes[x] > 0 /\ x \in those \ {} /\ {} \in SUBSET those /\ those \in SUBSET ls
      BY <1>3, <2>1, <2>2
    <3> HIDE DEF minutes, Of
    <3>3. Total(minutes, {}) < Total(minutes, those)
      BY <1>1, <1>3, <3>2, TotalStrict
    <3> QED BY <1>1, <1>3, <3>2, <3>3, TotalEmpty, TotalNat
  <2> HIDE DEF minutes, Of, key
  <2> QED BY <2>1, <2>2, <2>3, <2>4, <2>5
<1>7. ASSUME NEW k \in K
      PROVE  /\ rows[k].lessons = Cardinality({l \in ls : key[l] = k})
             /\ rows[k].minutes = Total(minutes, {l \in ls : key[l] = k})
  <2>1. PICK those : those = Of(k)
    OBVIOUS
  <2> HIDE DEF K, key, Of, minutes
  <2>2. those = {l \in ls : key[l] = k}
    BY <1>6, <2>1
  <2>3. rows[k].lessons = Cardinality(those) /\ rows[k].minutes = Total(minutes, those)
    BY <1>5, <1>6, <2>1
  <2> QED BY <2>2, <2>3
<1>8. /\ [k \in K |-> rows[k].lessons] = [k \in K |-> Cardinality({l \in ls : key[l] = k})]
      /\ [k \in K |-> rows[k].minutes] = [k \in K |-> Total(minutes, {l \in ls : key[l] = k})]
  <2> HIDE DEF K, key, Of, minutes
  <2> QED BY <1>7
<1>9. /\ Total([k \in K |-> rows[k].lessons], K) = Cardinality(ls)
      /\ Total([k \in K |-> rows[k].minutes], K) = Total(Minutes, ls)
  <2> HIDE DEF K, key, Of, minutes
  <2>1. Total([k \in K |-> Cardinality({l \in ls : key[l] = k})], K) = Cardinality(ls)
    BY <1>1, <1>2, CountByKey
  <2>2. Total([k \in K |-> Total(minutes, {l \in ls : key[l] = k})], K) = Total(minutes, ls)
    BY <1>1, <1>2, <1>3, TotalByKey
  <2> QED BY <1>3, <1>8, <2>1, <2>2
<1>10. \A k \in K : rows[k].lessons \in Nat /\ rows[k].minutes \in Nat \ {0}
  <2> HIDE DEF K, key, Of, minutes
  <2> QED BY <1>5, <1>6
<1> HIDE DEF K, key, Of, minutes
<1> QED BY <1>2, <1>4, <1>5, <1>9, <1>10

\* As many of the rows as are shown, or all of them.
LEMMA BreakdownAccounts ==
  ASSUME NEW ls, ls \in SUBSET Lessons, NEW KeyOf, NEW rows \in Breakdown(ls, KeyOf),
         NEW report, report.lessons.completed = Cardinality(ls),
         report.minutesTaught = Total(Minutes, ls)
  PROVE  Accounts(rows, report)
<1>1. PICK all : all = RowsBy(ls, KeyOf)
  OBVIOUS
<1> DEFINE K == DOMAIN all
           counts == [k \in K |-> all[k].lessons]
           minutes == [k \in K |-> all[k].minutes]
<1>2. /\ IsFiniteSet(K)
      /\ \A k \in K : all[k].lessons \in Nat /\ all[k].minutes \in Nat \ {0}
      /\ Total(counts, K) = report.lessons.completed
      /\ Total(minutes, K) = report.minutesTaught
  BY <1>1, RowsTogether
<1>3. counts \in [K -> Nat] /\ minutes \in [K -> Nat] /\ \A k \in K : minutes[k] > 0
  BY <1>2
<1>4. PICK top \in SUBSET K :
        rows = Restrict(all, top) /\ Cardinality(top) = Min({Cardinality(K), MAX_BREAKDOWN_ROWS})
  BY <1>1 DEF Breakdown
<1>5. /\ DOMAIN rows = top
      /\ SumOf(rows, "lessons") = Total(counts, top) /\ SumOf(rows, "minutes") = Total(minutes, top)
  <2>1. DOMAIN rows = top /\ \A k \in top : rows[k] = all[k]
    BY <1>4 DEF Restrict
  <2>2. IsFiniteSet(top)
    BY <1>2, FS_Subset
  <2>3. PICK f, g : f = [k \in DOMAIN rows |-> rows[k]["lessons"]] /\ g = [k \in DOMAIN rows |-> rows[k]["minutes"]]
    OBVIOUS
  <2>4. DOMAIN f = top /\ DOMAIN g = top /\ \A k \in top : f[k] = counts[k] /\ g[k] = minutes[k]
    BY <2>1, <2>3
  <2> HIDE DEF K, counts, minutes
  <2>5. Total(f, top) = Total(counts, top) /\ Total(g, top) = Total(minutes, top)
    BY <2>2, <2>4, TotalSame
  <2>6. SumOf(rows, "lessons") = Total(f, top) /\ SumOf(rows, "minutes") = Total(g, top)
    BY <2>3, <2>4, TotalOfIs DEF SumOf
  <2> QED BY <2>1, <2>5, <2>6
<1> HIDE DEF K, counts, minutes
<1>6. CASE top = K
  BY <1>2, <1>5, <1>6 DEF Accounts
<1>7. CASE top # K
  <2>1. Cardinality(K) \in Nat /\ MAX_BREAKDOWN_ROWS \in Nat
    BY <1>2, FS_CardinalityType, ReportsAssumption
  <2>2. Cardinality(top) \in {Cardinality(K), MAX_BREAKDOWN_ROWS}
    <3>1. PICK a, b \in Nat : a = Cardinality(K) /\ b = MAX_BREAKDOWN_ROWS
      BY <2>1
    <3>2. \E n \in {a, b} : \A m \in {a, b} : n <= m
      OBVIOUS
    <3>3. Min({a, b}) \in {a, b}
      BY <3>2 DEF Min
    <3> QED BY <1>4, <3>1, <3>3
  <2>3. Cardinality(top) = MAX_BREAKDOWN_ROWS
    BY <1>2, <1>7, <2>2, FS_Subset
  <2>4. PICK k \in K : k \notin top
    BY <1>7
  <2>5. Total(minutes, top) < Total(minutes, K)
    BY <1>2, <1>3, <2>4, TotalStrict
  <2> QED BY <1>2, <1>5, <2>3, <2>5 DEF Accounts
<1> QED BY <1>6, <1>7

\* However what it was read from came to be, an answer is consistent with itself.
LEMMA SummaryAddsUp ==
  ASSUME NEW seen,
         \A l \in DOMAIN seen.lessons : l \in Lessons /\ seen.lessons[l].status \in LessonStatus,
         DOMAIN seen.marks \subseteq Lessons \X Students,
         \A c \in DOMAIN seen.marks : seen.marks[c] \in AttendanceStatus,
         \A g \in DOMAIN seen.grades :
           g \in GradeIds /\ seen.grades[g] \in Data /\ OnScale(seen.grades[g]),
         NEW bySubject \in Breakdown(With(seen.lessons, "COMPLETED"), SubjectOf),
         NEW byTutor \in IF seen.scope = None
                         THEN Breakdown(With(seen.lessons, "COMPLETED"), TutorOf) ELSE {None},
         NEW report, report = Summarise(seen, bySubject, byTutor)
  PROVE  AddsUp(report)
<1>1. PICK completed, cancelled, scheduled, unwritten :
        /\ completed = With(seen.lessons, "COMPLETED")
        /\ cancelled = With(seen.lessons, "CANCELLED")
        /\ scheduled = With(seen.lessons, "SCHEDULED")
        /\ unwritten = {l \in completed : seen.lessons[l].rows = 0}
  OBVIOUS
<1>2. /\ completed \in SUBSET Lessons
      /\ IsFiniteSet(completed) /\ IsFiniteSet(cancelled) /\ IsFiniteSet(scheduled)
  <2>1. {completed, cancelled, scheduled} \subseteq SUBSET Lessons
    BY <1>1 DEF With
  <2> QED BY <2>1, RosterAssumption, FS_Subset
<1>3. Cardinality(DOMAIN seen.lessons) =
        Cardinality(completed) + Cardinality(cancelled) + Cardinality(scheduled)
  <2>1. /\ DOMAIN seen.lessons = (completed \cup cancelled) \cup scheduled
        /\ completed \cap cancelled = {} /\ (completed \cup cancelled) \cap scheduled = {}
    BY <1>1 DEF With, LessonStatus
  <2> QED BY <1>2, <2>1, CountApart
<1>4. Cardinality(unwritten) <= Cardinality(completed)
  BY <1>1, <1>2, FS_Subset
<1>5. TotalOf(Restrict(Minutes, completed)) = Total(Minutes, completed)
  <2>1. PICK f : f = Restrict(Minutes, completed)
    OBVIOUS
  <2>2. DOMAIN f = completed /\ \A l \in completed : f[l] = Minutes[l]
    BY <2>1 DEF Restrict
  <2> QED BY <1>2, <2>1, <2>2, TotalOfIs, TotalSame
<1>6. /\ report.lessons.total = Cardinality(DOMAIN seen.lessons)
      /\ report.lessons.completed = Cardinality(completed)
      /\ report.lessons.cancelled = Cardinality(cancelled)
      /\ report.lessons.scheduled = Cardinality(scheduled)
      /\ report.lessons.unwritten = Cardinality(unwritten)
      /\ report.minutesTaught = TotalOf(Restrict(Minutes, completed))
      /\ report.attendance = SummariseAttendance(seen.marks)
      /\ report.grades = SummariseGrades(seen.grades)
      /\ report.bySubject = bySubject /\ report.byTutor = byTutor
  BY <1>1 DEF Summarise
<1>7. \A rows \in {report.bySubject, report.byTutor} \ {None} : Accounts(rows, report)
  <2>1. \A rows \in {report.bySubject, report.byTutor} \ {None} :
          rows \in Breakdown(completed, SubjectOf) \/ rows \in Breakdown(completed, TutorOf)
    BY <1>1, <1>6
  <2> QED BY <1>2, <1>5, <1>6, <2>1, BreakdownAccounts
<1>8. IsFiniteSet(DOMAIN seen.grades)
  <2>1. DOMAIN seen.grades \in SUBSET GradeIds
    OBVIOUS
  <2> QED BY <2>1, ReportsAssumption, FS_Subset
<1>9. PICK gs : gs = SummariseGrades(seen.grades)
  OBVIOUS
<1>10. /\ gs.count >= gs.descriptiveCount
             + (IF gs.classic = None THEN 0 ELSE gs.classic.count)
             + (IF gs.percentage = None THEN 0 ELSE gs.percentage.count)
       /\ gs.classic # None => gs.classic.average <= 100 * GradeScaleMax
       /\ gs.percentage # None => gs.percentage.average <= 100 * MAX_PERCENTAGE
  BY <1>8, <1>9, KindsApart
<1>11. IsFiniteSet(DOMAIN seen.marks)
  <2>1. IsFiniteSet(Lessons \X Students)
    BY RosterAssumption, ReportsAssumption, FS_Product
  <2> QED BY <2>1, FS_Subset
<1>12. PICK marked : marked = SummariseAttendance(seen.marks)
  OBVIOUS
<1>13. /\ marked.marked =
             marked.present + marked.late + marked.absentExcused + marked.absentUnexcused
       /\ marked.rate # None => marked.rate <= 100
  BY <1>11, <1>12, AttendanceCounted
<1> QED BY <1>3, <1>4, <1>6, <1>7, <1>9, <1>10, <1>12, <1>13 DEF AddsUp

-----------------------------------------------------------------------------

LEMMA CascadeRegister ==
  ASSUME RosterTypeOK, RegisterBelongs, NEW doomed \in SUBSET Lessons,
         NEW departing \in SUBSET (Students \cup Groups), CascadeLessons(doomed, departing)
  PROVE  RegisterBelongs'
<1>1. ASSUME NEW l \in Lessons, NEW s \in Students, att'[l][s] # NoMark
      PROVE  life'[l] = "here" /\ life'[s] = "here"
  <2>1. l \notin doomed /\ s \notin departing /\ att[l][s] # NoMark
    BY <1>1 DEF CascadeLessons, Blank
  <2>2. l \notin doomed \cup departing /\ s \notin doomed \cup departing
    BY <2>1, RosterAssumption
  <2> QED BY <2>1, <2>2 DEF CascadeLessons, RegisterBelongs, Here, RowIds
<1> QED BY <1>1 DEF RegisterBelongs, Here

LEMMA RegisterKept ==
  ASSUME RosterTypeOK, RegisterBelongs, RowsCome \/ AnyChange
  PROVE  RegisterBelongs'
<1>1. ASSUME UNCHANGED att, \A x \in RowIds : Here(x) => life'[x] = "here"
      PROVE  RegisterBelongs'
  BY <1>1 DEF RegisterBelongs, Here, RowIds
<1>2. ASSUME NEW x, life[x] = "unborn", life' = [life EXCEPT ![x] = "here"], UNCHANGED att
      PROVE  RegisterBelongs'
  BY <1>1, <1>2 DEF RosterTypeOK, Here
<1>3. ASSUME NEW x \in Students \cup Groups, CascadeLessons(LessonsFor(x), {x})
      PROVE  RegisterBelongs'
  BY <1>3, CascadeRegister DEF LessonsFor
<1>4. ASSUME NEW l \in Lessons, NEW ms \in [Students -> Marks \cup {NoMark}], WriteUp(l, ms, Unstated)
      PROVE  RegisterBelongs'
  <2>1. ASSUME NEW k \in Lessons, NEW s \in Students, att'[k][s] # NoMark
        PROVE  Here(k) /\ Here(s)
    <3>1. CASE att[k][s] # NoMark
      BY <3>1 DEF RegisterBelongs
    <3>2. CASE att[k][s] = NoMark
      <4>1. k = l /\ ms[s] # NoMark
        BY <1>4, <2>1, <3>2 DEF WriteUp, Register, RosterTypeOK
      <4> QED BY <1>4, <4>1 DEF WriteUp, Marked
    <3> QED BY <3>1, <3>2
  <2> QED BY <1>4, <2>1 DEF WriteUp, RegisterBelongs, Here
<1>5. CASE RosterNext
  <2>1. \A s \in Students, n \in Typed : CreateStudent(s, n) => RegisterBelongs'
    BY <1>2 DEF CreateStudent
  <2>2. \A s \in Students, n \in Typed : UpdateStudent(s, n) => RegisterBelongs'
    BY <1>1 DEF UpdateStudent, Here
  <2>3. \A s \in Students : RemoveStudent(s) => RegisterBelongs'
    BY <1>3 DEF RemoveStudent
  <2>4. \A g \in Groups : CreateGroup(g) \/ RemoveGroup(g) => RegisterBelongs'
    BY <1>2, <1>3 DEF CreateGroup, RemoveGroup
  <2>5. \A g \in Groups, s \in Students : AddMember(g, s) \/ RemoveMember(g, s) => RegisterBelongs'
    BY <1>1 DEF AddMember, RemoveMember, Here
  <2>6. \A l \in Lessons : CreateLesson(l) => RegisterBelongs'
    BY <1>2 DEF CreateLesson
  <2>7. \A l \in Lessons, st \in LessonStatus : UpdateStatus(l, st) => RegisterBelongs'
    BY <1>1 DEF UpdateStatus, Here
  <2> QED BY <1>5, <2>1, <2>2, <2>3, <2>4, <2>5, <2>6, <2>7 DEF RosterNext
<1>6. RowsCome => RosterNext
  BY DEF RowsCome, RosterNext
<1> QED BY <1>4, <1>5, <1>6 DEF AnyChange

\* While the school stands still, what was read is what there is.
LEMMA StillThere ==
  ASSUME NEW r \in Requests, NEW seen, UNCHANGED <<rosterVars, grade>>, r \in fresh' => r \in fresh
  PROVE  /\ ReadSoFar(seen, r) => ReadSoFar(seen, r)'
         /\ (r \in fresh => Current(seen)) => (r \in fresh => Current(seen))'
<1>1. /\ LessonsOf(seen)' = LessonsOf(seen) /\ MarksOf(seen)' = MarksOf(seen)
      /\ att' = att /\ grade' = grade
  BY DEF rosterVars, LessonsOf, LessonsIn, Here, MarksOf, Filled
<1>2. RegisterOf(LessonsOf(seen))' = RegisterOf(LessonsOf(seen))
  BY <1>1 DEF RegisterOf
<1>3. InWords(MarksOf(seen))' = InWords(MarksOf(seen))
  BY <1>1 DEF InWords
<1>4. ReadSoFar(seen, r) => ReadSoFar(seen, r)'
  BY <1>1, <1>2 DEF ReadSoFar, LessonsRead, RegisterRead, MarksRead
<1>5. (r \in fresh => Current(seen)) => (r \in fresh => Current(seen))'
  BY <1>1, <1>2, <1>3 DEF Current
<1> QED BY <1>4, <1>5

LEMMA ReportStays ==
  ASSUME NEW r \in Requests, ReportHolds(r), pc'[r] = pc[r], input'[r] = input[r], UNCHANGED topic,
         UNCHANGED <<rosterVars, grade>> \/ topic # "reading", r \in fresh' => r \in fresh
  PROVE  ReportHolds(r)'
<1>1. PICK seen : seen = input[r]
  OBVIOUS
<1> QED BY <1>1, StillThere DEF ReportHolds, At

\* Once it changes, a report is held only to its own consistency.
LEMMA ReportOutlives ==
  ASSUME NEW r \in Requests, ReportHolds(r), UNCHANGED topic, NEW change, Write(change)
  PROVE  ReportHolds(r)'
<1>1. PICK seen : seen = input[r]
  OBVIOUS
<1>2. pc'[r] = pc[r] /\ input'[r] = input[r] /\ fresh' = {}
  BY DEF Write
<1>3. ReadSoFar(seen, r) => ReadSoFar(seen, r)'
  BY <1>2 DEF ReadSoFar, LessonsRead, RegisterRead, MarksRead
<1> QED BY <1>1, <1>2, <1>3 DEF ReportHolds, At

\* One statement fills in one field.
LEMMA StatementRead ==
  ASSUME NEW r \in Requests, RequestsTyped, ReportHolds(r), At(r, "report"), UNCHANGED topic,
         NEW field \in ReportFields, NEW value, Read(r, field, value),
         NEW before, before = input[r],
         NEW seen, seen = [f \in ReportFields |-> IF f = field THEN value ELSE before[f]]
  PROVE  /\ before[field] = None /\ ReadSoFar(before, r)
         /\ ReadSoFar(seen, r) => ReportHolds(r)'
<1>1. /\ before[field] = None /\ ReadSoFar(before, r)
      /\ pc[r] = "report" /\ topic = "reading"
  BY DEF Read, ReportHolds, At
<1>2. before = [f \in ReportFields |-> before[f]]
  BY <1>1 DEF ReadSoFar
<1>3. input'[r] = seen /\ UNCHANGED <<pc, rosterVars, grade, fresh>>
  <2>1. r \in DOMAIN input /\ input' = [input EXCEPT ![r][field] = value]
    BY DEF Read, RequestsTyped
  <2>2. input'[r] = [before EXCEPT ![field] = value]
    BY <2>1
  <2> QED BY <1>2, <2>2 DEF Read, schoolVars
<1>4. ASSUME ReadSoFar(seen, r)
      PROVE  ReportHolds(r)'
  <2>1. ReadSoFar(seen, r)'
    BY <1>3, <1>4, StillThere
  <2> QED BY <1>1, <1>3, <2>1 DEF ReportHolds, At
<1> QED BY <1>1, <1>4

LEMMA StatementFits ==
  ASSUME NEW r \in Requests, RequestsTyped, ReportsTypeOK, MarksAsWritten, ReportHolds(r),
         UNCHANGED topic, ReadLessons(r) \/ ReadRegister(r) \/ ReadGrades(r) \/ CountStudentsTaught(r)
  PROVE  ReportHolds(r)'
<1>1. PICK before : before = input[r]
  OBVIOUS
<1> DEFINE Filling(field, value) == [f \in ReportFields |-> IF f = field THEN value ELSE before[f]]
<1>2. ASSUME NEW field \in {"lessons", "marks", "grades", "people"}, NEW value,
             NEW seen, seen = Filling(field, value), At(r, "report"), Read(r, field, value),
             field = "lessons" => LessonsRead(seen, r),
             field = "marks" => RegisterRead(seen, r),
             field = "grades" => MarksRead(seen, r)
      PROVE  ReportHolds(r)'
  <2>1. /\ ReadSoFar(before, r)
        /\ ReadSoFar(seen, r) => ReportHolds(r)'
    BY <1>1, <1>2, StatementRead DEF ReportFields
  <2>2. /\ seen = [f \in ReportFields |-> seen[f]]
        /\ seen.scope = before.scope /\ seen.window = before.window
        /\ field # "lessons" => seen.lessons = before.lessons
        /\ field # "marks" => seen.marks = before.marks
        /\ field # "grades" => seen.grades = before.grades
    BY <1>2 DEF ReportFields
  <2>3. LessonsOf(seen) = LessonsOf(before) /\ MarksOf(seen) = MarksOf(before)
    BY <2>2 DEF LessonsOf, MarksOf
  <2>4. seen.lessons # None => LessonsRead(seen, r)
    BY <1>2, <2>1, <2>2, <2>3 DEF ReadSoFar, LessonsRead
  <2>5. seen.marks # None => RegisterRead(seen, r)
    BY <1>2, <2>1, <2>2, <2>3 DEF ReadSoFar, RegisterRead
  <2>6. seen.grades # None => MarksRead(seen, r)
    BY <1>2, <2>1, <2>2, <2>3 DEF ReadSoFar, MarksRead
  <2> QED BY <2>1, <2>2, <2>4, <2>5, <2>6 DEF ReadSoFar
<1>3. \A field, value : field \in {"lessons", "marks", "grades", "people"} =>
        /\ Filling(field, value).scope = before.scope /\ Filling(field, value).window = before.window
        /\ Filling(field, value)[field] = value
  BY DEF ReportFields
<1>4. CASE ReadLessons(r)
  <2>1. PICK value : value = [l \in LessonsIn(before.scope, before.window) |->
                                [status |-> status[l], rows |-> Cardinality(RegisterOf({l}))]]
    OBVIOUS
  <2>2. PICK seen : seen = Filling("lessons", value)
    OBVIOUS
  <2>3. At(r, "report") /\ Read(r, "lessons", value)
    BY <1>1, <1>4, <2>1 DEF ReadLessons
  <2>4. seen.scope = before.scope /\ seen.window = before.window /\ seen.lessons = value
    BY <1>3, <2>2
  <2>5. LessonsOf(seen) = LessonsIn(before.scope, before.window)
    BY <2>4 DEF LessonsOf
  <2>6. \A l \in DOMAIN value : l \in Lessons /\ value[l].status \in LessonStatus
    BY <2>1 DEF LessonsIn, ReportsTypeOK, RosterTypeOK
  <2>7. LessonsRead(seen, r)
    BY <2>1, <2>4, <2>5, <2>6 DEF LessonsRead
  <2> HIDE DEF Filling
  <2> QED BY <1>2, <2>2, <2>3, <2>7
<1>5. CASE ReadRegister(r)
  <2>1. PICK value : value = [c \in RegisterOf(LessonsIn(before.scope, before.window)) |-> att[c[1]][c[2]]]
    OBVIOUS
  <2>2. PICK seen : seen = Filling("marks", value)
    OBVIOUS
  <2>3. At(r, "report") /\ Read(r, "marks", value)
    BY <1>1, <1>5, <2>1 DEF ReadRegister
  <2>4. seen.scope = before.scope /\ seen.window = before.window /\ seen.marks = value
    BY <1>3, <2>2
  <2>5. /\ DOMAIN value = RegisterOf(LessonsOf(seen)) /\ DOMAIN value \subseteq Lessons \X Students
        /\ \A c \in DOMAIN value : value[c] = att[c[1]][c[2]] /\ value[c] # NoMark
    BY <2>1, <2>4 DEF RegisterOf, LessonsIn, LessonsOf
  <2>6. \A c \in DOMAIN value : value[c] \in AttendanceStatus
    BY <2>5 DEF ReportsTypeOK, RosterTypeOK, Cell
  <2>7. RegisterRead(seen, r)
    BY <2>4, <2>5, <2>6 DEF RegisterRead
  <2> HIDE DEF Filling
  <2> QED BY <1>2, <2>2, <2>3, <2>7
<1>6. CASE ReadGrades(r)
  <2>1. PICK value : value = [g \in {g \in Filled : /\ Counts(before.scope, grade[g].author)
                                                    /\ Within(g, before.window)} |-> grade[g].mark]
    OBVIOUS
  <2>2. PICK seen : seen = Filling("grades", value)
    OBVIOUS
  <2>3. At(r, "report") /\ Read(r, "grades", value)
    BY <1>1, <1>6, <2>1 DEF ReadGrades
  <2>4. seen.scope = before.scope /\ seen.window = before.window /\ seen.grades = value
    BY <1>3, <2>2
  <2>5. DOMAIN value = MarksOf(seen) /\ \A g \in MarksOf(seen) : value[g] = grade[g].mark
    BY <2>1, <2>4 DEF MarksOf
  <2>6. \A g \in MarksOf(seen) : g \in GradeIds /\ grade[g].mark \in Data /\ OnScale(grade[g].mark)
    BY DEF MarksOf, Filled, ReportsTypeOK, GradesTypeOK, Row, MarksAsWritten
  <2>7. MarksRead(seen, r)
    BY <2>4, <2>5, <2>6 DEF MarksRead
  <2> HIDE DEF Filling
  <2> QED BY <1>2, <2>2, <2>3, <2>7
<1>7. CASE CountStudentsTaught(r)
  <2>1. PICK value : At(r, "report") /\ Read(r, "people", value)
    BY <1>7 DEF CountStudentsTaught
  <2> QED BY <1>2, <2>1
<1> QED BY <1>4, <1>5, <1>6, <1>7

LEMMA AnswerHolds ==
  ASSUME NEW r \in Requests, RequestsTyped, ReportHolds(r), UNCHANGED topic, AnswerReport(r)
  PROVE  ReportHolds(r)'
<1>1. PICK seen : seen = input[r]
  OBVIOUS
<1>2. /\ pc[r] = "report" /\ topic = "reading" /\ ReadSoFar(seen, r)
      /\ None \notin {seen.lessons, seen.marks, seen.grades, seen.people}
  BY <1>1 DEF AnswerReport, ReportHolds, At
<1>3. LessonsRead(seen, r) /\ RegisterRead(seen, r) /\ MarksRead(seen, r)
  BY <1>2 DEF ReadSoFar
<1>4. PICK bySubject \in Breakdown(With(seen.lessons, "COMPLETED"), SubjectOf) :
      \E byTutor \in IF seen.scope = None
                     THEN Breakdown(With(seen.lessons, "COMPLETED"), TutorOf) ELSE {None} :
        Take(r, Summarise(seen, bySubject, byTutor), "reported")
  BY <1>1 DEF AnswerReport
<1>5. PICK byTutor \in IF seen.scope = None
                       THEN Breakdown(With(seen.lessons, "COMPLETED"), TutorOf) ELSE {None} :
        Take(r, Summarise(seen, bySubject, byTutor), "reported")
  BY <1>4
<1>6. PICK report : report = Summarise(seen, bySubject, byTutor)
  OBVIOUS
<1>7. pc'[r] = "reported" /\ input'[r] = report
  BY <1>5, <1>6, TakesUp DEF Teaching
<1>8. AddsUp(report)
  BY <1>3, <1>6, SummaryAddsUp DEF LessonsRead, RegisterRead, MarksRead
<1>9. ASSUME r \in fresh
      PROVE  Current(report)
  <2>1. /\ report.scope = seen.scope /\ report.window = seen.window
        /\ report.lessons.total = Cardinality(DOMAIN seen.lessons)
        /\ report.attendance.marked = Cardinality(DOMAIN seen.marks)
        /\ report.grades.count = Cardinality(DOMAIN seen.grades)
        /\ report.grades.descriptiveCount = Cardinality(DOMAIN OfKind(seen.grades, "DESCRIPTIVE"))
    BY <1>6 DEF Summarise, SummariseAttendance, SummariseGrades
  <2>2. LessonsOf(report) = LessonsOf(seen) /\ MarksOf(report) = MarksOf(seen)
    BY <2>1 DEF LessonsOf, MarksOf
  <2>3. /\ DOMAIN seen.lessons = LessonsOf(report)
        /\ DOMAIN seen.marks = RegisterOf(LessonsOf(report))
        /\ DOMAIN seen.grades = MarksOf(report)
        /\ \A g \in DOMAIN seen.grades : seen.grades[g] = grade[g].mark
    BY <1>3, <1>9, <2>2 DEF LessonsRead, RegisterRead, MarksRead
  <2>4. DOMAIN OfKind(seen.grades, "DESCRIPTIVE") = InWords(MarksOf(report))
    BY <2>3 DEF OfKind, Restrict, InWords
  <2> QED BY <2>1, <2>3, <2>4 DEF Current
<1>10. UNCHANGED <<rosterVars, grade, fresh>>
  BY DEF AnswerReport, schoolVars
<1>11. (r \in fresh => Current(report))'
  BY <1>9, <1>10, StillThere
<1> QED BY <1>2, <1>7, <1>8, <1>11 DEF ReportHolds, At

LEMMA ReaderHolds ==
  ASSUME NEW r \in Requests, RequestsTyped, ReportsTypeOK, MarksAsWritten, ReportHolds(r),
         topic = "reading", UNCHANGED topic, ReportsNext(r) \/ DebtorsNext(r)
  PROVE  ReportHolds(r)'
<1>1. ASSUME NEW u \in Users, NEW q \in Queries, AskReport(r, u, q)
      PROVE  ReportHolds(r)'
  <2>1. PICK seen : seen = [scope |-> TutorScope(u, q), window |-> Window(q), lessons |-> None,
                            marks |-> None, grades |-> None, people |-> None]
    OBVIOUS
  <2>2. pc'[r] = "report" /\ input'[r] = seen
    BY <1>1, <2>1, TakesUp DEF AskReport, Ask, Teaching
  <2>3. ReadSoFar(seen, r)'
    BY <2>1 DEF ReadSoFar, ReportFields
  <2> QED BY <2>2, <2>3 DEF ReportHolds, At
<1>2. ASSUME DebtorsNext(r)
      PROVE  ReportHolds(r)'
  <2>1. ASSUME NEW u \in Users, NEW q \in Queries, NEW t \in Thresholds, AskDebtors(r, u, q, t)
        PROVE  pc'[r] \in {"debtors", "listed"}
    <3>1. PICK value : Take(r, value, "debtors")
      BY <2>1 DEF AskDebtors, Ask
    <3> QED BY <3>1, TakesUp DEF Teaching
  <2>2. ASSUME ReadStudents(r) \/ CountOwn(r) \/ CountInGroups(r) \/ ReadLastTaught(r)
        PROVE  pc'[r] \in {"debtors", "listed"}
    BY <2>2 DEF ReadStudents, CountOwn, CountInGroups, ReadLastTaught, ReadPerStudent, Read, At
  <2>3. ASSUME AnswerDebtors(r) \/ AnswerNobody(r)
        PROVE  pc'[r] \in {"debtors", "listed"}
    <3>1. PICK value : Take(r, value, "listed")
      BY <2>3 DEF AnswerDebtors, AnswerNobody
    <3> QED BY <3>1, TakesUp DEF Teaching
  <2>4. pc'[r] \in {"debtors", "listed"}
    BY <1>2, <2>1, <2>2, <2>3 DEF DebtorsNext, DebtorsContinue
  <2> QED BY <2>4 DEF ReportHolds, At
<1> QED BY <1>1, <1>2, StatementFits, AnswerHolds DEF ReportsNext, ReportsContinue

LEMMA ReportsBegin ==
  ASSUME Init
  PROVE  ReportsInv
<1>1. \A l \in Lessons, s \in Students : att[l][s] = NoMark
  BY DEF Init, ReportsInit, RosterInit, Blank
<1>2. \A r \in Requests : pc[r] = "idle"
  BY DEF Init, RequestsInit
<1> QED BY <1>1, <1>2 DEF ReportsInv, RegisterBelongs, ReportHolds, At

LEMMA ReportsKeep ==
  ASSUME ReportsInv, FiledInv, OfficeHolds', [Next]_vars
  PROVE  ReportsInv'
<1>0. UNCHANGED topic
  BY DEF Next, vars
<1>1. ASSUME UNCHANGED rosterVars
      PROVE  RegisterBelongs'
  BY <1>1 DEF ReportsInv, RegisterBelongs, rosterVars, Here
<1>2. ASSUME topic = "office", UNCHANGED schoolVars
      PROVE  ReportsInv'
  <2>1. \A r \in Requests : pc'[r] \in Statements
    <3>1. topic' = "office"
      BY <1>0, <1>2
    <3>2. RequestsFit'
      BY <3>1 DEF OfficeHolds, OfficeInv
    <3> QED BY <3>2 DEF RequestsFit
  <2>2. \A p \in Statements : p \notin {"report", "reported"}
    BY Zenon DEF Statements, AtMembers, AtDevices, AtSubjects, AtSupport
  <2>3. ASSUME NEW r \in Requests
        PROVE  ReportHolds(r)'
    BY <2>1, <2>2 DEF ReportHolds, At
  <2> QED BY <1>1, <1>2, <2>3 DEF ReportsInv, schoolVars
<1>3. ASSUME topic # "office"
      PROVE  RequestsTyped /\ ReportsTypeOK /\ MarksAsWritten
  BY <1>3 DEF FiledInv
<1>4. ASSUME UNCHANGED <<pc, input, schoolVars>>
      PROVE  ReportsInv'
  BY <1>0, <1>1, <1>4, ReportStays DEF ReportsInv, schoolVars
<1>5. CASE School
  <2>1. RegisterBelongs'
    BY <1>5, RegisterKept DEF School, Write, FiledInv, ReportsTypeOK, ReportsInv
  <2> QED BY <1>0, <1>5, <2>1, ReportOutlives DEF School, ReportsInv
<1>6. ASSUME NEW r \in Requests, Mark(r) \/ Remark(r)
      PROVE  ReportsInv'
  <2>1. topic \in {"marks", "notes"}
    BY <1>6 DEF Mark, Remark
  <2>2. /\ pc'[r] \notin ReadingAt
        /\ \A q \in Requests \ {r} : pc'[q] = pc[q] /\ input'[q] = input[q]
    BY <1>3, <1>6, <2>1, FilersMove DEF Mark, Remark
  <2>3. UNCHANGED <<rosterVars, fresh>>
    BY <1>6 DEF Mark, Remark, schoolVars
  <2>4. ReportHolds(r)'
    BY <2>2 DEF ReportHolds, At, ReadingAt
  <2> QED BY <1>0, <1>1, <2>1, <2>2, <2>3, <2>4, ReportStays DEF ReportsInv
<1>7. ASSUME NEW r \in Requests, Reader(r)
      PROVE  ReportsInv'
  <2>1. topic = "reading" /\ (ReportsNext(r) \/ DebtorsNext(r))
    BY <1>7 DEF Reader
  <2>2. /\ \A q \in Requests \ {r} : pc'[q] = pc[q] /\ input'[q] = input[q]
        /\ UNCHANGED <<rosterVars, grade>>
        /\ fresh' \in {fresh, fresh \cup {r}}
    BY <1>3, <2>1, ReaderMoves
  <2>3. ReportHolds(r)'
    BY <1>0, <1>3, <2>1, ReaderHolds DEF ReportsInv
  <2> QED BY <1>0, <1>1, <2>2, <2>3, ReportStays DEF ReportsInv
<1>8. CASE InSettings \/ AtBoot \/ AtTheDoor \/ UNCHANGED vars
  BY <1>4, <1>8 DEF InSettings, AtBoot, AtTheDoor, vars
<1>9. CASE InOffice
  BY <1>2, <1>9 DEF InOffice
<1> QED BY <1>5, <1>6, <1>7, <1>8, <1>9 DEF Next

\* The inductive invariant of what a report has read and what it says.
THEOREM ReportsInvariant == Spec => []ReportsInv
<1>1. Init => ReportsInv
  BY ReportsBegin
<1>2. ReportsInv /\ FiledInv /\ OfficeHolds' /\ [Next]_vars => ReportsInv'
  BY ReportsKeep
<1> QED BY <1>1, <1>2, FiledInvariant, OfficeInvariant, PTL DEF Spec

-----------------------------------------------------------------------------
(* What the calendar, the registers and the students' pages show of it.      *)

\* How many there are, counted by key.
LEMMA CountedBy ==
  ASSUME NEW F, IsFiniteSet(F), NEW K, IsFiniteSet(K), NEW key \in [F -> K],
         NEW f, DOMAIN f = K, \A k \in K : f[k] = Cardinality({x \in F : key[x] = k})
  PROVE  TotalOf(f) = Cardinality(F)
<1> DEFINE g == [k \in K |-> Cardinality({x \in F : key[x] = k})]
<1>1. Total(g, K) = Cardinality(F)
  BY CountByKey
<1>2. \A k \in K : f[k] = g[k]
  OBVIOUS
<1> HIDE DEF g
<1> QED BY <1>1, <1>2, TotalOfIs, TotalSame

LEMMA RegisterFinite ==
  ASSUME NEW ls \in SUBSET Lessons
  PROVE  IsFiniteSet(ls) /\ IsFiniteSet(RegisterOf(ls))
<1>1. IsFiniteSet(ls) /\ IsFiniteSet(Students)
  BY RosterAssumption, ReportsAssumption, FS_Subset
<1>2. IsFiniteSet(ls \X Students)
  BY <1>1, FS_Product
<1>3. RegisterOf(ls) \in SUBSET (ls \X Students)
  BY DEF RegisterOf
<1> QED BY <1>1, <1>2, <1>3, FS_Subset

\* As many pairs as there are second, or first, members.
LEMMA PairsWith ==
  ASSUME NEW x, NEW S, IsFiniteSet(S)
  PROVE  Cardinality({x} \X S) = Cardinality(S) /\ Cardinality(S \X {x}) = Cardinality(S)
<1>1. IsFiniteSet({x}) /\ Cardinality({x}) = 1 /\ Cardinality(S) \in Nat
  BY FS_Singleton, FS_CardinalityType
<1>2. /\ Cardinality({x} \X S) = Cardinality({x}) * Cardinality(S)
      /\ Cardinality(S \X {x}) = Cardinality(S) * Cardinality({x})
  BY <1>1, FS_Product
<1> QED BY <1>1, <1>2

LEMMA RegisterByLesson ==
  ASSUME NEW ls \in SUBSET Lessons, \A l \in ls : Here(l)
  PROVE  TotalOf([l \in ls |-> Cardinality(DOMAIN RegisterFor(Admin, l))]) = Cardinality(RegisterOf(ls))
<1>1. PICK F : F = RegisterOf(ls)
  OBVIOUS
<1>2. PICK key : key = [c \in F |-> c[1]]
  OBVIOUS
<1>3. IsFiniteSet(F) /\ IsFiniteSet(ls) /\ IsFiniteSet(Students) /\ key \in [F -> ls]
  BY <1>1, <1>2, RegisterFinite, ReportsAssumption DEF RegisterOf
<1>4. PICK f : f = [l \in ls |-> Cardinality(DOMAIN RegisterFor(Admin, l))]
  OBVIOUS
<1>5. ASSUME NEW l \in ls
      PROVE  f[l] = Cardinality({c \in F : key[c] = l})
  <2>1. PICK marked : marked = {s \in Students : att[l][s] # NoMark}
    OBVIOUS
  <2>2. DOMAIN RegisterFor(Admin, l) = marked
    BY <2>1 DEF RegisterFor, FindLesson
  <2>3. {c \in F : key[c] = l} = {l} \X marked
    BY <1>1, <1>2, <2>1 DEF RegisterOf
  <2>4. f[l] = Cardinality(marked)
    BY <1>4, <2>2
  <2>5. IsFiniteSet(marked)
    BY <1>3, <2>1, FS_Subset
  <2>6. Cardinality({l} \X marked) = Cardinality(marked)
    BY <2>5, PairsWith
  <2> QED BY <2>3, <2>4, <2>6
<1>6. DOMAIN f = ls
  BY <1>4
<1> QED BY <1>1, <1>3, <1>4, <1>5, <1>6, CountedBy

LEMMA RegisterByStudent ==
  ASSUME RegisterBelongs, NEW ls, ls = {l \in Lessons : Here(l)}
  PROVE  OverStudents("attendance", "marked") = Cardinality(RegisterOf(ls))
<1>1. PICK F : F = RegisterOf(ls)
  OBVIOUS
<1>2. PICK key : key = [c \in F |-> c[2]]
  OBVIOUS
<1>3. PICK there : there = {s \in Students : Here(s)}
  OBVIOUS
<1>4. IsFiniteSet(F) /\ IsFiniteSet(ls) /\ IsFiniteSet(there) /\ key \in [F -> there]
  <2>1. ls \in SUBSET Lessons /\ there \in SUBSET Students
    BY <1>3
  <2>2. IsFiniteSet(F) /\ IsFiniteSet(ls) /\ IsFiniteSet(there)
    BY <1>1, <2>1, RegisterFinite, ReportsAssumption, FS_Subset
  <2>3. key \in [F -> there]
    BY <1>1, <1>2, <1>3, <2>1 DEF RegisterOf, RegisterBelongs
  <2> QED BY <2>2, <2>3
<1>5. PICK f : f = [s \in there |-> ProgressForStudent(s)["attendance"]["marked"]]
  OBVIOUS
<1>6. ASSUME NEW s \in there
      PROVE  f[s] = Cardinality({c \in F : key[c] = s})
  <2>1. PICK marked : marked = {l \in Lessons : Here(l) /\ att[l][s] # NoMark}
    OBVIOUS
  <2>2. f[s] = Cardinality(marked)
    BY <1>5, <2>1 DEF ProgressForStudent, SummariseProgress, SummariseAttendance
  <2>3. {c \in F : key[c] = s} = marked \X {s}
    BY <1>1, <1>2, <1>3, <2>1 DEF RegisterOf
  <2>4. IsFiniteSet(marked)
    BY <2>1, RosterAssumption, FS_Subset
  <2>5. Cardinality(marked \X {s}) = Cardinality(marked)
    BY <2>4, PairsWith
  <2> QED BY <2>2, <2>3, <2>5
<1>7. OverStudents("attendance", "marked") = TotalOf(f) /\ DOMAIN f = there
  BY <1>3, <1>5 DEF OverStudents
<1>8. TotalOf(f) = Cardinality(F)
  BY <1>4, <1>6, <1>7, CountedBy
<1> QED BY <1>1, <1>7, <1>8

\* Each mark is one student's, who is there, and at most one lesson's.
LEMMA MarksByStudent ==
  ASSUME ReportsTypeOK, MarksAsWritten
  PROVE  /\ TotalOf([s \in Students |-> Cardinality(ListForStudent(Admin, s))]) = Cardinality(Filled)
         /\ OverStudents("grades", "descriptiveCount") = Cardinality(InWords(Filled))
<1>1. \A g \in Filled : grade[g] \in Row /\ grade[g].student \in Students /\ Here(grade[g].student)
  BY DEF Filled, ReportsTypeOK, GradesTypeOK, Row, MarksAsWritten
<1>2. \A T \in SUBSET GradeIds : IsFiniteSet(T)
  BY ReportsAssumption, FS_Subset
<1>3. TotalOf([s \in Students |-> Cardinality(ListForStudent(Admin, s))]) = Cardinality(Filled)
  <2>1. PICK key : key = [g \in Filled |-> grade[g].student]
    OBVIOUS
  <2>2. key \in [Filled -> Students]
    BY <1>1, <2>1
  <2>3. \A s \in Students : ListForStudent(Admin, s) = {g \in Filled : key[g] = s}
    BY <1>1, <2>1 DEF ListForStudent, FindStudent
  <2>4. PICK f : f = [s \in Students |-> Cardinality(ListForStudent(Admin, s))]
    OBVIOUS
  <2>5. DOMAIN f = Students /\ \A s \in Students : f[s] = Cardinality({g \in Filled : key[g] = s})
    BY <2>3, <2>4
  <2>6. IsFiniteSet(Filled) /\ IsFiniteSet(Students)
    BY <1>2, ReportsAssumption DEF Filled
  <2> QED BY <2>2, <2>4, <2>5, <2>6, CountedBy
<1>4. OverStudents("grades", "descriptiveCount") = Cardinality(InWords(Filled))
  <2>1. PICK words : words = InWords(Filled)
    OBVIOUS
  <2>2. PICK there : there = {s \in Students : Here(s)}
    OBVIOUS
  <2>3. PICK key : key = [g \in words |-> grade[g].student]
    OBVIOUS
  <2>4. key \in [words -> there]
    BY <1>1, <2>1, <2>2, <2>3 DEF InWords
  <2>5. PICK f : f = [s \in there |-> ProgressForStudent(s)["grades"]["descriptiveCount"]]
    OBVIOUS
  <2>6. ASSUME NEW s \in there
        PROVE  f[s] = Cardinality({g \in words : key[g] = s})
    <3>1. PICK rows : rows = [g \in {g \in Filled : grade[g].student = s} |-> grade[g].mark]
      OBVIOUS
    <3>2. f[s] = Cardinality(DOMAIN OfKind(rows, "DESCRIPTIVE"))
      BY <2>5, <3>1 DEF ProgressForStudent, SummariseProgress, SummariseGrades
    <3>3. DOMAIN OfKind(rows, "DESCRIPTIVE") = {g \in words : key[g] = s}
      BY <2>1, <2>3, <3>1 DEF OfKind, Restrict, InWords
    <3> QED BY <3>2, <3>3
  <2>7. IsFiniteSet(words) /\ IsFiniteSet(there)
    BY <1>2, <2>1, <2>2, ReportsAssumption, FS_Subset DEF InWords, Filled
  <2>8. OverStudents("grades", "descriptiveCount") = TotalOf(f) /\ DOMAIN f = there
    BY <2>2, <2>5 DEF OverStudents
  <2> QED BY <2>1, <2>4, <2>6, <2>7, <2>8, CountedBy
<1> QED BY <1>3, <1>4

LEMMA MarksByLesson ==
  ASSUME ReportsTypeOK, MarksAsWritten
  PROVE  TotalOf([l \in Lessons |-> Cardinality(ListForLesson(Admin, l))]) <= Cardinality(Filled)
<1>1. PICK filed : filed = {g \in Filled : grade[g].lesson # None}
  OBVIOUS
<1>2. PICK key : key = [g \in filed |-> grade[g].lesson]
  OBVIOUS
<1>3. \A g \in filed : grade[g].lesson \in Lessons /\ Here(grade[g].lesson)
  BY <1>1 DEF Filled, ReportsTypeOK, GradesTypeOK, Row, MarksAsWritten
<1>4. key \in [filed -> Lessons]
  BY <1>2, <1>3
<1>5. None \notin Lessons
  BY GradesAssumption DEF RowIds
<1>6. \A l \in Lessons : ListForLesson(Admin, l) = {g \in filed : key[g] = l}
  BY <1>1, <1>2, <1>3, <1>5 DEF ListForLesson, FindLesson
<1>7. PICK f : f = [l \in Lessons |-> Cardinality(ListForLesson(Admin, l))]
  OBVIOUS
<1>8. DOMAIN f = Lessons /\ \A l \in Lessons : f[l] = Cardinality({g \in filed : key[g] = l})
  BY <1>6, <1>7
<1>9. IsFiniteSet(Filled) /\ filed \in SUBSET Filled
  BY <1>1, ReportsAssumption, FS_Subset DEF Filled
<1>10. IsFiniteSet(filed) /\ Cardinality(filed) <= Cardinality(Filled)
  BY <1>9, FS_Subset
<1>11. TotalOf(f) = Cardinality(filed)
  BY <1>4, <1>8, <1>10, RosterAssumption, CountedBy
<1> QED BY <1>7, <1>10, <1>11

LEMMA CurrentAsShown ==
  ASSUME ReportsTypeOK, MarksAsWritten, RegisterBelongs, NEW report, Current(report)
  PROVE  AsShown(report)
<1>1. PICK shown : shown = FindInRange(Admin, report.window,
                             IF report.scope = None THEN Users ELSE {report.scope})
  OBVIOUS
<1>2. shown = LessonsOf(report)
  BY <1>1, StaffAssumption, GradesAssumption DEF FindInRange, LessonsOf, LessonsIn, Counts, RowIds
<1>3. shown \in SUBSET Lessons /\ \A l \in shown : Here(l)
  BY <1>2 DEF LessonsOf, LessonsIn
<1>4. /\ report.lessons.total = Cardinality(shown)
      /\ report.attendance.marked =
           TotalOf([l \in shown |-> Cardinality(DOMAIN RegisterFor(Admin, l))])
  BY <1>2, <1>3, RegisterByLesson DEF Current
<1>5. ASSUME WholeSchool(report)
      PROVE  /\ report.attendance.marked = OverStudents("attendance", "marked")
             /\ report.grades.count = Cardinality(Filled)
             /\ report.grades.descriptiveCount = Cardinality(InWords(Filled))
  <2>1. LessonsOf(report) = {l \in Lessons : Here(l)}
    BY <1>5 DEF WholeSchool, LessonsOf, LessonsIn, Counts
  <2>2. MarksOf(report) = Filled
    BY <1>5 DEF WholeSchool, MarksOf, Counts
  <2> QED BY <2>1, <2>2, RegisterByStudent DEF Current
<1>6. /\ Cardinality(Filled) \in Nat
      /\ TotalOf([l \in Lessons |-> Cardinality(ListForLesson(Admin, l))]) <= Cardinality(Filled)
  BY MarksByLesson, ReportsAssumption, FS_Subset, FS_CardinalityType DEF Filled
<1>7. WholeSchool(report) =>
        /\ report.attendance.marked = OverStudents("attendance", "marked")
        /\ report.grades.count = TotalOf([s \in Students |-> Cardinality(ListForStudent(Admin, s))])
        /\ report.grades.count >= TotalOf([l \in Lessons |-> Cardinality(ListForLesson(Admin, l))])
        /\ report.grades.descriptiveCount = OverStudents("grades", "descriptiveCount")
  BY <1>5, <1>6, MarksByStudent
<1> QED BY <1>1, <1>4, <1>7 DEF AsShown

\* A report adds up whatever happened while it was read; and with the school standing
\* still it shows what the calendar, the registers, the students' pages and the
\* lessons' own lists show (ReportsService.summary).
THEOREM ReportsAddUp == Spec => []ReportAddsUp
<1>1. ReportsInv /\ FiledInv => ReportAddsUp
  <2> SUFFICES ASSUME ReportsInv, FiledInv
               PROVE  ReportAddsUp
    OBVIOUS
  <2>1. ASSUME NEW r \in Reported
        PROVE  AddsUp(input[r]) /\ (r \in fresh => AsShown(input[r]))
    <3>1. PICK report : report = input[r]
      OBVIOUS
    <3>2. AddsUp(report) /\ (r \in fresh => Current(report))
      BY <3>1 DEF ReportsInv, ReportHolds, Reported, At
    <3> QED BY <3>1, <3>2, CurrentAsShown DEF ReportsInv, FiledInv
  <2> QED BY <2>1 DEF ReportAddsUp
<1> QED BY <1>1, ReportsInvariant, FiledInvariant, PTL

-----------------------------------------------------------------------------
(* The types of the whole server.                                            *)

LEMMA OfficeTyped ==
  ASSUME OfficeHolds, FiledInv
  PROVE  OfficeTypeOK
<1>1. CASE topic = "office"
  BY <1>1, OfficeSafe DEF OfficeHolds, OfficePromises
<1>2. CASE topic # "office"
  <2>1. OfficeInit({{}})
    BY <1>2 DEF OfficeHolds
  <2>2. MembersTypeOK /\ DevicesTypeOK /\ SupportTypeOK
    BY <2>1 DEF OfficeInit, MembersInit, DevicesInit, SupportInit,
                MembersTypeOK, DevicesTypeOK, SupportTypeOK
  <2>3. SubjectsTypeOK
    <3>1. subject \in [Ids -> {None} \cup Subject]
      BY <2>1, SubjectsAssumption DEF OfficeInit, SubjectsInit, Subject
    <3> QED BY <2>1, <3>1 DEF OfficeInit, SubjectsInit, SubjectsTypeOK
  <2>4. \A r \in Requests : ~At(r, "granting")
    BY <1>2 DEF FiledInv, RequestsTyped, Teaching, At
  <2> QED BY <2>2, <2>3, <2>4 DEF OfficeTypeOK
<1> QED BY <1>1, <1>2

LEMMA BootTyped ==
  ASSUME BootInv
  PROVE  BootTypeOK
<1>1. origins \in {"none", "*", "good"}
  BY DEF BootInv
<1> QED BY <1>1 DEF BootInv, EnvFits, BootTypeOK

LEMMA CallersTyped ==
  ASSUME CallersInv
  PROVE  CallersTypeOK
<1>1. calls \in Seq(Calls) /\ clock \in 0 .. MaxClock /\ Len(calls) <= MaxCalls
  BY DEF CallersInv, CallsFit
<1>2. \A i \in DOMAIN calls : calls[i] \in Calls
  BY <1>1
<1> QED BY <1>1, <1>2 DEF Calls, CallersTypeOK

\* Every part of the server keeps its types, whatever the topic.
THEOREM TypeCorrect == Spec => []TypeOK
<1>1. OfficeHolds /\ FiledInv /\ SettingsTypeOK /\ BootInv /\ CallersInv => TypeOK
  BY OfficeTyped, BootTyped, CallersTyped DEF FiledInv, TypeOK
<1> QED BY <1>1, OfficeInvariant, FiledInvariant, SettingsInvariant, BootInvariant, CallersInvariant, PTL
=============================================================================

------------------------------- MODULE Reports -------------------------------
(***************************************************************************)
(* What a school reads about itself (reports.service.ts, the calendar and  *)
(* a student's progress).  A report is several statements, one after the   *)
(* other or together, and the school goes on between them: its roster and  *)
(* registers (Ledger) and its marks (Grades).                              *)
(***************************************************************************)
EXTENDS Grades

CONSTANTS
  Day,               \* lesson or mark -> the day it starts or was given
  Minutes,           \* lesson -> durationMinutes
  SubjectOf,         \* lesson -> its subject, or None
  Today,
  Queries,           \* what is asked: [from, to, tutor], each may be None
  DEFAULT_WINDOW_DAYS, MAX_WINDOW_DAYS, MAX_BREAKDOWN_ROWS, HISTORY_LIMIT,
  Marks,             \* the attendance statuses registers are filled with
  MaxWrites          \* how often the school changes

ASSUME ReportsAssumption ==
  /\ Day \in [Lessons \cup GradeIds -> Int]
  /\ Minutes \in [Lessons -> 5 .. 600]
  /\ IsFiniteSet(Students) /\ IsFiniteSet(GradeIds)
  /\ {DEFAULT_WINDOW_DAYS, MAX_WINDOW_DAYS, MAX_BREAKDOWN_ROWS, HISTORY_LIMIT}
       \subseteq Nat \ {0}
  /\ Marks \subseteq AttendanceStatus
  /\ Today \in Int
  /\ MaxWrites \in Nat

VARIABLES
  writes,  \* how often the school has changed
  fresh,   \* history: requests since whose beginning it has not
  owing    \* history: request -> students in debt all the while it was answered

schoolVars == <<rosterVars, grade, writes, fresh, owing>>

ReportsInit ==
  /\ RosterInit
  /\ GradesInit
  /\ writes = 0
  /\ fresh = {}
  /\ owing = [r \in Requests |-> {}]

InDebt == {s \in Students : Here(s) /\ left[s] < 0}

Reading == {r \in Requests : pc[r] \in {"report", "debtors"}}

\* Rows come and go, which is all that a mark's row feels.
RowsCome ==
  \/ \E s \in Students : RemoveStudent(s)
  \/ \E g \in Groups : RemoveGroup(g)
  \/ \E g \in Groups, s \in Students : AddMember(g, s) \/ RemoveMember(g, s)

AnyChange ==
  \/ RosterNext
  \/ \E l \in Lessons, ms \in [Students -> Marks \cup {NoMark}] :
       Marked(ms) \subseteq StudentIdsFor(l) /\ WriteUp(l, ms, Unstated)

\* The school goes on.
Write(change) ==
  /\ writes < MaxWrites
  /\ change
  /\ Cascade
  /\ writes' = writes + 1
  /\ fresh' = {}
  /\ owing' = [r \in Requests |-> IF r \in Reading THEN owing[r] \cap InDebt' ELSE owing[r]]
  /\ UNCHANGED <<pc, input>>

\* A request that only reads is taken up.
Ask(r, value, p) ==
  /\ At(r, "idle")
  /\ Take(r, value, p)
  /\ fresh' = fresh \cup {r}
  /\ owing' = [owing EXCEPT ![r] = InDebt]
  /\ UNCHANGED <<rosterVars, grade, writes>>

\* One statement of it.
Read(r, field, value) ==
  /\ input[r][field] = None
  /\ input' = [input EXCEPT ![r][field] = value]
  /\ UNCHANGED <<pc, schoolVars>>

-----------------------------------------------------------------------------
(* Windows and whom they count.                                              *)

\* Backwards from the end, which is now unless somebody says otherwise.
Window(q) ==
  LET to == IF q.to = None THEN Today ELSE q.to
  IN [from |-> IF q.from = None THEN to - DEFAULT_WINDOW_DAYS ELSE q.from, to |-> to]

Acceptable(w) == w.from < w.to /\ w.to - w.from <= MAX_WINDOW_DAYS

MayScope(u, q) == u = Admin \/ q.tutor \in {None, u}

\* None is the whole school.
TutorScope(u, q) == IF u = Admin THEN q.tutor ELSE u

Within(x, w) == w.from <= Day[x] /\ Day[x] < w.to

Counts(scope, u) == scope \in {None, u}

LessonsIn(scope, w) == {l \in Lessons : Here(l) /\ Counts(scope, TutorOf[l]) /\ Within(l, w)}

RegisterOf(ls) == {c \in ls \X Students : att[c[1]][c[2]] # NoMark}

-----------------------------------------------------------------------------
(* ReportsService.summary.                                                   *)

AskReport(r, u, q) ==
  /\ MayScope(u, q)
  /\ Acceptable(Window(q))
  /\ Ask(r, [scope |-> TutorScope(u, q), window |-> Window(q), lessons |-> None,
             marks |-> None, grades |-> None, people |-> None], "report")

\* The lessons first, each with the number of its register rows.
ReadLessons(r) ==
  /\ At(r, "report")
  /\ Read(r, "lessons", [l \in LessonsIn(input[r].scope, input[r].window) |->
       [status |-> status[l], rows |-> Cardinality(RegisterOf({l}))]])

\* Mutant: the register of every lesson of the school.
ReadWholeRegister(r) ==
  /\ At(r, "report")
  /\ input[r].lessons # None
  /\ Read(r, "marks", [c \in RegisterOf({l \in Lessons : Here(l)}) |-> att[c[1]][c[2]]])

\* Then three statements together, in whatever order they run.
ReadRegister(r) ==
  /\ At(r, "report")
  /\ input[r].lessons # None
  /\ Read(r, "marks", [c \in RegisterOf(LessonsIn(input[r].scope, input[r].window)) |->
                         att[c[1]][c[2]]])

ReadGrades(r) ==
  /\ At(r, "report")
  /\ input[r].lessons # None
  /\ Read(r, "grades",
       [g \in {g \in Filled : /\ Counts(input[r].scope, grade[g].author)
                              /\ Within(g, input[r].window)} |-> grade[g].mark])

\* The people of a group lesson are the group's members now.
CountStudentsTaught(r) ==
  /\ At(r, "report")
  /\ input[r].lessons # None
  /\ Read(r, "people",
       LET audiences == {AudienceOf[l] : l \in DOMAIN input[r].lessons}
       IN (audiences \cap Students) \cup UNION {members[g] : g \in audiences \cap Groups})

\* Counts and minutes per key.
RowsBy(ls, KeyOf) ==
  [k \in {KeyOf[l] : l \in ls} |->
     LET those == {l \in ls : KeyOf[l] = k}
     IN [lessons |-> Cardinality(those), minutes |-> TotalOf(Restrict(Minutes, those))]]

Busier(a, b) == a.minutes > b.minutes \/ (a.minutes = b.minutes /\ a.lessons > b.lessons)

\* The busiest, as many as are shown; where rows tie, whichever come first.
Breakdown(ls, KeyOf) ==
  LET rows == RowsBy(ls, KeyOf)
      n    == Min({Cardinality(DOMAIN rows), MAX_BREAKDOWN_ROWS})
  IN {Restrict(rows, top) : top \in {ks \in SUBSET DOMAIN rows :
        /\ Cardinality(ks) = n
        /\ \A k \in ks, j \in DOMAIN rows \ ks : ~Busier(rows[j], rows[k])}}

With(lessons, st) == {l \in DOMAIN lessons : lessons[l].status = st}

Summarise(seen, bySubject, byTutor) ==
  LET completed == With(seen.lessons, "COMPLETED")
  IN [scope |-> seen.scope, window |-> seen.window,
      lessons |->
        [total |-> Cardinality(DOMAIN seen.lessons),
         completed |-> Cardinality(completed),
         cancelled |-> Cardinality(With(seen.lessons, "CANCELLED")),
         scheduled |-> Cardinality(With(seen.lessons, "SCHEDULED")),
         unwritten |-> Cardinality({l \in completed : seen.lessons[l].rows = 0})],
      minutesTaught |-> TotalOf(Restrict(Minutes, completed)),
      studentsTaught |-> Cardinality(seen.people),
      attendance |-> SummariseAttendance(seen.marks),
      grades |-> SummariseGrades(seen.grades),
      bySubject |-> bySubject,
      byTutor |-> byTutor]

AnswerReport(r) ==
  LET seen == input[r] IN
  /\ At(r, "report")
  /\ None \notin {seen.lessons, seen.marks, seen.grades, seen.people}
  /\ \E bySubject \in Breakdown(With(seen.lessons, "COMPLETED"), SubjectOf) :
     \E byTutor \in IF seen.scope = None
                    THEN Breakdown(With(seen.lessons, "COMPLETED"), TutorOf) ELSE {None} :
       Take(r, Summarise(seen, bySubject, byTutor), "reported")
  /\ UNCHANGED schoolVars

ReportsContinue(r) ==
  \/ ReadLessons(r) \/ ReadRegister(r) \/ ReadGrades(r) \/ CountStudentsTaught(r)
  \/ AnswerReport(r)

ReportsNext(r) == (\E u \in Users, q \in Queries : AskReport(r, u, q)) \/ ReportsContinue(r)

-----------------------------------------------------------------------------
(* The same rows, read by the calendar, a student's page and their progress. *)

\* The calendar's window runs forward, and a colleague's may be asked for.
FindInRange(u, w, tutors) ==
  {l \in Lessons : /\ Here(l)
                   /\ Within(l, w)
                   /\ IF tutors # {} THEN TutorOf[l] \in tutors ELSE u \in {Admin, TutorOf[l]}}

\* A student's lessons, those of their groups included.
LessonsWith(s) == {l \in Lessons : Here(l) /\ s \in StudentIdsFor(l)}

\* The page: the newest of them, as many as are shown; where days tie, whichever
\* come first.
FindForStudent(s) ==
  LET all == LessonsWith(s)
  IN {page \in SUBSET all :
        /\ Cardinality(page) = Min({Cardinality(all), HISTORY_LIMIT})
        /\ \A l \in page, k \in all \ page : Day[k] <= Day[l]}

\* The lesson, if this user may reach it, with each student who has been marked.
RegisterFor(u, l) ==
  IF FindLesson(u, l) THEN [s \in {s \in Students : att[l][s] # NoMark} |-> att[l][s]] ELSE <<>>

ListForStudent(u, s) == {g \in Filled : FindStudent(u, s) /\ grade[g].student = s}

ListForLesson(u, l) == {g \in Filled : FindLesson(u, l) /\ grade[g].lesson = l}

ProgressForStudent(s) ==
  SummariseProgress(
    [l \in LessonsWith(s) |-> status[l]],
    [g \in {g \in Filled : grade[g].student = s} |-> grade[g].mark],
    [l \in {l \in Lessons : Here(l) /\ att[l][s] # NoMark} |-> att[l][s]])

ReportsTypeOK ==
  /\ RosterTypeOK
  /\ GradesTypeOK
  /\ writes \in 0 .. MaxWrites
  /\ fresh \in SUBSET Requests
  /\ owing \in [Requests -> SUBSET Students]

-----------------------------------------------------------------------------
(* Properties.                                                               *)

SumOf(rows, field) == TotalOf([k \in DOMAIN rows |-> rows[k][field]])

\* A breakdown accounts for every completed lesson and minute, or for as many
\* rows as are shown.
Accounts(rows, report) ==
  \/ /\ SumOf(rows, "lessons") = report.lessons.completed
     /\ SumOf(rows, "minutes") = report.minutesTaught
  \/ /\ Cardinality(DOMAIN rows) = MAX_BREAKDOWN_ROWS
     /\ SumOf(rows, "minutes") < report.minutesTaught

Reported == {r \in Requests : At(r, "reported")}

\* A report on everybody that leaves no lesson and no mark out.
WholeSchool(report) ==
  /\ report.scope = None
  /\ \A l \in Lessons : Here(l) => Within(l, report.window)
  /\ \A g \in Filled : Within(g, report.window)

\* What the students' progress shows between them of a field of a part.
OverStudents(part, field) ==
  TotalOf([s \in {s \in Students : Here(s)} |-> ProgressForStudent(s)[part][field]])

\* Each lesson and each row of a register is counted once, each breakdown complete or
\* full; no average is across kinds or off its scale, and nobody was there more often
\* than they were marked.
AddsUp(report) ==
  LET ls     == report.lessons
      marked == report.attendance
      gs     == report.grades
  IN
  /\ ls.total = ls.completed + ls.cancelled + ls.scheduled
  /\ ls.unwritten <= ls.completed
  /\ \A rows \in {report.bySubject, report.byTutor} \ {None} : Accounts(rows, report)
  /\ marked.marked =
       marked.present + marked.late + marked.absentExcused + marked.absentUnexcused
  /\ marked.rate # None => marked.rate <= 100
  /\ gs.count >= gs.descriptiveCount
       + (IF gs.classic = None THEN 0 ELSE gs.classic.count)
       + (IF gs.percentage = None THEN 0 ELSE gs.percentage.count)
  /\ gs.classic # None => gs.classic.average <= 100 * GradeScaleMax
  /\ gs.percentage # None => gs.percentage.average <= 100 * MAX_PERCENTAGE

\* It agrees with what the calendar, the lessons' registers and the students'
\* progress show.
AsShown(report) ==
  LET gs    == report.grades
      shown == FindInRange(Admin, report.window,
                 IF report.scope = None THEN Users ELSE {report.scope})
  IN
  /\ report.lessons.total = Cardinality(shown)
  /\ report.attendance.marked =
       TotalOf([l \in shown |-> Cardinality(DOMAIN RegisterFor(Admin, l))])
  /\ WholeSchool(report) =>
       /\ report.attendance.marked = OverStudents("attendance", "marked")
       /\ gs.count = TotalOf([s \in Students |-> Cardinality(ListForStudent(Admin, s))])
       /\ gs.count >= TotalOf([l \in Lessons |-> Cardinality(ListForLesson(Admin, l))])
       /\ gs.descriptiveCount = OverStudents("grades", "descriptiveCount")

\* A report adds up whatever happened while it was read, and shows what the rest of
\* the program shows if the school stood still.
ReportAddsUp ==
  \A r \in Reported : AddsUp(input[r]) /\ (r \in fresh => AsShown(input[r]))
=============================================================================

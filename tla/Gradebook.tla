------------------------------ MODULE Gradebook ------------------------------
(***************************************************************************)
(* GradebookService.writeJournal as PostgreSQL runs it: the checks are     *)
(* made outside the transaction, then one READ COMMITTED transaction walks *)
(* the marks.  For each it reads the register row without locking it,      *)
(* moves the balance if the charge changed, and upserts the row; last it   *)
(* updates the lesson and commits.  Several requests run at once, and the  *)
(* roster changes under them.                                              *)
(*                                                                         *)
(* A transaction's writes are kept apart (owed, written) until it commits. *)
(* They are also its row locks: it holds the student rows it owes a change *)
(* to and the register rows it has written, and, through the foreign keys  *)
(* and ON DELETE CASCADE, keeps their parents from being deleted.          *)
(***************************************************************************)
EXTENDS Ledger

CONSTANTS
  Writers,       \* requests that may be in flight together
  Nil,           \* no lesson, no student
  Marks,         \* the attendance statuses payloads carry
  Said,          \* the lesson statuses payloads state, Unstated for none
  OnePerLesson,  \* TRUE: a lesson is never written up twice at once
  MaxWriteUps    \* how many write-ups are asked for in all

ASSUME GradebookAssumption ==
  /\ Nil \notin RowIds
  /\ Marks \subseteq AttendanceStatus
  /\ Said \subseteq LessonStatus \cup {Unstated}
  /\ OnePerLesson \in BOOLEAN
  /\ MaxWriteUps \in Nat

VARIABLES
  pc,       \* writer -> "idle", "read", "charge" or "upsert"
  on,       \* writer -> the lesson being written up
  marks,    \* writer -> the payload: student -> mark, or NoMark
  verdict,  \* writer -> the lesson status the payload amounts to
  now,      \* writer -> the student whose mark is being written
  owed,     \* writer -> student -> uncommitted change to the balance
  written,  \* writer -> student -> uncommitted register row
  raced,    \* history: students marked by two overlapping write-ups
  asked     \* how many write-ups were asked for

writerVars == <<pc, on, marks, verdict, now, owed, written>>
vars == <<rosterVars, writerVars, raced, asked>>

Still == [s \in Students |-> 0]

Init ==
  /\ RosterInit
  /\ pc = [w \in Writers |-> "idle"]
  /\ on = [w \in Writers |-> Nil]
  /\ marks = [w \in Writers |-> Blank]
  /\ verdict = [w \in Writers |-> Unstated]
  /\ now = [w \in Writers |-> Nil]
  /\ owed = [w \in Writers |-> Still]
  /\ written = [w \in Writers |-> Blank]
  /\ raced = {}
  /\ asked = 0

-----------------------------------------------------------------------------
(* Row locks.                                                                *)

HoldsStudent(v, s) == owed[v][s] # 0
HoldsCell(v, l, s) == on[v] = l /\ written[v][s] # NoMark

\* The writers whose locks w has to wait for.
WaitsFor(w) ==
  {v \in Writers \ {w} :
     \/ pc[w] = "charge" /\ HoldsStudent(v, now[w])
     \/ pc[w] = "upsert" /\ HoldsCell(v, on[w], now[w])}

\* The writers of w's cycle each wait inside it.
Deadlocked(w) ==
  \E D \in SUBSET Writers :
    /\ w \in D
    /\ \A v \in D : WaitsFor(v) \cap D # {}
    /\ \A v \in D : \E u \in D : v \in WaitsFor(u)

StudentFree(s) ==
  \A v \in Writers : ~HoldsStudent(v, s) /\ written[v][s] = NoMark

LessonsFree(ls) == \A v \in Writers : on[v] \in ls => written[v] = Blank

-----------------------------------------------------------------------------
(* A write-up.  A request it refuses (no such lesson, a student who is not   *)
(* in it, a student named twice) changes nothing and is left out; that no    *)
(* student is named twice is what lets a payload be a function of students.  *)

Check(w, l, ms, said) ==
  /\ pc[w] = "idle"
  /\ asked < MaxWriteUps
  /\ OnePerLesson => \A v \in Writers : on[v] # l
  /\ Here(l)
  /\ Marked(ms) \subseteq StudentIdsFor(l)
  /\ pc' = [pc EXCEPT ![w] = "read"]
  /\ on' = [on EXCEPT ![w] = l]
  /\ marks' = [marks EXCEPT ![w] = ms]
  /\ verdict' = [verdict EXCEPT ![w] = Verdict(ms, said)]
  /\ asked' = asked + 1
  /\ UNCHANGED <<rosterVars, now, owed, written, raced>>

Todo(w) == {s \in Marked(marks[w]) : written[w][s] = NoMark}

\* findUnique: the committed row, unlocked, decides whether to move the balance.
Read(w, s) ==
  /\ pc[w] = "read"
  /\ s \in Todo(w)
  /\ now' = [now EXCEPT ![w] = s]
  /\ pc' = [pc EXCEPT ![w] =
              IF Bill(att[on[w]][s]) # Bill(marks[w][s])
              THEN "charge" ELSE "upsert"]
  /\ UNCHANGED <<rosterVars, on, marks, verdict, owed, written, raced, asked>>

\* Mutant: a correction does not give the lesson back.
ChargeOnly(w) ==
  /\ pc[w] = "charge"
  /\ WaitsFor(w) = {}
  /\ Here(now[w])
  /\ owed' = [owed EXCEPT ![w][now[w]] = 0 - Bill(marks[w][now[w]])]
  /\ pc' = [pc EXCEPT ![w] = "upsert"]
  /\ UNCHANGED <<rosterVars, on, marks, verdict, now, written, raced, asked>>

\* decrement or increment by one, on the row as it is once its lock is had.
Charge(w) ==
  /\ pc[w] = "charge"
  /\ WaitsFor(w) = {}
  /\ Here(now[w])
  /\ owed' = [owed EXCEPT ![w][now[w]] = 1 - 2 * Bill(marks[w][now[w]])]
  /\ pc' = [pc EXCEPT ![w] = "upsert"]
  /\ UNCHANGED <<rosterVars, on, marks, verdict, now, written, raced, asked>>

\* Mutant: no foreign key from the register to its lesson and student.
UpsertUnchecked(w) ==
  /\ pc[w] = "upsert"
  /\ WaitsFor(w) = {}
  /\ written' = [written EXCEPT ![w][now[w]] = marks[w][now[w]]]
  /\ now' = [now EXCEPT ![w] = Nil]
  /\ pc' = [pc EXCEPT ![w] = "read"]
  /\ UNCHANGED <<rosterVars, on, marks, verdict, owed, raced, asked>>

Upsert(w) ==
  /\ pc[w] = "upsert"
  /\ WaitsFor(w) = {}
  /\ Here(on[w])
  /\ Here(now[w])
  /\ written' = [written EXCEPT ![w][now[w]] = marks[w][now[w]]]
  /\ now' = [now EXCEPT ![w] = Nil]
  /\ pc' = [pc EXCEPT ![w] = "read"]
  /\ UNCHANGED <<rosterVars, on, marks, verdict, owed, raced, asked>>

\* The request is over, one way or the other, and its locks are free again.
Finish(w) ==
  /\ pc' = [pc EXCEPT ![w] = "idle"]
  /\ on' = [on EXCEPT ![w] = Nil]
  /\ marks' = [marks EXCEPT ![w] = Blank]
  /\ verdict' = [verdict EXCEPT ![w] = Unstated]
  /\ now' = [now EXCEPT ![w] = Nil]
  /\ owed' = [owed EXCEPT ![w] = Still]
  /\ written' = [written EXCEPT ![w] = Blank]
  /\ UNCHANGED asked

\* lesson.update, then the commit that makes the whole write-up visible.
WriteLesson(w) ==
  /\ pc[w] = "read"
  /\ Todo(w) = {}
  /\ Here(on[w])
  /\ att' = [att EXCEPT ![on[w]] = Register(on[w], written[w])]
  /\ left' = [s \in Students |-> left[s] + owed[w][s]]
  /\ status' = [status EXCEPT ![on[w]] =
                  IF verdict[w] = Unstated THEN @ ELSE verdict[w]]
  /\ raced' = raced \cup
       {s \in Students :
          /\ written[w][s] # NoMark
          /\ \E v \in Writers \ {w} : on[v] = on[w] /\ now[v] = s}
  /\ Finish(w)
  /\ UNCHANGED <<life, members, paid, erased>>

\* Mutant: the balance is moved outside the transaction, and stays moved.
LeakyRollback(w) ==
  /\ Finish(w)
  /\ left' = [s \in Students |-> left[s] + owed[w][s]]
  /\ UNCHANGED <<life, members, att, status, paid, erased, raced>>

Rollback(w) == Finish(w) /\ UNCHANGED <<rosterVars, raced>>

\* Mutant: a lesson deleted before the last update is not noticed.
RowGoneUnnoticed(w) ==
  /\ \/ pc[w] = "charge" /\ ~Here(now[w])
     \/ pc[w] = "upsert" /\ ~(Here(on[w]) /\ Here(now[w]))
  /\ Rollback(w)

\* P2025 from an update, or the upsert's foreign key: a row has been deleted.
RowGone(w) ==
  /\ \/ pc[w] = "charge" /\ ~Here(now[w])
     \/ pc[w] = "upsert" /\ ~(Here(on[w]) /\ Here(now[w]))
     \/ pc[w] = "read" /\ Todo(w) = {} /\ ~Here(on[w])
  /\ Rollback(w)

\* PostgreSQL ends one transaction of a cycle of waits.
DeadlockVictim(w) == Deadlocked(w) /\ Rollback(w)

\* Prisma's five seconds run out, the connection drops, the process dies.
Abandon(w) == pc[w] # "idle" /\ Rollback(w)

-----------------------------------------------------------------------------
(* The roster under way, each statement waiting for the locks it needs.      *)

LockedRoster ==
  \/ \E s \in Students, n \in Typed : CreateStudent(s, n)
  \/ \E s \in Students, n \in Typed :
       UpdateStudent(s, n) /\ \A v \in Writers : ~HoldsStudent(v, s)
  \/ \E s \in Students :
       RemoveStudent(s) /\ StudentFree(s) /\ LessonsFree(LessonsFor(s))
  \/ \E g \in Groups : CreateGroup(g)
  \/ \E g \in Groups : RemoveGroup(g) /\ LessonsFree(LessonsFor(g))
  \/ \E g \in Groups, s \in Students : AddMember(g, s)
  \/ \E g \in Groups, s \in Students : RemoveMember(g, s)
  \/ \E l \in Lessons : CreateLesson(l)
  \/ \E l \in Lessons, st \in Said \ {Unstated} : UpdateStatus(l, st)

RosterStep == LockedRoster /\ UNCHANGED <<writerVars, raced, asked>>

Step(w) ==
  \/ \E s \in Students : Read(w, s)
  \/ Charge(w)
  \/ Upsert(w)
  \/ WriteLesson(w)
  \/ RowGone(w)

Next ==
  \/ \E w \in Writers, l \in Lessons, ms \in [Students -> Marks \cup {NoMark}],
        said \in Said : Check(w, l, ms, said)
  \/ \E w \in Writers : Step(w) \/ DeadlockVictim(w) \/ Abandon(w)
  \/ RosterStep

Fairness ==
  \A w \in Writers : WF_vars(Step(w)) /\ WF_vars(DeadlockVictim(w))

Spec     == Init /\ [][Next]_vars
FairSpec == Spec /\ Fairness

-----------------------------------------------------------------------------
(* What is checked.                                                          *)

WriterTypeOK ==
  /\ pc \in [Writers -> {"idle", "read", "charge", "upsert"}]
  /\ on \in [Writers -> Lessons \cup {Nil}]
  /\ marks \in [Writers -> [Students -> Cell]]
  /\ verdict \in [Writers -> LessonStatus \cup {Unstated}]
  /\ now \in [Writers -> Students \cup {Nil}]
  /\ owed \in [Writers -> [Students -> {-1, 0, 1}]]
  /\ written \in [Writers -> [Students -> Cell]]
  /\ raced \in SUBSET Students
  /\ asked \in Nat

\* Every row and every request has the shape the schema and the code give it.
TypeOK == RosterTypeOK /\ WriterTypeOK

\* The register and the balances agree: what a student has left is what was
\* bought less the lessons charged (gradebook.service.ts:66-68).
BooksAgree ==
  \A s \in Students : Here(s) => left[s] = paid[s] - Cardinality(Bills(s))

\* The same, for every student on whose row of a register no two write-ups
\* overlapped: nothing else the system does, and no failure, parts them.
BooksAgreeUnlessOverlapped ==
  \A s \in Students \ raced :
    Here(s) => left[s] = paid[s] - Cardinality(Bills(s))

\* A register row, committed or about to be, has its lesson and its student:
\* a deletion running beside a write-up leaves no row behind.
RegisterHasParents ==
  \A l \in Lessons, s \in Students :
    \/ att[l][s] # NoMark
    \/ \E w \in Writers : on[w] = l /\ written[w][s] # NoMark
    => Here(l) /\ Here(s)

\* Attendance outlives everything but its student (groups.service.ts:119-121).
AttendanceSurvives ==
  [][\A l \in Lessons, s \in Students :
       att[l][s] # NoMark /\ att'[l][s] = NoMark => ~Here(s)']_vars

\* Anybody charged means the lesson happened (gradebook.service.ts:75-76): with
\* no caller stating a status, no cancelled lesson has a charged student.
ChargedMeansHeld ==
  \A l \in Lessons : status[l] = "CANCELLED" =>
    \A s \in Students : att[l][s] \notin CHARGED

\* Every write-up ends, whatever it waits for and whatever is deleted under it,
\* without the five-second timeout having to end it.
EveryWriteUpEnds == \A w \in Writers : pc[w] # "idle" ~> pc[w] = "idle"

-----------------------------------------------------------------------------
(* The inductive invariant behind BooksAgreeUnlessOverlapped.                *)

\* Where a request stands fits what it holds.
PhaseFits(w) ==
  /\ pc[w] # "idle" => on[w] \in Lessons
  /\ pc[w] \in {"charge", "upsert"} =>
       /\ now[w] \in Students
       /\ marks[w][now[w]] # NoMark
       /\ written[w][now[w]] = NoMark
  /\ pc[w] \in {"idle", "read"} => now[w] = Nil
  /\ \A s \in Students :
       /\ written[w][s] # NoMark => pc[w] # "idle"
       /\ written[w][s] \in {NoMark, marks[w][s]}
       /\ owed[w][s] # 0 =>
            written[w][s] # NoMark \/ (pc[w] = "upsert" /\ now[w] = s)

PhasesFit == \A w \in Writers : PhaseFits(w)

\* A register row waiting to be committed has one writer.
OneHolder ==
  \A v, w \in Writers : v # w /\ on[v] = on[w] =>
    \A s \in Students : written[v][s] = NoMark \/ written[w][s] = NoMark

\* Registers deleted with their lessons stay deleted.
ErasedAreGone == \A s \in Students : \A l \in erased[s] : life[l] = "gone"

\* What w owes s is the change in what s is charged, judged by the register as
\* it is committed now and not as w read it.
OwesTheChange(w, s) ==
  LET change == Bill(att[on[w]][s]) - Bill(marks[w][s]) IN
  /\ written[w][s] # NoMark => owed[w][s] = change
  /\ now[w] = s /\ life[on[w]] # "gone" /\ life[s] # "gone" =>
       /\ pc[w] = "upsert" => owed[w][s] = change
       /\ pc[w] = "charge" => change # 0

DebtsCurrent == \A w \in Writers, s \in Students \ raced : OwesTheChange(w, s)

IInv ==
  /\ TypeOK
  /\ PhasesFit
  /\ OneHolder
  /\ ErasedAreGone
  /\ RegisterHasParents
  /\ DebtsCurrent
  /\ BooksAgreeUnlessOverlapped
=============================================================================

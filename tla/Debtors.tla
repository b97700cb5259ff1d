------------------------------- MODULE Debtors -------------------------------
(***************************************************************************)
(* Who has run out of paid lessons (debtors.service.ts): the balances are  *)
(* read first, then, together, what is booked and when each was last       *)
(* taught, while the school goes on.                                       *)
(***************************************************************************)
EXTENDS Reports

CONSTANTS
  Thresholds,           \* what is asked for: atOrBelow, or None
  DEFAULT_AT_OR_BELOW

ASSUME DebtorsAssumption ==
  /\ Thresholds \subseteq {None} \cup -100 .. 10
  /\ DEFAULT_AT_OR_BELOW \in Int

AskDebtors(r, u, q, t) ==
  /\ MayScope(u, q)
  /\ Ask(r, [scope |-> TutorScope(u, q),
             atOrBelow |-> IF t = None THEN DEFAULT_AT_OR_BELOW ELSE t,
             students |-> None, own |-> None, inGroups |-> None, lastTaught |-> None],
         "debtors")

Wanted(r) ==
  {s \in Students : /\ Here(s)
                    /\ Counts(input[r].scope, TutorOf[s])
                    /\ left[s] <= input[r].atOrBelow}

ReadStudents(r) ==
  /\ At(r, "debtors")
  /\ Read(r, "students", [s \in Wanted(r) |-> left[s]])

Upcoming(l) == Here(l) /\ status[l] = "SCHEDULED" /\ Day[l] >= Today

\* Once the students are known, for each of them.
ReadPerStudent(r, field, per) ==
  /\ At(r, "debtors")
  /\ input[r].students # None
  /\ DOMAIN input[r].students # {}
  /\ Read(r, field, Restrict(per, DOMAIN input[r].students))

CountOwn(r) ==
  ReadPerStudent(r, "own",
    [s \in Students |-> Cardinality({l \in Lessons : Upcoming(l) /\ AudienceOf[l] = s})])

\* Everybody in the room, by the membership of this moment.
CountInGroups(r) ==
  /\ At(r, "debtors")
  /\ input[r].own # None
  /\ ReadPerStudent(r, "inGroups",
       [s \in Students |->
          Cardinality({l \in Lessons : /\ Upcoming(l)
                                       /\ AudienceOf[l] \in Groups
                                       /\ s \in members[AudienceOf[l]]})])

\* From the register, whatever it says of them.
ReadLastTaught(r) ==
  ReadPerStudent(r, "lastTaught",
    [s \in Students |->
       LET days == {Day[l] : l \in {l \in Lessons : att[l][s] # NoMark}}
       IN IF days = {} THEN None ELSE Max(days)])

Debtor(seen, s) ==
  [paidLessonsLeft |-> seen.students[s],
   lessonsOwed |-> Max({0, -seen.students[s]}),
   lessonsBooked |-> seen.own[s] + seen.inGroups[s],
   lastTaughtAt |-> seen.lastTaught[s]]

\* Mutant: a student with nothing booked is left out, whatever they owe.
ListedIfBooked(row) == row.lessonsBooked > 0

Listed(row) == row.lessonsOwed > 0 \/ row.lessonsBooked > 0

AnswerDebtors(r) ==
  LET seen == input[r]
      rows == [s \in DOMAIN seen.students |-> Debtor(seen, s)]
  IN
  /\ At(r, "debtors")
  /\ None \notin {seen.students, seen.own, seen.inGroups, seen.lastTaught}
  /\ Take(r, [scope |-> seen.scope, atOrBelow |-> seen.atOrBelow,
              rows |-> Restrict(rows, {s \in DOMAIN rows : Listed(rows[s])})], "listed")
  /\ UNCHANGED schoolVars

\* With nobody in want there is nothing else to read.
AnswerNobody(r) ==
  /\ At(r, "debtors")
  /\ input[r].students # None
  /\ DOMAIN input[r].students = {}
  /\ Take(r, [scope |-> input[r].scope, atOrBelow |-> input[r].atOrBelow,
              rows |-> input[r].students], "listed")
  /\ UNCHANGED schoolVars

DebtorsContinue(r) ==
  \/ ReadStudents(r) \/ CountOwn(r) \/ CountInGroups(r) \/ ReadLastTaught(r)
  \/ AnswerDebtors(r) \/ AnswerNobody(r)

DebtorsNext(r) ==
  \/ \E u \in Users, q \in Queries, t \in Thresholds : AskDebtors(r, u, q, t)
  \/ DebtorsContinue(r)

-----------------------------------------------------------------------------
(* Properties.                                                               *)

\* Whoever owed lessons all the while the list was drawn up is on it, with
\* something to pay for; and if the school stood still, the list is exactly who
\* has run out, each with all their lessons to come: as many as their own page
\* shows, unless that is full and does not reach back to what is past.
DebtorsAgree ==
  \A r \in {r \in Requests : At(r, "listed")} :
    LET rows    == input[r].rows
        covered == {s \in Students : Counts(input[r].scope, TutorOf[s])}
        ToCome(ls) == {l \in ls : status[l] = "SCHEDULED" /\ Day[l] >= Today}
    IN
    /\ input[r].atOrBelow >= 0 =>
         \A s \in owing[r] \cap covered : s \in DOMAIN rows /\ rows[s].lessonsOwed > 0
    /\ r \in fresh =>
         /\ DOMAIN rows = {s \in covered : /\ Here(s)
                                           /\ left[s] <= input[r].atOrBelow
                                           /\ left[s] < 0 \/ ToCome(LessonsWith(s)) # {}}
         /\ \A s \in DOMAIN rows :
              /\ rows[s].lessonsBooked = Cardinality(ToCome(LessonsWith(s)))
              /\ \A page \in FindForStudent(s) :
                   \/ rows[s].lessonsBooked = Cardinality(ToCome(page))
                   \/ /\ Cardinality(page) = HISTORY_LIMIT
                      /\ \A l \in page : Day[l] >= Today
=============================================================================

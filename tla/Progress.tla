------------------------------ MODULE Progress -------------------------------
(***************************************************************************)
(* The arithmetic of a gradebook (progress.ts): averages that never cross  *)
(* two kinds of mark, and attendance.  Rows come as functions from their   *)
(* ids; an average or a rate is a whole number of hundredths, or None      *)
(* where there is nothing to divide by.                                    *)
(***************************************************************************)
EXTENDS Requests, FiniteSetsExt

\* What the values of a function add up to.
TotalOf(f) == MapThenSumSet(LAMBDA x : f[x], DOMAIN f)

Round2(n, d) == (200 * n + d) \div (2 * d)

\* Weighted mean of the rows that carry a number.
AverageOf(rows) ==
  LET counted  == {g \in DOMAIN rows : rows[g].value # None /\ rows[g].weight > 0}
      weight   == TotalOf([g \in counted |-> rows[g].weight])
      weighted == TotalOf([g \in counted |-> rows[g].value * rows[g].weight])
  IN IF weight = 0 THEN None
     ELSE [average |-> Round2(weighted, weight), count |-> Cardinality(counted)]

OfKind(rows, kind) == Restrict(rows, {g \in DOMAIN rows : rows[g].kind = kind})

SummariseGrades(rows) ==
  [count |-> Cardinality(DOMAIN rows),
   classic |-> AverageOf(OfKind(rows, "CLASSIC")),
   percentage |-> AverageOf(OfKind(rows, "PERCENTAGE")),
   descriptiveCount |-> Cardinality(DOMAIN OfKind(rows, "DESCRIPTIVE"))]

HowMany(f, v) == Cardinality({x \in DOMAIN f : f[x] = v})

SummariseAttendance(marks) ==
  LET present == HowMany(marks, "PRESENT")
      late    == HowMany(marks, "LATE")
      marked  == Cardinality(DOMAIN marks)
  IN [present |-> present, late |-> late,
      absentExcused |-> HowMany(marks, "ABSENT_EXCUSED"),
      absentUnexcused |-> HowMany(marks, "ABSENT_UNEXCUSED"),
      marked |-> marked,
      rate |-> IF marked = 0 THEN None ELSE Round2(present + late, marked)]

SummariseProgress(lessons, rows, marks) ==
  [lessons |->
     [total |-> Cardinality(DOMAIN lessons),
      completed |-> HowMany(lessons, "COMPLETED"),
      cancelled |-> HowMany(lessons, "CANCELLED"),
      scheduled |-> HowMany(lessons, "SCHEDULED")],
   attendance |-> SummariseAttendance(marks),
   grades |-> SummariseGrades(rows)]
=============================================================================

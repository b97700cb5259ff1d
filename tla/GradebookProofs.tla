--------------------------- MODULE GradebookProofs ---------------------------
(***************************************************************************)
(* Proofs about Gradebook, for every school, every number of requests and  *)
(* every payload: rows and requests keep their types, and the books agree  *)
(* for every student on whose register row no two write-ups overlapped.    *)
(***************************************************************************)
EXTENDS Gradebook, FiniteSetTheorems, TLAPS

\* A charge is one lesson or none.
LEMMA BillType ==
  ASSUME NEW m
  PROVE  /\ Bill(m) \in {0, 1}
         /\ 1 - 2 * Bill(m) \in {-1, 1}
BY DEF Bill

\* A student is charged for finitely many lessons.
LEMMA BillsFinite ==
  ASSUME RosterTypeOK, NEW s \in Students
  PROVE  /\ Bills(s) \subseteq Lessons
         /\ IsFiniteSet(Bills(s))
         /\ Cardinality(Bills(s)) \in Nat
<1>1. Bills(s) \subseteq Lessons
  BY DEF Bills, ChargedIn, RosterTypeOK
<1>2. IsFiniteSet(Bills(s))
  BY <1>1, FS_Subset, RosterAssumption DEF RosterAssumption
<1> QED BY <1>1, <1>2, FS_CardinalityType

\* Writing one student's entry of one writer's record keeps the record's type.
LEMMA PointwiseType ==
  ASSUME NEW T, NEW f \in [Writers -> [Students -> T]],
         NEW w \in Writers, NEW s, NEW x, s \in Students => x \in T
  PROVE  [f EXCEPT ![w][s] = x] \in [Writers -> [Students -> T]]
<1>1. [f[w] EXCEPT ![s] = x] \in [Students -> T]
  OBVIOUS
<1> QED BY <1>1

LEMMA VerdictType ==
  ASSUME NEW ms, NEW said \in LessonStatus \cup {Unstated}
  PROVE  Verdict(ms, said) \in LessonStatus \cup {Unstated}
BY DEF Verdict, StatusFromRegister, LessonStatus

-----------------------------------------------------------------------------
(* Types.                                                                    *)

LEMMA SetBalanceType ==
  ASSUME RosterTypeOK, NEW s \in Students, NEW n \in Typed, SetBalance(s, n)
  PROVE  /\ left' \in [Students -> Int]
         /\ paid' \in [Students -> Int]
BY BillsFinite, RosterAssumption DEF RosterAssumption, SetBalance, RosterTypeOK

LEMMA CascadeType ==
  ASSUME RosterTypeOK, NEW doomed, NEW departing,
         CascadeLessons(doomed, departing)
  PROVE  /\ life' \in [RowIds -> {"unborn", "here", "gone"}]
         /\ att' \in [Lessons -> [Students -> Cell]]
         /\ erased' \in [Students -> SUBSET Lessons]
         /\ UNCHANGED <<left, status, paid>>
BY DEF CascadeLessons, RosterTypeOK, Cell, Blank, ChargedIn

\* The roster's own operations keep its rows well-typed.
LEMMA RosterStepType ==
  ASSUME TypeOK, RosterStep
  PROVE  TypeOK'
<1> USE DEF TypeOK, RosterTypeOK
<1>1. WriterTypeOK'
  BY DEF RosterStep, WriterTypeOK, writerVars
<1>2. ASSUME NEW s \in Students, NEW n \in Typed, CreateStudent(s, n)
      PROVE  RosterTypeOK'
  BY <1>2, SetBalanceType DEF CreateStudent, RowIds
<1>3. ASSUME NEW s \in Students, NEW n \in Typed, UpdateStudent(s, n)
      PROVE  RosterTypeOK'
  BY <1>3, SetBalanceType DEF UpdateStudent
<1>4. ASSUME NEW s \in Students, RemoveStudent(s)
      PROVE  RosterTypeOK'
  BY <1>4, CascadeType DEF RemoveStudent
<1>5. ASSUME NEW g \in Groups, CreateGroup(g)
      PROVE  RosterTypeOK'
  BY <1>5 DEF CreateGroup, RowIds
<1>6. ASSUME NEW g \in Groups, RemoveGroup(g)
      PROVE  RosterTypeOK'
  BY <1>6, CascadeType DEF RemoveGroup
<1>7. ASSUME NEW g \in Groups, NEW s \in Students, AddMember(g, s)
      PROVE  RosterTypeOK'
  BY <1>7 DEF AddMember
<1>8. ASSUME NEW g \in Groups, NEW s \in Students, RemoveMember(g, s)
      PROVE  RosterTypeOK'
  BY <1>8 DEF RemoveMember
<1>9. ASSUME NEW l \in Lessons, CreateLesson(l)
      PROVE  RosterTypeOK'
  BY <1>9 DEF CreateLesson, RowIds
<1>10. ASSUME NEW l \in Lessons, NEW st \in Said \ {Unstated}, UpdateStatus(l, st)
       PROVE  RosterTypeOK'
  BY <1>10, GradebookAssumption DEF GradebookAssumption, UpdateStatus
<1> QED
  BY <1>1, <1>2, <1>3, <1>4, <1>5, <1>6, <1>7, <1>8, <1>9, <1>10
     DEF RosterStep, LockedRoster

LEMMA FinishType ==
  ASSUME WriterTypeOK, NEW w \in Writers, Finish(w)
  PROVE  /\ pc' \in [Writers -> {"idle", "read", "charge", "upsert"}]
         /\ on' \in [Writers -> Lessons \cup {Nil}]
         /\ marks' \in [Writers -> [Students -> Cell]]
         /\ verdict' \in [Writers -> LessonStatus \cup {Unstated}]
         /\ now' \in [Writers -> Students \cup {Nil}]
         /\ owed' \in [Writers -> [Students -> {-1, 0, 1}]]
         /\ written' \in [Writers -> [Students -> Cell]]
         /\ asked' \in Nat
BY DEF Finish, WriterTypeOK, Still, Blank, Cell

LEMMA WriterStepType ==
  ASSUME TypeOK, NEW w \in Writers,
         Step(w) \/ DeadlockVictim(w) \/ Abandon(w)
  PROVE  TypeOK'
<1> USE DEF TypeOK
<1>1. ASSUME NEW s \in Students, Read(w, s)
      PROVE  TypeOK'
  BY <1>1 DEF Read, Todo, Marked, rosterVars, RosterTypeOK, WriterTypeOK
<1>2. CASE Charge(w)
  <2>1. owed' \in [Writers -> [Students -> {-1, 0, 1}]]
    <3>1. 1 - 2 * Bill(marks[w][now[w]]) \in {-1, 0, 1}
      BY BillType
    <3> QED BY <1>2, <3>1, PointwiseType DEF Charge, WriterTypeOK
  <2> QED BY <1>2, <2>1 DEF Charge, rosterVars, RosterTypeOK, WriterTypeOK
<1>3. CASE Upsert(w)
  <2>1. written' \in [Writers -> [Students -> Cell]]
    <3>1. now[w] \in Students => marks[w][now[w]] \in Cell
      BY DEF WriterTypeOK
    <3> QED BY <1>3, <3>1, PointwiseType DEF Upsert, WriterTypeOK
  <2> QED BY <1>3, <2>1 DEF Upsert, rosterVars, RosterTypeOK, WriterTypeOK
<1>4. CASE WriteLesson(w)
  <2>1. WriterTypeOK'
    BY <1>4, FinishType DEF WriteLesson, WriterTypeOK
  <2>2. att' \in [Lessons -> [Students -> Cell]]
    <3>1. \A l \in Lessons : Register(l, written[w]) \in [Students -> Cell]
      BY DEF Register, RosterTypeOK, WriterTypeOK
    <3>2. att' = [att EXCEPT ![on[w]] = Register(on[w], written[w])]
      BY <1>4 DEF WriteLesson
    <3> QED BY <3>1, <3>2 DEF RosterTypeOK
  <2>3. left' \in [Students -> Int]
    <3>1. \A s \in Students : left[s] \in Int
      BY DEF RosterTypeOK
    <3>2. \A s \in Students : owed[w][s] \in {-1, 0, 1}
      BY DEF WriterTypeOK
    <3>3. \A s \in Students : left[s] + owed[w][s] \in Int
      BY <3>1, <3>2
    <3> QED BY <1>4, <3>3 DEF WriteLesson
  <2>4. status' \in [Lessons -> LessonStatus]
    BY <1>4 DEF WriteLesson, RosterTypeOK, WriterTypeOK
  <2> QED BY <1>4, <2>1, <2>2, <2>3, <2>4 DEF WriteLesson, RosterTypeOK
<1>5. CASE Rollback(w)
  BY <1>5, FinishType DEF Rollback, rosterVars, RosterTypeOK, WriterTypeOK
<1> QED
  BY <1>1, <1>2, <1>3, <1>4, <1>5 DEF Step, RowGone, DeadlockVictim, Abandon

\* Rows and requests keep their types, whatever is in flight.
THEOREM TypeCorrect == Spec => []TypeOK
<1>1. Init => TypeOK
  BY RosterAssumption
     DEF Init, RosterInit, TypeOK, RosterTypeOK, WriterTypeOK, RosterAssumption,
         RowIds, Blank, Still, Cell, LessonStatus
<1>2. TypeOK /\ [Next]_vars => TypeOK'
  <2> SUFFICES ASSUME TypeOK, [Next]_vars PROVE TypeOK'
    OBVIOUS
  <2>1. ASSUME NEW w \in Writers, NEW l \in Lessons,
               NEW ms \in [Students -> Marks \cup {NoMark}],
               NEW said \in Said, Check(w, l, ms, said)
        PROVE  TypeOK'
    <3>1. ms \in [Students -> Cell]
      BY GradebookAssumption DEF GradebookAssumption, Cell
    <3>2. Verdict(ms, said) \in LessonStatus \cup {Unstated}
      BY VerdictType, GradebookAssumption DEF GradebookAssumption
    <3> QED
      BY <2>1, <3>1, <3>2
         DEF Check, TypeOK, rosterVars, RosterTypeOK, WriterTypeOK
  <2>2. CASE UNCHANGED vars
    BY <2>2 DEF vars, rosterVars, writerVars, TypeOK, RosterTypeOK, WriterTypeOK
  <2> QED BY <2>1, <2>2, WriterStepType, RosterStepType DEF Next
<1> QED BY <1>1, <1>2, PTL DEF Spec

-----------------------------------------------------------------------------
(* The books.  First the steps that touch nothing committed.                 *)

LEMMA BooksKept ==
  ASSUME UNCHANGED <<rosterVars, raced>>
  PROVE  /\ ErasedAreGone => ErasedAreGone'
         /\ BooksAgreeUnlessOverlapped => BooksAgreeUnlessOverlapped'
<1>1. /\ life' = life /\ left' = left /\ paid' = paid /\ att' = att
      /\ erased' = erased /\ raced' = raced
  BY DEF rosterVars
<1>2. \A s : Bills(s)' = Bills(s)
  BY <1>1 DEF Bills, ChargedIn
<1> QED BY <1>1, <1>2 DEF ErasedAreGone, BooksAgreeUnlessOverlapped, Here

LEMMA CheckKeeps ==
  ASSUME IInv, NEW w \in Writers, NEW l \in Lessons,
         NEW ms \in [Students -> Marks \cup {NoMark}], NEW said \in Said,
         Check(w, l, ms, said), TypeOK'
  PROVE  IInv'
<1> USE DEF IInv, TypeOK, WriterTypeOK
<1>0. /\ \A s \in Students : written[w][s] = NoMark /\ owed[w][s] = 0
      /\ now[w] = Nil
      /\ UNCHANGED <<life, att, now, owed, written, raced>>
  BY DEF Check, PhasesFit, PhaseFits, rosterVars
<1>1. PhasesFit'
  BY <1>0 DEF Check, PhasesFit, PhaseFits
<1>2. OneHolder'
  BY <1>0 DEF Check, OneHolder
<1>3. RegisterHasParents'
  BY <1>0 DEF Check, RegisterHasParents, Here
<1>4. DebtsCurrent'
  BY <1>0, GradebookAssumption
     DEF Check, DebtsCurrent, OwesTheChange, GradebookAssumption, RowIds
<1> QED BY <1>1, <1>2, <1>3, <1>4, BooksKept DEF Check

LEMMA ReadKeeps ==
  ASSUME IInv, NEW w \in Writers, NEW s \in Students, Read(w, s), TypeOK'
  PROVE  IInv'
<1> USE DEF IInv, TypeOK, WriterTypeOK
<1>0. /\ marks[w][s] # NoMark /\ written[w][s] = NoMark /\ owed[w][s] = 0
      /\ UNCHANGED <<life, att, on, marks, owed, written, raced>>
  BY DEF Read, Todo, Marked, PhasesFit, PhaseFits, rosterVars
<1>1. PhasesFit'
  BY <1>0 DEF Read, PhasesFit, PhaseFits
<1>2. OneHolder'
  BY <1>0 DEF OneHolder
<1>3. RegisterHasParents'
  BY <1>0 DEF RegisterHasParents, Here
<1>4. DebtsCurrent'
  <2> SUFFICES ASSUME NEW v \in Writers, NEW t \in Students \ raced
               PROVE  OwesTheChange(v, t)'
    BY <1>0 DEF DebtsCurrent
  <2>1. CASE v = w /\ t = s
    BY <1>0, <2>1, BillType DEF Read, OwesTheChange
  <2>2. CASE ~(v = w /\ t = s)
    BY <1>0, <2>2 DEF Read, DebtsCurrent, OwesTheChange
  <2> QED BY <2>1, <2>2
<1> QED BY <1>1, <1>2, <1>3, <1>4, BooksKept DEF Read

LEMMA ChargeKeeps ==
  ASSUME IInv, NEW w \in Writers, Charge(w), TypeOK'
  PROVE  IInv'
<1> USE DEF IInv, TypeOK, WriterTypeOK
<1> DEFINE s == now[w]
<1>0. /\ s \in Students /\ written[w][s] = NoMark
      /\ UNCHANGED <<life, att, on, marks, now, written, raced>>
      /\ \A v \in Writers, t \in Students :
           ~(v = w /\ t = s) => owed'[v][t] = owed[v][t]
      /\ owed'[w][s] = 1 - 2 * Bill(marks[w][s])
  BY DEF Charge, PhasesFit, PhaseFits, rosterVars
<1>1. PhasesFit'
  BY <1>0 DEF Charge, PhasesFit, PhaseFits
<1>2. OneHolder'
  BY <1>0 DEF OneHolder
<1>3. RegisterHasParents'
  BY <1>0 DEF RegisterHasParents, Here
<1>4. DebtsCurrent'
  <2> SUFFICES ASSUME NEW v \in Writers, NEW t \in Students \ raced
               PROVE  OwesTheChange(v, t)'
    BY <1>0 DEF DebtsCurrent
  <2>1. CASE v = w /\ t = s
    <3>1. life[on[w]] # "gone" /\ life[s] # "gone" =>
            Bill(att[on[w]][s]) - Bill(marks[w][s]) # 0
      BY <2>1 DEF Charge, DebtsCurrent, OwesTheChange
    <3> QED BY <1>0, <2>1, <3>1, BillType DEF Charge, OwesTheChange, Bill
  <2>2. CASE ~(v = w /\ t = s)
    BY <1>0, <2>2 DEF Charge, DebtsCurrent, OwesTheChange
  <2> QED BY <2>1, <2>2
<1> QED BY <1>1, <1>2, <1>3, <1>4, BooksKept DEF Charge

LEMMA UpsertKeeps ==
  ASSUME IInv, NEW w \in Writers, Upsert(w), TypeOK'
  PROVE  IInv'
<1> USE DEF IInv, TypeOK, WriterTypeOK
<1> DEFINE s == now[w]
<1>0. /\ s \in Students /\ written[w][s] = NoMark /\ marks[w][s] # NoMark
      /\ on[w] \in Lessons /\ Here(on[w]) /\ Here(s)
      /\ UNCHANGED <<life, att, on, marks, owed, raced>>
      /\ \A v \in Writers, t \in Students :
           ~(v = w /\ t = s) => written'[v][t] = written[v][t]
      /\ written'[w][s] = marks[w][s]
      /\ \A v \in Writers \ {w} : on[v] = on[w] => written[v][s] = NoMark
  BY DEF Upsert, PhasesFit, PhaseFits, rosterVars, WaitsFor, HoldsCell
<1>1. PhasesFit'
  BY <1>0 DEF Upsert, PhasesFit, PhaseFits
<1>2. OneHolder'
  <2> SUFFICES ASSUME NEW u \in Writers, NEW v \in Writers,
                      u # v, on[u] = on[v], NEW t \in Students
               PROVE  written'[u][t] = NoMark \/ written'[v][t] = NoMark
    BY <1>0 DEF OneHolder
  <2>1. CASE t = s /\ (u = w \/ v = w)
    BY <1>0, <2>1
  <2>2. CASE ~(t = s /\ (u = w \/ v = w))
    BY <1>0, <2>2 DEF OneHolder
  <2> QED BY <2>1, <2>2
<1>3. RegisterHasParents'
  <2> SUFFICES ASSUME NEW l \in Lessons, NEW t \in Students,
                      \/ att[l][t] # NoMark
                      \/ \E v \in Writers : on[v] = l /\ written'[v][t] # NoMark
               PROVE  Here(l) /\ Here(t)
    BY <1>0 DEF RegisterHasParents, Here
  <2>1. CASE l = on[w] /\ t = s
    BY <1>0, <2>1
  <2>2. CASE ~(l = on[w] /\ t = s)
    BY <1>0, <2>2 DEF RegisterHasParents
  <2> QED BY <2>1, <2>2
<1>4. DebtsCurrent'
  <2> SUFFICES ASSUME NEW v \in Writers, NEW t \in Students \ raced
               PROVE  OwesTheChange(v, t)'
    BY <1>0 DEF DebtsCurrent
  <2>1. CASE v = w /\ t = s
    BY <1>0, <2>1 DEF Upsert, DebtsCurrent, OwesTheChange, Here
  <2>2. CASE ~(v = w /\ t = s)
    BY <1>0, <2>2 DEF Upsert, DebtsCurrent, OwesTheChange
  <2> QED BY <2>1, <2>2
<1> QED BY <1>1, <1>2, <1>3, <1>4, BooksKept DEF Upsert

LEMMA Finished ==
  ASSUME IInv, NEW w \in Writers, Finish(w), TypeOK'
  PROVE  /\ \A v \in Writers \ {w} :
              /\ pc'[v] = pc[v] /\ on'[v] = on[v] /\ marks'[v] = marks[v]
              /\ now'[v] = now[v] /\ owed'[v] = owed[v]
              /\ written'[v] = written[v]
         /\ pc'[w] = "idle" /\ now'[w] = Nil
         /\ \A s \in Students : written'[w][s] = NoMark /\ owed'[w][s] = 0
         /\ PhasesFit'
         /\ OneHolder'
<1> USE DEF IInv, TypeOK, WriterTypeOK
<1>1. \A v \in Writers \ {w} :
        /\ pc'[v] = pc[v] /\ on'[v] = on[v] /\ marks'[v] = marks[v]
        /\ now'[v] = now[v] /\ owed'[v] = owed[v] /\ written'[v] = written[v]
  BY DEF Finish
<1>2. /\ pc'[w] = "idle" /\ now'[w] = Nil
      /\ \A s \in Students : written'[w][s] = NoMark /\ owed'[w][s] = 0
  BY DEF Finish, Blank, Still
<1>3. ASSUME NEW v \in Writers
      PROVE  PhaseFits(v)'
  <2>1. CASE v = w
    BY <1>2, <2>1 DEF PhaseFits
  <2>2. CASE v # w
    BY <1>1, <2>2 DEF PhasesFit, PhaseFits
  <2> QED BY <2>1, <2>2
<1>4. ASSUME NEW u \in Writers, NEW v \in Writers, u # v, on'[u] = on'[v],
             NEW s \in Students
      PROVE  written'[u][s] = NoMark \/ written'[v][s] = NoMark
  <2>1. CASE u = w \/ v = w
    BY <1>2, <2>1
  <2>2. CASE u # w /\ v # w
    BY <1>1, <1>4, <2>2 DEF OneHolder
  <2> QED BY <2>1, <2>2
<1> QED BY <1>1, <1>2, <1>3, <1>4 DEF PhasesFit, OneHolder

LEMMA RollbackKeeps ==
  ASSUME IInv, NEW w \in Writers, Rollback(w), TypeOK'
  PROVE  IInv'
<1>0. /\ UNCHANGED <<life, att, raced>>
      /\ Finish(w)
  BY DEF Rollback, rosterVars
<1>1. RegisterHasParents'
  <2> SUFFICES ASSUME NEW l \in Lessons, NEW s \in Students,
                      \/ att[l][s] # NoMark
                      \/ \E v \in Writers : on'[v] = l /\ written'[v][s] # NoMark
               PROVE  Here(l) /\ Here(s)
    BY <1>0 DEF RegisterHasParents, Here
  <2>1. \A v \in Writers : written'[v][s] # NoMark =>
           on'[v] = on[v] /\ written[v][s] # NoMark
    BY <1>0, Finished
  <2> QED BY <2>1 DEF IInv, RegisterHasParents
<1>2. DebtsCurrent'
  <2> SUFFICES ASSUME NEW v \in Writers, NEW s \in Students \ raced
               PROVE  OwesTheChange(v, s)'
    BY <1>0 DEF DebtsCurrent
  <2>1. CASE v = w
    BY <1>0, <2>1, Finished, GradebookAssumption
       DEF OwesTheChange, GradebookAssumption, RowIds
  <2>2. CASE v # w
    BY <1>0, <2>2, Finished DEF IInv, DebtsCurrent, OwesTheChange
  <2> QED BY <2>1, <2>2
<1> QED BY <1>0, <1>1, <1>2, Finished, BooksKept DEF IInv, Rollback

-----------------------------------------------------------------------------
(* The commit.                                                               *)

LEMMA CommitKeeps ==
  ASSUME IInv, NEW w \in Writers, WriteLesson(w), TypeOK'
  PROVE  IInv'
<1> USE DEF IInv, TypeOK, WriterTypeOK
<1> DEFINE l == on[w]
<1>c. /\ l \in Lessons /\ Here(l) /\ pc[w] = "read"
      /\ UNCHANGED <<life, erased, paid>>
      /\ Finish(w)
  BY DEF WriteLesson, PhasesFit, PhaseFits
<1>0. /\ \A v \in Writers \ {w} :
           /\ pc'[v] = pc[v] /\ on'[v] = on[v] /\ marks'[v] = marks[v]
           /\ now'[v] = now[v] /\ owed'[v] = owed[v] /\ written'[v] = written[v]
      /\ now'[w] = Nil
      /\ \A s \in Students : written'[w][s] = NoMark
      /\ PhasesFit' /\ OneHolder'
  BY <1>c, Finished
<1>a. /\ \A k \in Lessons \ {l} : att'[k] = att[k]
      /\ \A s \in Students :
           att'[l][s] = IF written[w][s] # NoMark THEN written[w][s]
                        ELSE att[l][s]
  BY <1>0, <1>c DEF WriteLesson, Register, RosterTypeOK
<1>b. \A s \in Students \ raced' :
        /\ s \notin raced
        /\ written[w][s] # NoMark =>
             \A v \in Writers \ {w} : on[v] = l => now[v] # s
  BY DEF WriteLesson
<1>3. RegisterHasParents'
  <2> SUFFICES ASSUME NEW k \in Lessons, NEW s \in Students,
                      \/ att'[k][s] # NoMark
                      \/ \E v \in Writers : on'[v] = k /\ written'[v][s] # NoMark
               PROVE  Here(k) /\ Here(s)
    BY <1>0, <1>c DEF RegisterHasParents, Here
  <2>1. att'[k][s] # NoMark =>
          att[k][s] # NoMark \/ (k = l /\ written[w][s] # NoMark)
    BY <1>a
  <2>2. \A v \in Writers : written'[v][s] # NoMark =>
           on'[v] = on[v] /\ written[v][s] # NoMark
    BY <1>0, <1>c
  <2> QED BY <2>1, <2>2 DEF RegisterHasParents
<1>4. DebtsCurrent'
  <2> SUFFICES ASSUME NEW v \in Writers, NEW s \in Students \ raced'
               PROVE  OwesTheChange(v, s)'
    BY DEF DebtsCurrent
  <2>1. CASE v = w
    BY <1>0, <1>c, <2>1, GradebookAssumption
       DEF OwesTheChange, GradebookAssumption, RowIds
  <2>2. CASE v # w /\ on[v] = l /\ written[w][s] # NoMark
    BY <1>0, <1>c, <1>b, <2>2 DEF OwesTheChange, OneHolder
  <2>3. CASE v # w /\ ~(on[v] = l /\ written[w][s] # NoMark)
    <3>1. on[v] \in Lessons => att'[on[v]][s] = att[on[v]][s]
      BY <1>a, <2>3
    <3>2. OwesTheChange(v, s)
      BY <1>b DEF DebtsCurrent
    <3>3. written[v][s] # NoMark \/ now[v] = s => on[v] \in Lessons
      BY GradebookAssumption DEF PhasesFit, PhaseFits, GradebookAssumption, RowIds
    <3> QED BY <1>0, <1>c, <2>3, <3>1, <3>2, <3>3 DEF OwesTheChange
  <2> QED BY <2>1, <2>2, <2>3
<1>5. ErasedAreGone'
  BY <1>0, <1>c DEF ErasedAreGone
<1>6. BooksAgreeUnlessOverlapped'
  <2> SUFFICES ASSUME NEW s \in Students \ raced', Here(s)
               PROVE  left'[s] = paid[s] - Cardinality(Bills(s)')
    BY <1>0, <1>c DEF BooksAgreeUnlessOverlapped, Here
  <2>1. /\ left[s] = paid[s] - Cardinality(Bills(s))
        /\ left'[s] = left[s] + owed[w][s]
    BY <1>b DEF BooksAgreeUnlessOverlapped, WriteLesson
  <2>2. CASE written[w][s] = NoMark
    <3>1. owed[w][s] = 0
      BY <1>0, <1>c, <2>2 DEF PhasesFit, PhaseFits
    <3>2. ChargedIn(s)' = ChargedIn(s)
      BY <1>a, <2>2 DEF ChargedIn
    <3>3. Bills(s)' = Bills(s)
      BY <1>0, <1>c, <3>2 DEF Bills
    <3> QED BY <2>1, <3>1, <3>3 DEF RosterTypeOK
  <2>3. CASE written[w][s] # NoMark
    <3>1. owed[w][s] = Bill(att[l][s]) - Bill(written[w][s])
      BY <1>b, <2>3 DEF DebtsCurrent, OwesTheChange, PhasesFit, PhaseFits
    <3>2. l \notin erased[s]
      BY <1>0, <1>c DEF ErasedAreGone, Here
    <3>3. l \in Bills(s) <=> att[l][s] \in CHARGED
      BY <1>0, <1>c, <3>2 DEF Bills, ChargedIn
    <3>4. Bills(s)' = IF written[w][s] \in CHARGED
                      THEN Bills(s) \cup {l} ELSE Bills(s) \ {l}
      BY <1>0, <1>c, <1>a, <2>3, <3>2 DEF Bills, ChargedIn
    <3>5. Cardinality(Bills(s)') =
            Cardinality(Bills(s)) + Bill(written[w][s]) - Bill(att[l][s])
      <4>1. IsFiniteSet(Bills(s)) /\ Cardinality(Bills(s)) \in Nat
        BY BillsFinite
      <4>2. /\ Cardinality(Bills(s) \cup {l}) =
                   IF l \in Bills(s) THEN Cardinality(Bills(s))
                   ELSE Cardinality(Bills(s)) + 1
            /\ Cardinality(Bills(s) \ {l}) =
                   IF l \in Bills(s) THEN Cardinality(Bills(s)) - 1
                   ELSE Cardinality(Bills(s))
        BY <4>1, FS_AddElement, FS_RemoveElement
      <4>3. CASE written[w][s] \in CHARGED
        BY <3>3, <3>4, <4>1, <4>2, <4>3 DEF Bill
      <4>4. CASE written[w][s] \notin CHARGED
        BY <3>3, <3>4, <4>1, <4>2, <4>4 DEF Bill
      <4> QED BY <4>3, <4>4
    <3>6. /\ Cardinality(Bills(s)) \in Int
          /\ Bill(written[w][s]) \in Int /\ Bill(att[l][s]) \in Int
          /\ paid[s] \in Int /\ left[s] \in Int
      BY BillsFinite, BillType DEF RosterTypeOK
    <3> QED BY <2>1, <3>1, <3>5, <3>6
  <2> QED BY <2>2, <2>3
<1> QED BY <1>0, <1>c, <1>3, <1>4, <1>5, <1>6

-----------------------------------------------------------------------------
(* The roster changing under the write-ups.                                  *)

NothingDeleted ==
  \A x \in RowIds :
    /\ life[x] = "here" => life'[x] = "here"
    /\ life[x] = "gone" <=> life'[x] = "gone"

\* A step that deletes nothing leaves the requests and the register as sound
\* as they were.
LEMMA AdditionKeeps ==
  ASSUME IInv, UNCHANGED <<writerVars, raced, att, erased>>,
         NothingDeleted
  PROVE  /\ PhasesFit' /\ OneHolder' /\ ErasedAreGone'
         /\ RegisterHasParents' /\ DebtsCurrent'
         /\ \A s : Bills(s)' = Bills(s)
<1> USE DEF IInv, writerVars, NothingDeleted
<1>1. PhasesFit'
  BY DEF PhasesFit, PhaseFits
<1>2. OneHolder'
  BY DEF OneHolder
<1>3. ErasedAreGone'
  BY DEF ErasedAreGone, RowIds, TypeOK, RosterTypeOK
<1>4. RegisterHasParents'
  <2> SUFFICES ASSUME NEW l \in Lessons, NEW s \in Students,
                      \/ att[l][s] # NoMark
                      \/ \E w \in Writers : on[w] = l /\ written[w][s] # NoMark
               PROVE  life'[l] = "here" /\ life'[s] = "here"
    BY DEF RegisterHasParents, Here
  <2>1. life[l] = "here" /\ life[s] = "here"
    BY DEF RegisterHasParents, Here
  <2> QED BY <2>1 DEF RowIds
<1>5. DebtsCurrent'
  <2> SUFFICES ASSUME NEW w \in Writers, NEW s \in Students \ raced
               PROVE  OwesTheChange(w, s)'
    BY DEF DebtsCurrent
  <2>1. OwesTheChange(w, s)
    BY DEF DebtsCurrent
  <2>2. now[w] = s => on[w] \in RowIds /\ s \in RowIds
    BY GradebookAssumption
       DEF PhasesFit, PhaseFits, GradebookAssumption, RowIds, TypeOK, WriterTypeOK
  <2> QED BY <2>1, <2>2 DEF OwesTheChange
<1>6. \A s : Bills(s)' = Bills(s)
  BY DEF Bills, ChargedIn
<1> QED BY <1>1, <1>2, <1>3, <1>4, <1>5, <1>6

LEMMA SetBalanceKeeps ==
  ASSUME IInv, TypeOK', UNCHANGED <<writerVars, raced>>,
         NEW s \in Students, NEW n \in Typed,
         CreateStudent(s, n) \/ UpdateStudent(s, n)
  PROVE  IInv'
<1>0. RosterTypeOK /\ BooksAgreeUnlessOverlapped /\ raced' = raced
  BY DEF IInv, TypeOK
<1>1. /\ UNCHANGED <<att, erased>>
      /\ SetBalance(s, n)
      /\ NothingDeleted
      /\ \A t \in Students \ {s} : Here(t)' => Here(t)
  BY <1>0 DEF CreateStudent, UpdateStudent, RosterTypeOK, Here, RowIds, NothingDeleted
<1>2. \A t : Bills(t)' = Bills(t)
  BY <1>1, AdditionKeeps
<1>3. n \in Int /\ Cardinality(Bills(s)) \in Int
  BY <1>0, BillsFinite, RosterAssumption DEF RosterAssumption
<1>4. /\ left'[s] = n /\ paid'[s] = n + Cardinality(Bills(s))
      /\ \A t \in Students \ {s} : left'[t] = left[t] /\ paid'[t] = paid[t]
  BY <1>0, <1>1 DEF SetBalance, RosterTypeOK
<1>5. BooksAgreeUnlessOverlapped'
  <2> SUFFICES ASSUME NEW t \in Students \ raced, Here(t)'
               PROVE  left'[t] = paid'[t] - Cardinality(Bills(t))
    BY <1>0, <1>2 DEF BooksAgreeUnlessOverlapped
  <2>1. CASE t = s
    BY <1>3, <1>4, <2>1
  <2>2. CASE t # s
    BY <1>0, <1>1, <1>4, <2>2 DEF BooksAgreeUnlessOverlapped
  <2> QED BY <2>1, <2>2
<1> QED BY <1>1, <1>5, AdditionKeeps DEF IInv

\* A step that moves no balance and deletes nothing keeps the whole invariant.
LEMMA ScheduleKeeps ==
  ASSUME IInv, TypeOK', UNCHANGED <<writerVars, raced, att, erased, left, paid>>,
         NothingDeleted,
         \A s \in Students : life'[s] = life[s]
  PROVE  IInv'
<1>1. \A s : Bills(s)' = Bills(s)
  BY AdditionKeeps
<1>2. BooksAgreeUnlessOverlapped'
  BY <1>1 DEF IInv, BooksAgreeUnlessOverlapped, Here
<1> QED BY <1>2, AdditionKeeps DEF IInv

LEMMA CascadeKeeps ==
  ASSUME IInv, TypeOK', UNCHANGED <<writerVars, raced>>,
         NEW doomed \in SUBSET Lessons,
         NEW departing \in SUBSET (Students \cup Groups),
         CascadeLessons(doomed, departing), LessonsFree(doomed),
         \A s \in departing \cap Students : StudentFree(s)
  PROVE  IInv'
<1> USE DEF IInv, TypeOK, WriterTypeOK, writerVars
<1>0. /\ doomed \cap Students = {} /\ departing \cap Lessons = {}
      /\ UNCHANGED <<left, paid, raced>>
  BY RosterAssumption DEF RosterAssumption, CascadeLessons
<1>1. /\ \A l \in Lessons : life'[l] = IF l \in doomed THEN "gone" ELSE life[l]
      /\ \A s \in Students :
           life'[s] = IF s \in departing THEN "gone" ELSE life[s]
      /\ \A l \in Lessons, s \in Students :
           att'[l][s] = IF l \in doomed \/ s \in departing THEN NoMark
                        ELSE att[l][s]
      /\ \A s \in Students : erased'[s] = erased[s] \cup (ChargedIn(s) \cap doomed)
  BY <1>0 DEF CascadeLessons, RowIds, Blank
<1>2. \A w \in Writers, s \in Students : written[w][s] # NoMark =>
        on[w] \in Lessons /\ on[w] \notin doomed /\ s \notin departing
  BY DEF LessonsFree, StudentFree, Blank, PhasesFit, PhaseFits
<1>3. PhasesFit' /\ OneHolder'
  BY DEF PhasesFit, PhaseFits, OneHolder
<1>4. ErasedAreGone'
  BY <1>1 DEF ErasedAreGone, RosterTypeOK
<1>5. RegisterHasParents'
  <2> SUFFICES ASSUME NEW l \in Lessons, NEW s \in Students,
                      \/ att'[l][s] # NoMark
                      \/ \E w \in Writers : on[w] = l /\ written[w][s] # NoMark
               PROVE  life'[l] = "here" /\ life'[s] = "here"
    BY DEF RegisterHasParents, Here
  <2>1. l \notin doomed /\ s \notin departing
    BY <1>1, <1>2
  <2>2. life'[l] = life[l] /\ life'[s] = life[s] /\ att'[l][s] = att[l][s]
    BY <1>1, <2>1
  <2>3. Here(l) /\ Here(s)
    BY <2>2 DEF RegisterHasParents
  <2> QED BY <2>2, <2>3 DEF Here
<1>6. DebtsCurrent'
  <2> SUFFICES ASSUME NEW w \in Writers, NEW s \in Students \ raced
               PROVE  OwesTheChange(w, s)'
    BY <1>0 DEF DebtsCurrent
  <2>1. OwesTheChange(w, s)
    BY DEF DebtsCurrent
  <2>2. written[w][s] # NoMark => att'[on[w]][s] = att[on[w]][s]
    BY <1>1, <1>2
  <2>3. now[w] = s => on[w] \in Lessons
    BY GradebookAssumption DEF PhasesFit, PhaseFits, GradebookAssumption, RowIds
  <2>4. now[w] = s /\ life'[on[w]] # "gone" /\ life'[s] # "gone" =>
          /\ att'[on[w]][s] = att[on[w]][s]
          /\ life[on[w]] # "gone" /\ life[s] # "gone"
    BY <1>1, <2>3
  <2> QED BY <2>1, <2>2, <2>4 DEF OwesTheChange
<1>7. BooksAgreeUnlessOverlapped'
  <2> SUFFICES ASSUME NEW s \in Students \ raced, Here(s)'
               PROVE  left[s] = paid[s] - Cardinality(Bills(s)')
    BY <1>0 DEF BooksAgreeUnlessOverlapped
  <2>1. s \notin departing /\ Here(s)
    BY <1>1 DEF Here
  <2>2. ChargedIn(s)' = ChargedIn(s) \ doomed
    BY <1>1, <2>1 DEF ChargedIn, CHARGED, NoMark
  <2>3. Bills(s)' = Bills(s)
    BY <1>1, <2>2 DEF Bills
  <2> QED BY <2>1, <2>3 DEF BooksAgreeUnlessOverlapped
<1> QED BY <1>3, <1>4, <1>5, <1>6, <1>7

LEMMA RosterKeeps ==
  ASSUME IInv, TypeOK', RosterStep
  PROVE  IInv'
<1>0. UNCHANGED <<writerVars, raced>>
  BY DEF RosterStep
<1>a. life \in [RowIds -> {"unborn", "here", "gone"}]
  BY DEF IInv, TypeOK, RosterTypeOK
<1>1. ASSUME NEW s \in Students, NEW n \in Typed,
             CreateStudent(s, n) \/ UpdateStudent(s, n)
      PROVE  IInv'
  BY <1>0, <1>1, SetBalanceKeeps
<1>2. ASSUME NEW s \in Students, RemoveStudent(s), StudentFree(s),
             LessonsFree(LessonsFor(s))
      PROVE  IInv'
  <2>1. LessonsFor(s) \in SUBSET Lessons
    BY DEF LessonsFor
  <2> QED BY <1>0, <1>2, <2>1, CascadeKeeps DEF RemoveStudent
<1>3. ASSUME NEW g \in Groups, RemoveGroup(g), LessonsFree(LessonsFor(g))
      PROVE  IInv'
  <2>1. LessonsFor(g) \in SUBSET Lessons
    BY DEF LessonsFor
  <2>2. {g} \cap Students = {}
    BY RosterAssumption DEF RosterAssumption
  <2> QED BY <1>0, <1>3, <2>1, <2>2, CascadeKeeps DEF RemoveGroup
<1>4. ASSUME NEW g \in Groups, CreateGroup(g)
      PROVE  IInv'
  <2>1. /\ NothingDeleted
        /\ \A s \in Students : life'[s] = life[s]
    BY <1>a, <1>4, RosterAssumption
       DEF CreateGroup, RosterAssumption, RowIds, NothingDeleted
  <2> QED BY <1>0, <1>4, <2>1, ScheduleKeeps DEF CreateGroup
<1>5. ASSUME NEW l \in Lessons, CreateLesson(l)
      PROVE  IInv'
  <2>1. /\ NothingDeleted
        /\ \A s \in Students : life'[s] = life[s]
    BY <1>a, <1>5, RosterAssumption
       DEF CreateLesson, RosterAssumption, RowIds, NothingDeleted
  <2> QED BY <1>0, <1>5, <2>1, ScheduleKeeps DEF CreateLesson
<1>6. ASSUME NEW g \in Groups, NEW s \in Students,
             AddMember(g, s) \/ RemoveMember(g, s)
      PROVE  IInv'
  BY <1>0, <1>6, ScheduleKeeps DEF AddMember, RemoveMember, NothingDeleted
<1>7. ASSUME NEW l \in Lessons, NEW st \in LessonStatus, UpdateStatus(l, st)
      PROVE  IInv'
  BY <1>0, <1>7, ScheduleKeeps DEF UpdateStatus, NothingDeleted
<1>8. Said \ {Unstated} \subseteq LessonStatus
  BY GradebookAssumption DEF GradebookAssumption
<1> QED
  BY <1>1, <1>2, <1>3, <1>4, <1>5, <1>6, <1>7, <1>8 DEF RosterStep, LockedRoster

-----------------------------------------------------------------------------
(* The theorems.                                                             *)

THEOREM InductiveInvariant == Spec => []IInv
<1>1. Init => IInv
  <2> SUFFICES ASSUME Init PROVE IInv
    OBVIOUS
  <2>1. TypeOK
    BY RosterAssumption
       DEF Init, RosterInit, TypeOK, RosterTypeOK, WriterTypeOK,
           RosterAssumption, RowIds, Blank, Still, Cell, LessonStatus
  <2>2. \A s \in Students : Bills(s) = {}
    BY DEF Init, RosterInit, Bills, ChargedIn, Blank, CHARGED, NoMark
  <2>3. BooksAgreeUnlessOverlapped
    <3>1. Cardinality({}) = 0 /\ SeedBalance \in Int
      BY FS_EmptySet, RosterAssumption DEF RosterAssumption
    <3>2. \A s \in Students : left[s] = SeedBalance /\ paid[s] = SeedBalance
      BY DEF Init, RosterInit
    <3> QED BY <2>2, <3>1, <3>2 DEF BooksAgreeUnlessOverlapped
  <2>4. PhasesFit /\ OneHolder /\ ErasedAreGone
    BY DEF Init, RosterInit, PhasesFit, PhaseFits, OneHolder, ErasedAreGone,
           Blank, Still
  <2>5. RegisterHasParents
    BY DEF Init, RosterInit, RegisterHasParents, Blank
  <2>6. DebtsCurrent
    BY GradebookAssumption
       DEF Init, RosterInit, DebtsCurrent, OwesTheChange, Blank,
           GradebookAssumption, RowIds
  <2> QED BY <2>1, <2>3, <2>4, <2>5, <2>6 DEF IInv
<1>2. IInv /\ [Next]_vars /\ TypeOK' => IInv'
  <2> SUFFICES ASSUME IInv, [Next]_vars, TypeOK' PROVE IInv'
    OBVIOUS
  <2>1. ASSUME NEW w \in Writers,
               Step(w) \/ DeadlockVictim(w) \/ Abandon(w)
        PROVE  IInv'
    BY <2>1, ReadKeeps, ChargeKeeps, UpsertKeeps, CommitKeeps, RollbackKeeps
       DEF Step, RowGone, DeadlockVictim, Abandon
  <2>2. CASE UNCHANGED vars
    <3>1. UNCHANGED <<rosterVars, writerVars, raced>>
      BY <2>2 DEF vars
    <3> QED BY <3>1, ScheduleKeeps DEF rosterVars, NothingDeleted
  <2> QED BY <2>1, <2>2, CheckKeeps, RosterKeeps DEF Next
<1>3. IInv => TypeOK
  BY DEF IInv
<1> QED BY <1>1, <1>2, <1>3, TypeCorrect, PTL DEF Spec

\* For a student on whose register row no two write-ups overlapped, what is left
\* is what was bought less what was charged, whatever fails or is deleted.
THEOREM BooksCorrect == Spec => []BooksAgreeUnlessOverlapped
<1>1. IInv => BooksAgreeUnlessOverlapped
  BY DEF IInv
<1> QED BY <1>1, InductiveInvariant, PTL

\* No register row, committed or about to be, outlives its lesson or student.
THEOREM NoOrphanRegister == Spec => []RegisterHasParents
<1>1. IInv => RegisterHasParents
  BY DEF IInv
<1> QED BY <1>1, InductiveInvariant, PTL

-----------------------------------------------------------------------------
(* One write-up of a lesson at a time.                                       *)

\* No lesson is written up twice at once, so that no student is raced for.
OneAtATime ==
  /\ raced = {}
  /\ \A v, w \in Writers : v # w /\ on[v] \in Lessons => on[v] # on[w]

\* Only a payload that marks nobody says nothing of its lesson.
VerdictFits ==
  \A w \in Writers : verdict[w] = Unstated => Marked(marks[w]) = {}

Apart == OneAtATime /\ VerdictFits

LEMMA ApartInit ==
  ASSUME Init
  PROVE  Apart
BY GradebookAssumption
   DEF Init, Apart, OneAtATime, VerdictFits, Marked, Blank, GradebookAssumption, RowIds

\* A statement of Verdict's: it is Unstated only where nobody is marked.
LEMMA VerdictSays ==
  ASSUME NEW ms, NEW said \in LessonStatus \cup {Unstated}, Verdict(ms, said) = Unstated
  PROVE  Marked(ms) = {}
BY DEF Verdict, StatusFromRegister, Unstated, LessonStatus

LEMMA FinishApart ==
  ASSUME IInv, Apart, NEW w \in Writers, Finish(w), raced' = {}
  PROVE  Apart'
<1> USE DEF Apart, IInv, TypeOK, WriterTypeOK
<1>1. /\ \A v \in Writers \ {w} :
           on'[v] = on[v] /\ marks'[v] = marks[v] /\ verdict'[v] = verdict[v]
      /\ on'[w] = Nil /\ marks'[w] = Blank
  BY DEF Finish
<1>2. Nil \notin Lessons
  BY GradebookAssumption DEF GradebookAssumption, RowIds
<1>3. OneAtATime'
  BY <1>1, <1>2 DEF OneAtATime
<1>4. VerdictFits'
  <2>1. Marked(Blank) = {}
    BY DEF Marked, Blank
  <2>2. \A v \in Writers : verdict'[v] = Unstated => Marked(marks'[v]) = {}
    BY <1>1, <2>1 DEF VerdictFits
  <2> QED BY <2>2 DEF VerdictFits, Marked
<1> QED BY <1>3, <1>4

LEMMA ApartNext ==
  ASSUME OnePerLesson, IInv, Apart, [Next]_vars
  PROVE  Apart'
<1> USE DEF Apart
<1>1. ASSUME NEW w \in Writers, NEW l \in Lessons,
             NEW ms \in [Students -> Marks \cup {NoMark}], NEW said \in Said,
             Check(w, l, ms, said)
      PROVE  Apart'
  <2>1. /\ on'[w] = l /\ marks'[w] = ms /\ verdict'[w] = Verdict(ms, said)
        /\ \A v \in Writers \ {w} :
             on'[v] = on[v] /\ marks'[v] = marks[v] /\ verdict'[v] = verdict[v]
        /\ \A v \in Writers : on[v] # l
        /\ raced' = raced
    BY <1>1 DEF Check, IInv, TypeOK, WriterTypeOK
  <2>2. OneAtATime'
    BY <2>1 DEF OneAtATime
  <2>3. said \in LessonStatus \cup {Unstated}
    BY GradebookAssumption DEF GradebookAssumption
  <2>4. VerdictFits'
    BY <2>1, <2>3, VerdictSays DEF VerdictFits, Marked
  <2> QED BY <2>2, <2>4
<1>2. ASSUME NEW w \in Writers, WriteLesson(w)
      PROVE  Apart'
  <2>1. on[w] \in Lessons
    BY <1>2 DEF WriteLesson, IInv, PhasesFit, PhaseFits
  <2>2. raced' = {}
    BY <1>2, <2>1 DEF WriteLesson, OneAtATime
  <2> QED BY <1>2, <2>2, FinishApart DEF WriteLesson
<1>3. ASSUME NEW w \in Writers, Rollback(w)
      PROVE  Apart'
  BY <1>3, FinishApart DEF Rollback, OneAtATime
<1>4. ASSUME UNCHANGED <<on, marks, verdict, raced>>
      PROVE  Apart'
  BY <1>4 DEF OneAtATime, VerdictFits, Marked
<1>5. ASSUME NEW w \in Writers, Step(w) \/ DeadlockVictim(w) \/ Abandon(w)
      PROVE  Apart'
  BY <1>2, <1>3, <1>4, <1>5
     DEF Step, Read, Charge, Upsert, RowGone, DeadlockVictim, Abandon
<1> QED BY <1>1, <1>4, <1>5 DEF Next, RosterStep, vars, writerVars

\* Where a lesson is never written up twice at once, the register and the balances
\* agree for everybody, always (gradebook.service.ts:66-68).
THEOREM BooksAgreeOneByOne ==
  ASSUME OnePerLesson
  PROVE  Spec => []BooksAgree
<1>1. Init => Apart
  BY ApartInit
<1>2. IInv /\ Apart /\ [Next]_vars => Apart'
  BY ApartNext
<1>3. IInv /\ Apart => BooksAgree
  BY DEF IInv, Apart, OneAtATime, BooksAgreeUnlessOverlapped, BooksAgree
<1> QED BY <1>1, <1>2, <1>3, InductiveInvariant, PTL DEF Spec

-----------------------------------------------------------------------------
(* The transaction implements the indivisible write-up of Ledger.            *)

\* Its commit is that step: by then every mark is written and every debt due.
LEMMA CommitIsWriteUp ==
  ASSUME IInv, Apart, NEW w \in Writers, WriteLesson(w)
  PROVE  WriteUp(on[w], written[w], verdict[w])
<1> USE DEF IInv, TypeOK, RosterTypeOK, WriterTypeOK
<1> DEFINE l == on[w]
           ms == written[w]
<1>1. /\ l \in Lessons /\ Here(l)
      /\ ms \in [Students -> Cell] /\ marks[w] \in [Students -> Cell]
      /\ att' = [att EXCEPT ![l] = Register(l, ms)]
      /\ UNCHANGED <<life, members, paid, erased>>
  BY DEF WriteLesson, PhasesFit, PhaseFits
<1>2. \A s \in Marked(ms) : Here(s)
  BY <1>1 DEF RegisterHasParents, Marked
<1>3. ASSUME NEW s \in Students
      PROVE  left[s] + owed[w][s] = left[s] + Bill(att[l][s]) - Bill(Register(l, ms)[s])
  <2>1. Register(l, ms)[s] = IF ms[s] # NoMark THEN ms[s] ELSE att[l][s]
    BY <1>1 DEF Register
  <2>2. /\ Bill(att[l][s]) \in {0, 1} /\ Bill(ms[s]) \in {0, 1}
        /\ left[s] \in Int
    <3> HIDE DEF l, ms
    <3> QED BY BillType
  <2>3. CASE ms[s] # NoMark
    <3>1. ms[s] = marks[w][s]
      BY <2>3 DEF PhasesFit, PhaseFits
    <3>2. owed[w][s] = Bill(att[l][s]) - Bill(ms[s])
      BY <2>3, <3>1 DEF DebtsCurrent, OwesTheChange, Apart, OneAtATime
    <3> QED BY <2>1, <2>2, <2>3, <3>2
  <2>4. CASE ms[s] = NoMark
    <3>1. owed[w][s] = 0
      BY <2>4 DEF PhasesFit, PhaseFits, WriteLesson
    <3> QED BY <2>1, <2>2, <2>4, <3>1
  <2> QED BY <2>3, <2>4
<1>4. left' = [s \in Students |-> left[s] + Bill(att[l][s]) - Bill(Register(l, ms)[s])]
  BY <1>3 DEF WriteLesson
<1>5. verdict[w] = Unstated => Marked(ms) = {}
  BY DEF Apart, VerdictFits, Marked, PhasesFit, PhaseFits
<1>6. Verdict(ms, verdict[w]) = verdict[w]
  BY <1>5 DEF Verdict, StatusFromRegister
<1>7. status' = [status EXCEPT ![l] = IF Verdict(ms, verdict[w]) = Unstated THEN @
                                      ELSE Verdict(ms, verdict[w])]
  BY <1>6 DEF WriteLesson
<1> QED BY <1>1, <1>2, <1>4, <1>7 DEF WriteUp

LEMMA StepIsLedgerStep ==
  ASSUME IInv, Apart, [Next]_vars
  PROVE  [LedgerNext]_rosterVars
<1>1. ASSUME NEW w \in Writers, WriteLesson(w)
      PROVE  LedgerNext
  <2>1. /\ on[w] \in Lessons
        /\ written[w] \in [Students -> Cell]
        /\ verdict[w] \in LessonStatus \cup {Unstated}
    BY <1>1 DEF WriteLesson, IInv, PhasesFit, PhaseFits, TypeOK, WriterTypeOK
  <2> QED BY <1>1, <2>1, CommitIsWriteUp DEF LedgerNext
<1>2. ASSUME NEW w \in Writers, Step(w) \/ DeadlockVictim(w) \/ Abandon(w)
      PROVE  [LedgerNext]_rosterVars
  BY <1>1, <1>2 DEF Step, Read, Charge, Upsert, RowGone, DeadlockVictim, Abandon, Rollback
<1>3. ASSUME LockedRoster
      PROVE  RosterNext
  <2>1. Said \ {Unstated} \subseteq LessonStatus
    BY GradebookAssumption DEF GradebookAssumption
  <2> QED BY <1>3, <2>1 DEF LockedRoster, RosterNext
<1> QED BY <1>2, <1>3 DEF Next, Check, RosterStep, LedgerNext, vars

\* Transaction, locks, failures and all, a write-up is to everybody else the one
\* step that Ledger describes, where a lesson is never written up twice at once.
THEOREM ImplementsLedger ==
  ASSUME OnePerLesson
  PROVE  Spec => LedgerSpec
<1>1. Init => Apart /\ RosterInit
  BY ApartInit DEF Init
<1>2. IInv /\ Apart /\ [Next]_vars => Apart'
  BY ApartNext
<1>3. IInv /\ Apart /\ [Next]_vars => [LedgerNext]_rosterVars
  BY StepIsLedgerStep
<1> QED BY <1>1, <1>2, <1>3, InductiveInvariant, PTL DEF Spec, LedgerSpec
=============================================================================

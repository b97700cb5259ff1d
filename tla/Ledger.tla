------------------------------- MODULE Ledger --------------------------------
(***************************************************************************)
(* What the gradebook promises: a lesson is written up in one indivisible  *)
(* step, which fills in the register, moves each balance by exactly the    *)
(* change in what its student is charged, and settles the lesson's status. *)
(* Gradebook refines this when no two write-ups of a lesson overlap.       *)
(***************************************************************************)
EXTENDS Roster

Unstated == "unstated"

Bill(mark) == IF mark \in CHARGED THEN 1 ELSE 0

Marked(ms) == {s \in Students : ms[s] # NoMark}

\* Mutant: the lesson is given the mark's status instead of its own.
StatusFromMark(ms) ==
  IF Marked(ms) = {} THEN Unstated ELSE ms[CHOOSE s \in Marked(ms) : TRUE]

\* What a register says about the lesson it belongs to.
StatusFromRegister(ms) ==
  IF Marked(ms) = {} THEN Unstated
  ELSE IF \E s \in Students : ms[s] \in CHARGED THEN "COMPLETED"
  ELSE "CANCELLED"

Verdict(ms, said) == IF said # Unstated THEN said ELSE StatusFromRegister(ms)

\* Mutant: a student the payload leaves out is wiped from the register.
ReplacedRegister(l, ms) == ms

Register(l, ms) ==
  [s \in Students |-> IF ms[s] # NoMark THEN ms[s] ELSE att[l][s]]

WriteUp(l, ms, said) ==
  /\ Here(l)
  /\ \A s \in Marked(ms) : Here(s)
  /\ att' = [att EXCEPT ![l] = Register(l, ms)]
  /\ left' = [s \in Students |->
                left[s] + Bill(att[l][s]) - Bill(Register(l, ms)[s])]
  /\ status' = [status EXCEPT ![l] =
                  IF Verdict(ms, said) = Unstated THEN @ ELSE Verdict(ms, said)]
  /\ UNCHANGED <<life, members, paid, erased>>

RosterNext ==
  \/ \E s \in Students, n \in Typed : CreateStudent(s, n) \/ UpdateStudent(s, n)
  \/ \E s \in Students : RemoveStudent(s)
  \/ \E g \in Groups : CreateGroup(g) \/ RemoveGroup(g)
  \/ \E g \in Groups, s \in Students : AddMember(g, s) \/ RemoveMember(g, s)
  \/ \E l \in Lessons : CreateLesson(l)
  \/ \E l \in Lessons, st \in LessonStatus : UpdateStatus(l, st)

LedgerNext ==
  \/ RosterNext
  \/ \E l \in Lessons, ms \in [Students -> Cell],
        said \in LessonStatus \cup {Unstated} : WriteUp(l, ms, said)

LedgerSpec == RosterInit /\ [][LedgerNext]_rosterVars
=============================================================================
